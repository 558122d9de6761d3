---------------------------- MODULE RegionalAuth ----------------------------
(***************************************************************************)
(* Who starts an authentication attempt and what becomes of its result: a  *)
(* sign-in flow with its account, verification and reclaim steps, the      *)
(* setup of an entry that resumes the stored session, and the renewal of a *)
(* running one.  Attempts of one account do not overlap here; what happens *)
(* when a flow and a running entry do is EntryLifecycle's subject.         *)
(***************************************************************************)
EXTENDS EuAuth, AnzAuth, RussiaAuth

VARIABLES
  saved,      \* the durable authentication state; Empty when there is none
  flow,       \* step, confirmation and continuation state of the config flow
  history     \* what happened, for the properties; no code reads it

vars == << region, att, provider, clock, saved, flow, history >>

Steps == {"none", "account", "verification", "reclaim"}
Flows == [ step : Steps, confirmed : BOOLEAN, state : AuthState ]
NoFlow == [ step |-> "none", confirmed |-> FALSE, state |-> Empty ]

\* asked: when GWM was last asked for a code; excused: the client can not, or
\* need not, know that it was; consent: the user agreed to claim the session;
\* refused: GWM refused the session this attempt tried to resume.
Histories ==
  [ asked : Times \cup {Never}, excused : BOOLEAN, consent : BOOLEAN, refused : BOOLEAN ]

TypeOK ==
  /\ region \in Regions
  /\ att \in Attempts
  /\ provider \in [ issued : Pairs, dead : SUBSET Pairs, spent : SUBSET Pairs ]
  /\ clock \in Times
  /\ saved \in AuthState
  /\ flow \in Flows
  /\ history \in Histories

Init ==
  /\ region \in Regions
  /\ att = NoAttempt
  /\ provider = [ issued |-> 0, dead |-> {}, spent |-> {} ]
  /\ clock \in Times
  /\ saved = Empty
  /\ flow = NoFlow
  /\ history = [ asked |-> Never, excused |-> FALSE, consent |-> FALSE, refused |-> FALSE ]

---------------------------------------------------------------------------
(* Starting an attempt.                                                    *)

Attempt(caller, s, code, allow) ==
  [ NoAttempt EXCEPT !.caller = caller, !.cand = s, !.code = code, !.allow = allow ]

\* async_authenticate: the region decides who runs the attempt.
Dispatched(a) ==
  CASE region = "eu" -> EuStart(a)
    [] region \in Anz -> AnzStart(a)
    [] region = "russia" -> RussiaStart(a)

\* What an attempt needs before its first request (bootstrap material, TLS
\* contexts) may be missing.
Begins(a) ==
  /\ att.stage = "idle"
  /\ att' \in { Dispatched(a), Raised(a, "Configuration") }

\* ANZ has no allow_password_login: there the reclaim is what must be allowed.
FlowAllows(confirmed) == region \in Anz => confirmed

\* The account step (also of reauth and reconfigure) restores the continuation
\* stored for the credentials typed; under others the store discards it.
SubmitAccount ==
  /\ flow.step \in {"none", "account"}
  /\ \E s \in { saved, Empty } :
       /\ saved' = s
       /\ flow' = [ step |-> "account", confirmed |-> FALSE, state |-> s ]
       /\ Begins(Attempt("flow", s, FALSE, FlowAllows(FALSE)))
       /\ history' = [ history EXCEPT !.consent = FALSE, !.refused = FALSE,
                         !.excused = @ \/ s # saved ]
  /\ UNCHANGED << region, provider, clock >>

SubmitCode ==
  /\ flow.step = "verification"
  /\ Begins(Attempt("flow", flow.state, TRUE, FlowAllows(flow.confirmed)))
  /\ history' = [ history EXCEPT !.refused = FALSE ]
  /\ UNCHANGED << region, provider, clock, saved, flow >>

ConfirmReclaim ==
  /\ flow.step = "reclaim"
  /\ flow' = [ flow EXCEPT !.confirmed = TRUE ]
  /\ Begins(Attempt("flow", flow.state, FALSE, TRUE))
  /\ history' = [ history EXCEPT !.consent = TRUE, !.refused = FALSE ]
  /\ UNCHANGED << region, provider, clock, saved >>

\* A flow may be closed at any of its forms.
AbandonFlow ==
  /\ att.stage = "idle"
  /\ flow.step # "none"
  /\ flow' = NoFlow
  /\ UNCHANGED << region, att, provider, clock, saved, history >>

\* _async_load_cloud_bootstrap: nothing is asked of GWM without a stored state.
Setup ==
  /\ saved # Empty
  /\ Begins(Attempt("setup", saved, FALSE, FALSE))
  /\ history' = [ history EXCEPT !.refused = FALSE ]
  /\ UNCHANGED << region, provider, clock, saved, flow >>

\* A running entry renews after GWM refused its access token.
RenewStarted(a) ==
  CASE region = "eu" -> EuRenew(a)
    [] region \in Anz -> AnzRenew(a)
    [] region = "russia" -> RussiaRenew(a)

Renew ==
  /\ att.stage = "idle"
  /\ saved.access # 0
  /\ att' = RenewStarted(Attempt("renew", saved, FALSE, FALSE))
  /\ Refuses(saved.access, Err("Authentication", "other"))
  /\ history' = [ history EXCEPT !.refused = (saved.refresh = 0) ]
  /\ UNCHANGED << region, clock, saved, flow >>

---------------------------------------------------------------------------
(* The requests, with what they leave in the history.                      *)

Asking == att.stage # "request" /\ att'.stage = "request"
AskingEnds == att.stage = "request" /\ att'.outcome.kind = "error"

\* A resumed session is refused when its last token is: the access token
\* without a refresh token, the refresh token, the pair just refreshed, any
\* answer 401 to the enrolment, a conflict.
Resuming == {"userInfo", "refresh", "refreshedInfo", "enroll"}
Refused ==
  /\ att.stage \in Resuming
  /\ \/ att'.outcome.class = "Authentication"
     \/ att'.stage # "ended" /\ att'.cand.access = 0
     \/ att'.outcome.kind = "reclaim"

Answered ==
  /\ EuStep \/ AnzStep \/ RussiaStep \/ Interrupted
  /\ history' = [ history EXCEPT
                    !.asked   = IF Asking THEN clock ELSE @,
                    !.excused = IF Asking THEN FALSE ELSE @ \/ AskingEnds,
                    !.refused = @ \/ Refused ]
  /\ UNCHANGED << saved, flow >>

---------------------------------------------------------------------------
(* What becomes of a result.                                               *)

Over(caller) == att.stage = "ended" /\ att.caller = caller

\* A save can fail; then neither the store nor the flow moves on.
Kept == saved' = att.cand
Lost == UNCHANGED saved

\* _async_route_authentication.
RouteAuthenticated ==
  /\ Over("flow") /\ att.outcome.kind = "authenticated"
  /\ Kept \/ Lost
  /\ flow' = NoFlow
  /\ att' = NoAttempt
  /\ history' = [ history EXCEPT !.excused = TRUE ]
  /\ UNCHANGED << region, provider, clock >>

RouteContinuation ==
  /\ Over("flow") /\ att.outcome.kind \in {"verification", "reclaim"}
  /\ \/ /\ Kept
        /\ flow' = [ step |-> IF att.outcome.kind = "reclaim" THEN "reclaim" ELSE "verification",
                     confirmed |-> flow.confirmed /\ att.outcome.kind # "reclaim",
                     state |-> att.cand ]
        /\ history' = [ history EXCEPT !.excused = @ \/ att.outcome.rejected,
                          !.consent = @ /\ att.outcome.kind # "reclaim" ]
     \/ /\ Lost
        /\ UNCHANGED flow
        /\ history' = [ history EXCEPT !.excused = TRUE ]
  /\ att' = NoAttempt
  /\ UNCHANGED << region, provider, clock >>

\* _async_authenticate turns every error into one of the form's.
RouteError ==
  /\ Over("flow") /\ att.outcome.kind = "error"
  /\ flow' = [ flow EXCEPT !.confirmed = @ /\ flow.step # "reclaim" ]
  /\ att' = NoAttempt
  /\ UNCHANGED << region, provider, clock, saved, history >>

DiscardsOnError(a) == a.outcome.kind # "authenticated"

\* The setup keeps a resumed session, drops one GWM refused or that needs the
\* user, and keeps it through every other failure.
Discards(a) ==
  \/ a.outcome.kind \in {"verification", "reclaim"}
  \/ a.outcome.class = "Authentication"

SetupEnds ==
  /\ Over("setup")
  /\ \/ att.outcome.kind = "authenticated" /\ (Kept \/ Lost)
     \/ Discards(att) /\ (saved' = Empty \/ Lost)
     \/ att.outcome.kind = "error" /\ ~ Discards(att) /\ Lost
  /\ att' = NoAttempt
  /\ history' = [ history EXCEPT !.excused = @ \/ saved' # saved ]
  /\ UNCHANGED << region, provider, clock, flow >>

\* A renewed session is stored, now or before its next use; a refused one is
\* retired.
RenewalEnds ==
  /\ Over("renew")
  /\ \/ att.outcome.kind = "authenticated" /\ (Kept \/ Lost)
     \/ att.outcome.class = "Authentication" /\ (saved' = Empty \/ Lost)
     \/ att.outcome.kind = "error" /\ att.outcome.class # "Authentication" /\ Lost
  /\ att' = NoAttempt
  /\ history' = [ history EXCEPT !.excused = @ \/ saved' # saved ]
  /\ UNCHANGED << region, provider, clock, flow >>

---------------------------------------------------------------------------
\* The clock goes on, or is set back, which hides when a code was asked for.
Tick ==
  /\ clock < MaxTime
  /\ clock' = clock + 1
  /\ UNCHANGED << region, att, provider, saved, flow, history >>

SetBack ==
  /\ clock > 0
  /\ clock' = clock - 1
  /\ history' = [ history EXCEPT !.excused = TRUE ]
  /\ UNCHANGED << region, att, provider, saved, flow >>

Ends ==
  RouteAuthenticated \/ RouteContinuation \/ RouteError \/ SetupEnds \/ RenewalEnds

Next ==
  \/ SubmitAccount \/ SubmitCode \/ ConfirmReclaim \/ AbandonFlow
  \/ Setup \/ Renew
  \/ Answered
  \/ Ends
  \/ Tick \/ SetBack

Spec == Init /\ [][Next]_vars

---------------------------------------------------------------------------
(* Properties.                                                             *)

\* The variables have their types, and no attempt is stopped by the client's own
\* checks: every state it builds is one its constructor accepts (a refusal would
\* surface as a network error) and every request one its route policy lets out.
WellFormed ==
  /\ TypeOK
  /\ \A s \in { saved, flow.state, att.cand } :
       /\ region = "eu" => EuConstructible(s)
       /\ region \in Anz => AnzConstructible(s)
  /\ att.outcome.class # "RoutePolicy"

\* A client certificate is never used with another gwId than the one it was
\* enrolled for (_apply_user_info, _parse_login).
IdentityOfItsAccount ==
  \A s \in { saved, flow.state, att.cand } : s.identity \in { NoId, s.gw }

\* A resumed or renewed session never holds a refresh token that was already
\* exchanged, although an exchange whose profile could not be read leaves the
\* old pair in the store: the access token must have been refused before.  The
\* current ANZ protocol resumes without asking and is excepted.
NoSpentSession ==
  att.outcome.kind = "authenticated" /\ region # "anz_current"
    => att.cand.refresh \notin provider.spent

\* A code is asked for again within the interval only if the client knows the
\* last one is no use (refused, used) or can not know it was sent (answer or
\* record lost, clock set back, other credentials).
CodesSpaced ==
  [][ Asking => \/ history.excused \/ history.asked = Never
                \/ clock - history.asked >= Interval ]_vars

\* A password or a code is sent only for a caller that allows it, and in ANZ only
\* while the user's consent to claim the session stands.  Setup and renewal
\* never sign in.
NoUnaskedLogin ==
  [][ (att'.stage \in {"verify", "login"} /\ att'.stage # att.stage)
        => /\ att'.caller = "flow"
           /\ region \in Anz => history'.consent ]_vars

\* A stored session is dropped only after GWM refused it, or by a flow with
\* other credentials: no transport failure, rate limit or server error costs the
\* user a sign-in.
DroppedOnlyIfRefused ==
  [][ (saved.access # 0 /\ saved'.access = 0 /\ att.stage = "ended") => history.refused ]_vars
=============================================================================
