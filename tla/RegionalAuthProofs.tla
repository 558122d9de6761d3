-------------------------- MODULE RegionalAuthProofs -------------------------
(***************************************************************************)
(* Proofs about RegionalAuth, for every set of gwIds, every number of      *)
(* token pairs, every interval and every clock: the client never stops its *)
(* own attempt, an identity stays with its account, a spent session is not *)
(* taken for good, codes are spaced, nobody is signed in unasked, and no   *)
(* stored session is dropped without a refusal.                            *)
(*                                                                         *)
(* The argument: what a request of a region leaves is described once, for  *)
(* all of them, by Follows; the invariants are proved from Follows and     *)
(* from what the callers do with a result.                                 *)
(***************************************************************************)
EXTENDS RegionalAuth, TLAPS

-----------------------------------------------------------------------------
(* What holds of an authentication state that is stored or worked on.      *)
SessionOK(s) ==
    /\ s \in AuthState
    /\ s.refresh \in {0, s.access}
    /\ s.identity \in {NoId, s.gw}
    /\ region # "eu" => s.identity = NoId
    /\ region \in Anz => AnzConstructible(s)
    /\ region = "anz_current" /\ s.access # 0 => s.gw # NoId

(* What holds of an attempt, given what GWM has issued, refused and        *)
(* exchanged (p): the tokens it holds and those it asks with, by stage.    *)
SigningIn == {"verify", "login", "request"}
LoginUnread(a) == a.stage = "loginInfo" /\ region # "russia"
Continues(a) == a.outcome.kind \in {"verification", "reclaim"}

Typed(a, p) ==
    /\ a \in Attempts /\ SessionOK(a.cand)
    /\ a.cand.access <= p.issued /\ a.pair <= p.issued
    /\ a.outcome.class # "RoutePolicy"
    /\ a.stage # "ended" => a.outcome = NoOutcome

Permitted(a) ==
    /\ a.allow => a.caller = "flow"
    /\ a.stage \in SigningIn \cup {"loginInfo"} => a.allow
    /\ a.outcome.kind = "verification" => a.allow
    /\ region = "eu" => a.stage # "loginInfo"
    /\ region # "eu" => a.stage \notin {"context", "enroll"}
    /\ region = "anz_current" => a.stage \notin {"userInfo", "refreshedInfo", "loginInfo"}

Tokened(a, p) ==
    /\ a.stage \in SigningIn \/ LoginUnread(a) \/ Continues(a) => a.cand.access = 0
    /\ a.stage \in {"userInfo", "refresh", "refreshedInfo", "context", "enroll"} =>
          a.cand.access # 0
    /\ a.stage \in {"context", "enroll"} => a.cand.gw # NoId /\ a.cand.refresh \notin p.spent
    /\ a.stage = "refresh" => a.cand.refresh # 0 /\ a.cand.access \in p.dead
    /\ a.stage \in {"refreshedInfo", "loginInfo"} => a.pair # 0 /\ a.pair \notin p.spent
    /\ a.stage = "loginInfo" /\ region = "russia" =>
          a.cand.access # 0 /\ a.cand.refresh \notin p.spent
    /\ a.outcome.kind = "authenticated" =>
          a.cand.access # 0 /\ (region # "anz_current" => a.cand.refresh \notin p.spent)

Well(a, p) == Typed(a, p) /\ Permitted(a) /\ Tokened(a, p)

(* The stages from which a code may still be asked for, and the results    *)
(* that are stored for it.                                                 *)
Remembers(a) ==
    \/ a.stage \in SigningIn \cup {"userInfo", "refresh", "refreshedInfo"}
    \/ LoginUnread(a)
    \/ Continues(a) /\ ~a.outcome.rejected

(* GWM refused the session that a tried to resume.                         *)
RefusedBy(a, b) ==
    /\ a.stage \in Resuming
    /\ \/ b.outcome.class = "Authentication"
       \/ b.stage # "ended" /\ b.cand.access = 0
       \/ b.outcome.kind = "reclaim"

(* What an answer makes of the attempt a.                                  *)
Asks(a, b) ==
    /\ a.stage = "login" /\ b.stage = "request"
    /\ ~Throttled(a.cand) /\ b.cand.asked = clock

Follows(a, b, p) ==
    /\ Well(b, p)
    /\ b.caller = a.caller /\ b.allow = a.allow /\ b.stage # "idle"
    /\ b.cand.access = 0 => a.cand.access = 0 \/ RefusedBy(a, b)
    /\ b.outcome.class = "Authentication" => a.stage \in Resuming \/ a.allow
    /\ Remembers(b) => Asks(a, b) \/ (Remembers(a) /\ b.cand.asked = a.cand.asked)
    /\ b.stage = "request" => Asks(a, b)
    /\ a.stage = "request" => b.outcome.kind \in {"verification", "error"}

(* What starting an attempt makes of it.                                   *)
Starts(a, b, p) ==
    /\ Well(b, p)
    /\ b.caller = a.caller /\ b.allow = a.allow /\ b.stage \notin {"idle", "request"}
    /\ b.cand.access = 0 => a.cand.access = 0
    /\ b.outcome.class = "Authentication" =>
          a.cand.refresh = 0 /\ (a.caller # "renew" => a.cand.access = 0)
    /\ a.cand.access = 0 /\ ~a.allow => b.stage = "ended" /\ b.outcome.kind # "authenticated"
    /\ b.outcome.kind # "verification"
    /\ Remembers(b) => b.cand.asked = a.cand.asked

-----------------------------------------------------------------------------
(* What every step finds.                                                  *)

AttemptInv ==
    /\ Well(att, provider)
    /\ att.stage = "idle" => att = NoAttempt
    /\ att.stage # "idle" => att.caller # "nobody"

StoredInv ==
    \A s \in {saved, flow.state} : SessionOK(s) /\ s.access <= provider.issued

(* Only a pair whose access token was refused is exchanged.                *)
SpentInv == provider.spent \subseteq (1..provider.issued) \cap provider.dead

(* A continuation is stored, so a flow that waits for the user has no      *)
(* session beside it.                                                      *)
FlowInv == flow.step \in {"verification", "reclaim"} => saved.access = 0

ConsentInv ==
    /\ region \in Anz /\ att.allow => history.consent
    /\ flow.confirmed => history.consent

RefusedInv ==
    saved.access # 0 =>
        /\ att.caller \in {"flow", "setup"} /\ att.cand.access = 0 => history.refused
        /\ att.caller \in {"setup", "renew"} /\ att.outcome.class = "Authentication" =>
              history.refused

(* Without a session nothing is resumed.                                   *)
NothingInv ==
    att.caller \in {"setup", "renew"} /\ saved.access = 0 =>
        att.stage = "ended" /\ att.outcome.kind # "authenticated"

Pending(a) == a.stage = "request" \/ a.outcome.kind = "verification"
SpacedInv ==
    ~history.excused /\ history.asked # Never =>
        /\ history.asked <= clock
        /\ Remembers(att) => att.cand.asked = history.asked
        /\ ~Pending(att) =>
              /\ saved.asked = history.asked
              /\ flow.step \in {"verification", "reclaim"} => flow.state.asked = history.asked

IInv ==
    /\ TypeOK /\ AttemptInv /\ StoredInv /\ SpentInv /\ FlowInv
    /\ ConsentInv /\ RefusedInv /\ NothingInv /\ SpacedInv

-----------------------------------------------------------------------------
(* What the decoders answer: Fine or an error, never a refusal by the      *)
(* client itself.                                                          *)
Failures == {"Api", "Authentication", "Signature", "RateLimit", "Http", "Schema",
             "Network", "Deadline", "Configuration"}
Decoded(e) == e = Fine \/ e.class \in Failures

LEMMA DecodersAnswer ==
    ASSUME NEW r \in Responses
    PROVE  Decoded(EuDecode(r)) /\ Decoded(AnzDecode(r)) /\ Decoded(RussiaDecode(r))
<1>1. /\ r.status \in {200, 401, 429, 500}
      /\ r.status = 401 => r.code \in {"607501", "other"}
  BY DEF Responses
<1>2. Decoded(EuDecode(r))
  BY <1>1 DEF EuDecode, Decoded, Failures, Err, Fine
<1>3. Decoded(AnzDecode(r))
  BY <1>1 DEF AnzDecode, Decoded, Failures, Err, Fine
<1>4. Decoded(RussiaDecode(r))
  BY <1>1 DEF RussiaDecode, Decoded, Failures, Err, Fine
<1> QED BY <1>2, <1>3, <1>4

(* What GWM does with its tokens.                                          *)
Provider == [ issued : Pairs, dead : SUBSET Pairs, spent : SUBSET Pairs ]
Sober(p) == p \in Provider /\ p.spent \subseteq (1..p.issued) \cap p.dead
Grows(p, q) ==
    /\ Sober(q) /\ p.issued <= q.issued /\ p.issued \in Pairs
    /\ p.dead \subseteq q.dead /\ q.spent = p.spent

LEMMA RefusalGrows ==
    ASSUME NEW t \in Pairs, NEW e, Sober(provider), Refuses(t, e)
    PROVE  Grows(provider, provider') /\ (TokenRefusal(e) => t \in provider'.dead)
BY BoundsAssumption DEF Sober, Provider, Grows, Refuses, Pairs

LEMMA IssueGrows ==
    ASSUME Sober(provider), Issues
    PROVE  /\ Grows(provider, provider') /\ provider'.issued = NextPair
           /\ NextPair \in Pairs /\ NextPair # 0 /\ NextPair \notin provider'.spent
BY BoundsAssumption DEF Sober, Provider, Grows, Issues, NextPair, Pairs

LEMMA ExchangeGrows ==
    ASSUME Sober(provider), NEW t \in 1..provider.issued, t \in provider.dead, Exchanges(t)
    PROVE  /\ Sober(provider') /\ provider'.issued = NextPair
           /\ provider.issued <= provider'.issued /\ provider.issued \in Pairs
           /\ provider'.spent = provider.spent \cup {t}
           /\ provider.dead \subseteq provider'.dead
           /\ NextPair \in Pairs /\ NextPair # 0 /\ NextPair \notin provider'.spent
<1>1. /\ provider \in Provider /\ provider.issued \in Nat /\ provider.issued < MaxPair
      /\ provider' = [ provider EXCEPT !.issued = @ + 1, !.spent = @ \cup {t} ]
  BY BoundsAssumption DEF Sober, Provider, Exchanges, Pairs
<1>2. /\ provider'.issued = NextPair /\ provider'.spent = provider.spent \cup {t}
      /\ provider'.dead = provider.dead
  BY <1>1 DEF Provider, NextPair
<1>3. NextPair = provider.issued + 1 /\ NextPair \in Pairs /\ t \in Pairs
  BY <1>1, BoundsAssumption DEF NextPair, Pairs
<1>4. provider' \in Provider
  BY <1>1, <1>3 DEF Provider, NextPair
<1>5. provider.spent \subseteq (1..provider.issued) \cap provider.dead
  BY DEF Sober
<1>6. provider'.spent \subseteq (1..provider'.issued) \cap provider'.dead
  BY <1>1, <1>2, <1>3, <1>5
<1>7. NextPair \notin provider'.spent
  BY <1>1, <1>2, <1>3, <1>5
<1>8. /\ provider.issued <= provider'.issued /\ provider.issued \in Pairs
      /\ NextPair # 0 /\ provider.dead \subseteq provider'.dead
  BY <1>1, <1>2, <1>3 DEF Provider
<1>9. Sober(provider')
  BY <1>4, <1>6 DEF Sober
<1> QED BY <1>2, <1>3, <1>7, <1>8, <1>9

-----------------------------------------------------------------------------
(* The ways to return and the one to raise, as records.                    *)
EndsWith(a, b, kind, s, rejected, class) ==
    /\ b \in Attempts /\ b.stage = "ended" /\ b.cand = s /\ b.pair = 0
    /\ b.caller = a.caller /\ b.allow = a.allow
    /\ b.outcome.kind = kind /\ b.outcome.rejected = rejected /\ b.outcome.class = class

LEMMA EndedFields ==
    ASSUME NEW a \in Attempts, NEW kind, NEW s \in AuthState, NEW rejected, NEW class,
           [ kind |-> kind, rejected |-> rejected, class |-> class ] \in Outcomes
    PROVE  EndsWith(a, Ended(a, kind, s, rejected, class), kind, s, rejected, class)
<1> DEFINE o == [ kind |-> kind, rejected |-> rejected, class |-> class ]
           b == Ended(a, kind, s, rejected, class)
<1>1. o \in Outcomes /\ o.kind = kind /\ o.rejected = rejected /\ o.class = class
  OBVIOUS
<1>2. b = [ a EXCEPT !.stage = "ended", !.cand = s, !.pair = 0, !.outcome = o ]
  BY DEF Ended
<1> HIDE DEF o, b
<1>3. "ended" \in Stages /\ 0 \in Pairs
  BY BoundsAssumption DEF Stages, Requests, Pairs
<1>4. EndsWith(a, b, kind, s, rejected, class)
  BY <1>1, <1>2, <1>3 DEF Attempts, EndsWith
<1> QED BY <1>4 DEF b

LEMMA ReturnFields ==
    ASSUME NEW a \in Attempts, NEW s \in AuthState
    PROVE  /\ EndsWith(a, Authenticated(a, s), "authenticated", s, FALSE, "none")
           /\ EndsWith(a, CodeNeeded(a, s), "verification", s, FALSE, "none")
           /\ EndsWith(a, CodeRejected(a, s), "verification", [s EXCEPT !.asked = Never], TRUE, "none")
           /\ EndsWith(a, ReclaimNeeded(a, s), "reclaim", s, FALSE, "none")
<1>1. /\ [ kind |-> "authenticated", rejected |-> FALSE, class |-> "none" ] \in Outcomes
      /\ [ kind |-> "verification", rejected |-> FALSE, class |-> "none" ] \in Outcomes
      /\ [ kind |-> "verification", rejected |-> TRUE, class |-> "none" ] \in Outcomes
      /\ [ kind |-> "reclaim", rejected |-> FALSE, class |-> "none" ] \in Outcomes
  BY DEF Outcomes, Classes
<1>2. [s EXCEPT !.asked = Never] \in AuthState
  BY DEF AuthState
<1> QED BY <1>1, <1>2, EndedFields DEF Authenticated, CodeNeeded, CodeRejected, ReclaimNeeded

LEMMA RaisedFields ==
    ASSUME NEW a \in Attempts, NEW class \in Failures
    PROVE  EndsWith(a, Raised(a, class), "error", a.cand, FALSE, class)
<1>1. [ kind |-> "error", rejected |-> FALSE, class |-> class ] \in Outcomes
  BY DEF Outcomes, Classes, Failures
<1>2. a.cand \in AuthState
  BY DEF Attempts
<1> QED BY <1>1, <1>2, EndedFields DEF Raised

-----------------------------------------------------------------------------
(* What each kind of result is to the attempt it comes from, for all       *)
(* regions.                                                                *)
NoLess(p, q) == p.issued <= q.issued /\ p.issued \in Pairs /\ q.issued \in Pairs

LEMMA GrowsNoLess ==
    ASSUME NEW p, NEW q, Grows(p, q)
    PROVE  NoLess(p, q)
BY DEF Grows, NoLess, Sober, Provider

Waiting(a, p) == Well(a, p) /\ a.stage \in Requests \cup {"context"}

LEMMA WaitingFacts ==
    ASSUME NEW a, NEW p, Waiting(a, p)
    PROVE  /\ a \in Attempts /\ a.cand \in AuthState /\ a.stage \notin {"idle", "ended"}
           /\ a.outcome = NoOutcome /\ SessionOK(a.cand) /\ a.pair \in Pairs
           /\ a.cand.access \in Pairs /\ a.cand.refresh \in Pairs
           /\ a.outcome.kind = "none" /\ a.outcome.class = "none"
BY DEF Waiting, Well, Typed, Attempts, AuthState, Requests, NoOutcome

LEMMA RaisedFollows ==
    ASSUME NEW a, NEW p, NEW q, Waiting(a, p), NoLess(p, q), NEW class \in Failures,
           class = "Authentication" => a.stage \in Resuming \/ a.allow
    PROVE  Follows(a, Raised(a, class), q)
<1> DEFINE b == Raised(a, class)
<1>1. EndsWith(a, b, "error", a.cand, FALSE, class)
  BY WaitingFacts, RaisedFields
<1> HIDE DEF b
<1>2. a \in Attempts /\ a.cand.access \in Pairs /\ class # "RoutePolicy"
  BY WaitingFacts DEF Failures
<1>3. Typed(b, q)
  BY <1>1, <1>2, BoundsAssumption DEF Waiting, Well, Typed, EndsWith, NoLess, Pairs
<1>4. Permitted(b)
  BY <1>1 DEF Waiting, Well, Permitted, SigningIn, EndsWith
<1>5. Tokened(b, q) /\ ~Remembers(b)
  BY <1>1 DEF Tokened, Remembers, SigningIn, LoginUnread, Continues, EndsWith
<1>6. Follows(a, b, q)
  BY <1>1, <1>3, <1>4, <1>5 DEF Follows, Well, EndsWith
<1> QED BY <1>6 DEF b

(* The saved session did not serve, and the caller has to sign in.         *)
LEMMA SignInFollows ==
    ASSUME NEW a, NEW p, NEW q, Waiting(a, p), NoLess(p, q),
           a.stage \in {"userInfo", "refresh", "refreshedInfo"}, a.allow,
           NEW s, s \in AuthState, SessionOK(s), s.access = 0, s.asked = a.cand.asked,
           NEW stage \in {"verify", "login"}, NEW pair \in {0, a.pair},
           NEW b, b = [ a EXCEPT !.cand = s, !.pair = pair, !.stage = stage ]
    PROVE  Follows(a, b, q)
<1>1. a \in Attempts /\ a.pair \in Pairs /\ pair \in Pairs /\ a.outcome = NoOutcome /\ stage \in Stages
  BY WaitingFacts, BoundsAssumption DEF Stages, Requests, Pairs
<1>2. /\ b \in Attempts /\ b.stage = stage /\ b.cand = s /\ b.pair = pair
      /\ b.caller = a.caller /\ b.allow = a.allow /\ b.outcome = NoOutcome
  BY <1>1 DEF Attempts
<1>3. b.outcome.kind = "none" /\ b.outcome.class = "none"
  BY <1>2 DEF NoOutcome
<1>4. Typed(b, q)
  BY <1>1, <1>2, <1>3, BoundsAssumption DEF Waiting, Well, Typed, NoLess, Pairs
<1>5. Permitted(b)
  BY <1>2, <1>3 DEF Waiting, Well, Permitted, SigningIn
<1>6. Tokened(b, q)
  BY <1>2, <1>3 DEF Tokened, SigningIn, LoginUnread, Continues
<1>7. Remembers(a) /\ b.cand.asked = a.cand.asked /\ RefusedBy(a, b)
  BY <1>2 DEF Remembers, RefusedBy, Resuming
<1> QED BY <1>2, <1>3, <1>4, <1>5, <1>6, <1>7 DEF Follows, Well

LEMMA UnsignedFollows ==
    ASSUME NEW a, NEW p, NEW q, Waiting(a, p), NoLess(p, q), a.stage \in Resuming,
           NEW s, s \in AuthState, SessionOK(s), s.access = 0,
           NEW pair \in {0, a.pair},
           NEW c, c = [ a EXCEPT !.cand = s, !.pair = pair ],
           NEW b, b = Raised(c, "Authentication")
    PROVE  Follows(a, b, q)
<1>1. a \in Attempts /\ a.pair \in Pairs /\ pair \in Pairs
  BY WaitingFacts, BoundsAssumption DEF Pairs
<1>2. c \in Attempts /\ c.caller = a.caller /\ c.allow = a.allow /\ c.cand = s
  BY <1>1 DEF Attempts
<1>3. EndsWith(c, b, "error", s, FALSE, "Authentication")
  BY <1>2, RaisedFields DEF Failures
<1>4. Typed(b, q)
  BY <1>3, BoundsAssumption DEF Typed, EndsWith, NoLess, Pairs
<1>5. Permitted(b)
  BY <1>2, <1>3 DEF Waiting, Well, Permitted, SigningIn, EndsWith
<1>6. Tokened(b, q) /\ ~Remembers(b)
  BY <1>3 DEF Tokened, Remembers, SigningIn, LoginUnread, Continues, EndsWith
<1>7. RefusedBy(a, b)
  BY <1>3 DEF RefusedBy, EndsWith
<1> QED BY <1>2, <1>3, <1>4, <1>5, <1>6, <1>7 DEF Follows, Well, EndsWith, Resuming

LEMMA ReclaimedFits ==
    ASSUME NEW s \in AuthState, SessionOK(s), region \in Anz
    PROVE  /\ Reclaimed(s) \in AuthState /\ SessionOK(Reclaimed(s))
           /\ Reclaimed(s).access = 0 /\ Reclaimed(s).asked = s.asked
<1> DEFINE t == Reclaimed(s)
<1>1. /\ t \in AuthState /\ t.access = 0 /\ t.refresh = 0 /\ t.gw = NoId /\ t.reclaim
      /\ t.identity = s.identity /\ t.asked = s.asked
  <2>1. 0 \in Pairs /\ NoId \in OptionalId
    BY BoundsAssumption DEF Pairs, OptionalId
  <2>2. t = [ s EXCEPT !.access = 0, !.refresh = 0, !.gw = NoId, !.reclaim = TRUE ]
    BY DEF Reclaimed
  <2> HIDE DEF t
  <2>3. t \in AuthState
    BY <2>1, <2>2 DEF AuthState
  <2> QED BY <2>2, <2>3 DEF AuthState
<1>2. s.identity = NoId
  BY DEF SessionOK, Anz
<1> HIDE DEF t
<1>3. SessionOK(t)
  BY <1>1, <1>2 DEF SessionOK, AnzConstructible
<1> QED BY <1>1, <1>3 DEF t

LEMMA DroppedFits ==
    ASSUME NEW s \in AuthState, SessionOK(s), region \notin Anz
    PROVE  /\ EuDropped(s) \in AuthState /\ SessionOK(EuDropped(s))
           /\ EuDropped(s).access = 0 /\ EuDropped(s).asked = s.asked
           /\ RussiaDropped(s) = EuDropped(s)
<1> DEFINE t == EuDropped(s)
<1>1. /\ t \in AuthState /\ t.access = 0 /\ t.refresh = 0 /\ t.gw = s.gw
      /\ t.identity = s.identity /\ t.asked = s.asked
  <2>1. 0 \in Pairs
    BY BoundsAssumption DEF Pairs
  <2>2. t = [ s EXCEPT !.access = 0, !.refresh = 0 ]
    BY DEF EuDropped
  <2> HIDE DEF t
  <2>3. t \in AuthState
    BY <2>1, <2>2 DEF AuthState
  <2> QED BY <2>2, <2>3 DEF AuthState
<1>2. RussiaDropped(s) = t
  BY DEF EuDropped, RussiaDropped
<1> HIDE DEF t
<1>3. SessionOK(t)
  BY <1>1 DEF SessionOK, Anz
<1> QED BY <1>1, <1>2, <1>3 DEF t

(* ANZ: the user is asked whether to claim the session.                    *)
LEMMA ReclaimFollows ==
    ASSUME NEW a, NEW p, NEW q, Waiting(a, p), NoLess(p, q), region \in Anz,
           \/ a.stage \in {"userInfo", "refresh", "refreshedInfo"}
           \/ LoginUnread(a)
    PROVE  Follows(a, ReclaimNeeded(a, Reclaimed(a.cand)), q)
<1> DEFINE s == Reclaimed(a.cand)
           b == ReclaimNeeded(a, s)
<1>1. a \in Attempts /\ a.cand \in AuthState
  BY WaitingFacts
<1>2. s \in AuthState /\ SessionOK(s) /\ s.access = 0 /\ s.asked = a.cand.asked
  BY <1>1, WaitingFacts, ReclaimedFits
<1> HIDE DEF s
<1>3. EndsWith(a, b, "reclaim", s, FALSE, "none")
  BY <1>1, <1>2, ReturnFields
<1> HIDE DEF b
<1>4. Typed(b, q)
  BY <1>2, <1>3, BoundsAssumption DEF Typed, EndsWith, NoLess, Pairs
<1>5. Permitted(b)
  BY <1>3 DEF Waiting, Well, Permitted, SigningIn, EndsWith
<1>6. Tokened(b, q)
  BY <1>2, <1>3 DEF Tokened, SigningIn, LoginUnread, Continues, EndsWith
<1>7. Remembers(a) /\ (a.cand.access = 0 \/ RefusedBy(a, b))
  BY <1>3 DEF Waiting, Well, Tokened, Remembers, RefusedBy, Resuming, EndsWith
<1>8. Follows(a, b, q)
  BY <1>2, <1>3, <1>4, <1>5, <1>6, <1>7 DEF Follows, Well, EndsWith, LoginUnread
<1> QED BY <1>8 DEF b, s

(* A code was refused, is on its way, or has been asked for.               *)
LEMMA CodeRejectedFollows ==
    ASSUME NEW a, NEW p, NEW q, Waiting(a, p), NoLess(p, q), a.stage \in {"verify", "login"}
    PROVE  Follows(a, CodeRejected(a, a.cand), q)
<1> DEFINE s == [a.cand EXCEPT !.asked = Never]
           b == CodeRejected(a, a.cand)
<1>1. a \in Attempts /\ a.cand \in AuthState
  BY WaitingFacts
<1>2. EndsWith(a, b, "verification", s, TRUE, "none")
  BY <1>1, ReturnFields
<1>3. s \in AuthState /\ SessionOK(s) /\ s.access = a.cand.access
  <2>1. /\ s \in AuthState /\ s.access = a.cand.access /\ s.refresh = a.cand.refresh
        /\ s.gw = a.cand.gw /\ s.identity = a.cand.identity /\ s.reclaim = a.cand.reclaim
    BY <1>1 DEF AuthState
  <2> HIDE DEF s
  <2> QED BY <2>1, WaitingFacts DEF SessionOK, AnzConstructible
<1> HIDE DEF s, b
<1>4. a.cand.access = 0 /\ a.allow
  BY DEF Waiting, Well, Tokened, Permitted, SigningIn
<1>5. Typed(b, q)
  BY <1>2, <1>3, <1>4, BoundsAssumption DEF Typed, EndsWith, NoLess, Pairs
<1>6. Permitted(b)
  BY <1>2, <1>4 DEF Waiting, Well, Permitted, SigningIn, EndsWith
<1>7. Tokened(b, q) /\ ~Remembers(b)
  BY <1>2, <1>3, <1>4 DEF Tokened, Remembers, SigningIn, LoginUnread, Continues, EndsWith
<1>8. Follows(a, b, q)
  BY <1>2, <1>4, <1>5, <1>6, <1>7 DEF Follows, Well, EndsWith
<1> QED BY <1>8 DEF b

LEMMA CodeNeededFollows ==
    ASSUME NEW a, NEW p, NEW q, Waiting(a, p), NoLess(p, q), a.stage \in {"login", "request"}
    PROVE  Follows(a, CodeNeeded(a, a.cand), q)
<1> DEFINE b == CodeNeeded(a, a.cand)
<1>1. a \in Attempts /\ a.cand \in AuthState /\ SessionOK(a.cand)
  BY WaitingFacts
<1>2. EndsWith(a, b, "verification", a.cand, FALSE, "none")
  BY <1>1, ReturnFields
<1> HIDE DEF b
<1>3. a.cand.access = 0 /\ a.allow
  BY DEF Waiting, Well, Tokened, Permitted, SigningIn
<1>4. Typed(b, q)
  BY <1>1, <1>2, <1>3, BoundsAssumption DEF Typed, EndsWith, NoLess, Pairs
<1>5. Permitted(b)
  BY <1>2, <1>3 DEF Waiting, Well, Permitted, SigningIn, EndsWith
<1>6. Tokened(b, q)
  BY <1>2, <1>3 DEF Tokened, SigningIn, LoginUnread, Continues, EndsWith
<1>7. Remembers(a)
  BY DEF Remembers, SigningIn
<1>8. Follows(a, b, q)
  BY <1>2, <1>3, <1>4, <1>5, <1>6, <1>7 DEF Follows, Well, EndsWith
<1> QED BY <1>8 DEF b

LEMMA RequestFollows ==
    ASSUME NEW a, NEW p, NEW q, Waiting(a, p), NoLess(p, q), a.stage = "login",
           clock \in Times, ~Throttled(a.cand),
           NEW b, b = [ [ a EXCEPT !.cand.asked = clock ] EXCEPT !.stage = "request" ]
    PROVE  Follows(a, b, q)
<1> DEFINE s == [a.cand EXCEPT !.asked = clock]
<1>1. a \in Attempts /\ a.cand \in AuthState /\ SessionOK(a.cand) /\ a.outcome = NoOutcome
  BY WaitingFacts
<1>2. /\ s \in AuthState /\ s.access = a.cand.access /\ s.refresh = a.cand.refresh
      /\ s.gw = a.cand.gw /\ s.identity = a.cand.identity /\ s.reclaim = a.cand.reclaim
      /\ s.asked = clock
  BY <1>1 DEF AuthState
<1>3. b = [ a EXCEPT !.cand = s, !.stage = "request" ]
  BY <1>1 DEF Attempts
<1> HIDE DEF s
<1>4. /\ b \in Attempts /\ b.stage = "request" /\ b.cand = s /\ b.pair = a.pair
      /\ b.caller = a.caller /\ b.allow = a.allow /\ b.outcome = NoOutcome
  BY <1>1, <1>2, <1>3 DEF Attempts, Stages, Requests
<1>5. b.outcome.kind = "none" /\ b.outcome.class = "none"
  BY <1>4 DEF NoOutcome
<1>6. SessionOK(s)
  BY <1>1, <1>2 DEF SessionOK, AnzConstructible
<1>7. a.cand.access = 0 /\ a.allow /\ a.pair <= p.issued /\ a.pair \in Pairs
  BY WaitingFacts DEF Waiting, Well, Tokened, Typed, Permitted, SigningIn
<1>8. Typed(b, q)
  BY <1>2, <1>4, <1>5, <1>6, <1>7, BoundsAssumption DEF Typed, NoLess, Pairs
<1>9. Permitted(b)
  BY <1>4, <1>5, <1>7 DEF Waiting, Well, Permitted, SigningIn
<1>10. Tokened(b, q)
  BY <1>2, <1>4, <1>5, <1>7 DEF Tokened, SigningIn, LoginUnread, Continues
<1> QED BY <1>2, <1>4, <1>5, <1>7, <1>8, <1>9, <1>10 DEF Follows, Well, Asks

(* The attempt goes on with its next request.                              *)
Moves(a, s, pair, stage, b) ==
    /\ b \in Attempts /\ b.stage = stage /\ b.cand = s /\ b.pair = pair
    /\ b.caller = a.caller /\ b.allow = a.allow
    /\ b.outcome = NoOutcome /\ b.outcome.kind = "none" /\ b.outcome.class = "none"

LEMMA MovesFields ==
    ASSUME NEW a \in Attempts, a.outcome = NoOutcome, NEW s \in AuthState, NEW pair \in Pairs,
           NEW stage \in Stages, NEW b,
           b = [ a EXCEPT !.cand = s, !.pair = pair, !.stage = stage ]
    PROVE  Moves(a, s, pair, stage, b)
<1>1. /\ b \in Attempts /\ b.stage = stage /\ b.cand = s /\ b.pair = pair
      /\ b.caller = a.caller /\ b.allow = a.allow /\ b.outcome = NoOutcome
  BY DEF Attempts
<1>2. b.outcome.kind = "none" /\ b.outcome.class = "none"
  BY <1>1 DEF NoOutcome
<1> QED BY <1>1, <1>2 DEF Moves

LEMMA StageOnlyMoves ==
    ASSUME NEW a, NEW p, Waiting(a, p), NEW stage \in Stages, NEW b,
           b = [ a EXCEPT !.stage = stage ]
    PROVE  Moves(a, a.cand, a.pair, stage, b)
<1>1. /\ a \in Attempts /\ a.cand \in AuthState /\ a.pair \in Pairs /\ a.outcome = NoOutcome
  BY WaitingFacts
<1>2. b = [ a EXCEPT !.cand = a.cand, !.pair = a.pair, !.stage = stage ]
  BY <1>1 DEF Attempts
<1> QED BY <1>1, <1>2, MovesFields

LEMMA PairMoves ==
    ASSUME NEW a, NEW p, Waiting(a, p), NEW pair \in Pairs, NEW stage \in Stages, NEW b,
           b = [ [ a EXCEPT !.pair = pair ] EXCEPT !.stage = stage ]
    PROVE  Moves(a, a.cand, pair, stage, b)
<1>1. /\ a \in Attempts /\ a.cand \in AuthState /\ a.outcome = NoOutcome
  BY WaitingFacts
<1>2. b = [ a EXCEPT !.cand = a.cand, !.pair = pair, !.stage = stage ]
  BY <1>1 DEF Attempts
<1> QED BY <1>1, <1>2, MovesFields

LEMMA VerifiedFollows ==
    ASSUME NEW a, NEW p, NEW q, Waiting(a, p), NoLess(p, q), q.spent = p.spent,
           a.stage = "verify", NEW b, Moves(a, a.cand, a.pair, "login", b)
    PROVE  Follows(a, b, q)
<1>1. a.pair <= p.issued /\ a.pair \in Pairs /\ a.cand.access = 0 /\ a.allow /\ SessionOK(a.cand)
  BY WaitingFacts DEF Waiting, Well, Typed, Tokened, Permitted, SigningIn
<1>2. Typed(b, q)
  BY <1>1, BoundsAssumption DEF Moves, Typed, NoLess, Pairs
<1>3. Permitted(b)
  BY <1>1 DEF Waiting, Well, Moves, Permitted, SigningIn
<1>4. Tokened(b, q)
  BY <1>1 DEF Moves, Tokened, SigningIn, LoginUnread, Continues
<1>5. Remembers(a)
  BY DEF Remembers, SigningIn
<1> QED BY <1>1, <1>2, <1>3, <1>4, <1>5 DEF Follows, Well, Moves

LEMMA RefreshFollows ==
    ASSUME NEW a, NEW p, NEW q, Waiting(a, p), NoLess(p, q),
           a.stage = "userInfo", a.cand.refresh # 0, a.cand.access \in q.dead,
           NEW b, Moves(a, a.cand, a.pair, "refresh", b)
    PROVE  Follows(a, b, q)
<1>1. /\ a.pair <= p.issued /\ a.pair \in Pairs /\ a.cand.access # 0 /\ SessionOK(a.cand)
      /\ a.cand.access <= p.issued /\ a.cand.access \in Pairs
  BY WaitingFacts DEF Waiting, Well, Typed, Tokened
<1>2. Typed(b, q)
  BY <1>1, BoundsAssumption DEF Moves, Typed, NoLess, Pairs
<1>3. Permitted(b)
  BY <1>1 DEF Waiting, Well, Moves, Permitted, SigningIn
<1>4. Tokened(b, q)
  BY <1>1 DEF Moves, Tokened, SigningIn, LoginUnread, Continues
<1>5. Remembers(a)
  BY DEF Remembers, SigningIn
<1> QED BY <1>1, <1>2, <1>3, <1>4, <1>5 DEF Follows, Well, Moves

LEMMA RefreshedFollows ==
    ASSUME NEW a, NEW p, NEW q, Waiting(a, p), NoLess(p, q),
           a.stage = "refresh", region # "anz_current",
           NEW n \in Pairs, n # 0, n <= q.issued, n \notin q.spent,
           NEW b, Moves(a, a.cand, n, "refreshedInfo", b)
    PROVE  Follows(a, b, q)
<1>1. /\ a.cand.access # 0 /\ SessionOK(a.cand)
      /\ a.cand.access <= p.issued /\ a.cand.access \in Pairs
  BY WaitingFacts DEF Waiting, Well, Typed, Tokened
<1>2. Typed(b, q)
  BY <1>1, BoundsAssumption DEF Moves, Typed, NoLess, Pairs
<1>3. Permitted(b)
  BY <1>1 DEF Waiting, Well, Moves, Permitted, SigningIn
<1>4. Tokened(b, q)
  BY <1>1 DEF Moves, Tokened, SigningIn, LoginUnread, Continues
<1>5. Remembers(a)
  BY DEF Remembers, SigningIn
<1> QED BY <1>1, <1>2, <1>3, <1>4, <1>5 DEF Follows, Well, Moves

(* A login of ANZ, whose pair is kept only after its profile was read.     *)
LEMMA UnreadFollows ==
    ASSUME NEW a, NEW p, NEW q, Waiting(a, p), NoLess(p, q),
           a.stage = "login", region = "anz_legacy",
           NEW n \in Pairs, n # 0, n <= q.issued, n \notin q.spent,
           NEW b, Moves(a, a.cand, n, "loginInfo", b)
    PROVE  Follows(a, b, q)
<1>1. a.cand.access = 0 /\ a.allow /\ SessionOK(a.cand)
  BY WaitingFacts DEF Waiting, Well, Typed, Tokened, Permitted, SigningIn
<1>2. Typed(b, q)
  BY <1>1, BoundsAssumption DEF Moves, Typed, NoLess, Pairs
<1>3. Permitted(b)
  BY <1>1 DEF Waiting, Well, Moves, Permitted, SigningIn
<1>4. Tokened(b, q)
  BY <1>1 DEF Moves, Tokened, SigningIn, LoginUnread, Continues
<1>5. Remembers(a)
  BY DEF Remembers, SigningIn
<1> QED BY <1>1, <1>2, <1>3, <1>4, <1>5 DEF Follows, Well, Moves

(* A login of Russia, which keeps its pair and reads the profile.          *)
LEMMA ReadingFollows ==
    ASSUME NEW a, NEW p, NEW q, Waiting(a, p), NoLess(p, q),
           a.stage \in {"verify", "login"}, region = "russia",
           NEW n \in Pairs, n # 0, n <= q.issued, n \notin q.spent,
           NEW s \in AuthState, SessionOK(s), s.access = n, s.refresh = n,
           NEW b, Moves(a, s, n, "loginInfo", b)
    PROVE  Follows(a, b, q)
<1>1. a.allow
  BY DEF Waiting, Well, Permitted, SigningIn
<1>2. Typed(b, q)
  BY DEF Moves, Typed
<1>3. Permitted(b)
  BY <1>1 DEF Waiting, Well, Moves, Permitted, SigningIn
<1>4. Tokened(b, q)
  BY DEF Moves, Tokened, SigningIn, LoginUnread, Continues
<1>5. ~Remembers(b)
  BY DEF Moves, Remembers, SigningIn, LoginUnread, Continues
<1> QED BY <1>2, <1>3, <1>4, <1>5 DEF Follows, Well, Moves

LEMMA AuthenticatedFollows ==
    ASSUME NEW a, NEW p, NEW q, Waiting(a, p), NoLess(p, q), a.stage # "request",
           NEW s \in AuthState, SessionOK(s), s.access # 0, s.access <= q.issued,
           region # "anz_current" => s.refresh \notin q.spent
    PROVE  Follows(a, Authenticated(a, s), q)
<1> DEFINE b == Authenticated(a, s)
<1>1. EndsWith(a, b, "authenticated", s, FALSE, "none")
  BY WaitingFacts, ReturnFields
<1> HIDE DEF b
<1>2. Typed(b, q)
  BY <1>1, BoundsAssumption DEF EndsWith, Typed, NoLess, Pairs
<1>3. Permitted(b)
  BY <1>1 DEF Waiting, Well, EndsWith, Permitted, SigningIn
<1>4. Tokened(b, q) /\ ~Remembers(b)
  BY <1>1 DEF EndsWith, Tokened, Remembers, SigningIn, LoginUnread, Continues
<1>5. Follows(a, b, q)
  BY <1>1, <1>2, <1>3, <1>4 DEF Follows, Well, EndsWith
<1> QED BY <1>5 DEF b

(* Europe: a session that was read or signed in is given its identity.     *)
LEMMA CertifyingFollows ==
    ASSUME NEW a, NEW p, NEW q, Waiting(a, p), NoLess(p, q), q.spent = p.spent, region = "eu",
           a.stage \notin {"request", "loginInfo"},
           NEW s \in AuthState, SessionOK(s), s.access # 0, s.access <= q.issued,
           s.gw # NoId, s.refresh \notin q.spent,
           NEW stage \in {"context", "enroll"},
           NEW n \in Pairs, n <= q.issued,
           NEW b, Moves(a, s, n, stage, b)
    PROVE  Follows(a, b, q)
<1>1. Typed(b, q)
  BY DEF Moves, Typed
<1>2. Permitted(b)
  BY DEF Waiting, Well, Moves, Permitted, SigningIn
<1>3. Tokened(b, q)
  BY DEF Moves, Tokened, SigningIn, LoginUnread, Continues
<1>4. ~Remembers(b)
  BY DEF Moves, Remembers, SigningIn, LoginUnread, Continues
<1> QED BY <1>1, <1>2, <1>3, <1>4 DEF Follows, Well, Moves

-----------------------------------------------------------------------------
(* A request the client means to send is one its route policy lets out.    *)
LEMMA EuSends ==
    ASSUME NEW a, NEW stage \in Requests, NEW token,
           stage \in {"userInfo", "refreshedInfo", "enroll"} <=> token # 0
    PROVE  EuSend(a, stage, token) = [ a EXCEPT !.stage = stage ]
<1>1. EuEndpoints[stage].token = (stage \in {"userInfo", "refreshedInfo", "enroll"})
  BY DEF EuEndpoints
<1>2. (stage \in {"userInfo", "refreshedInfo", "enroll"}) = (token # 0)
  OBVIOUS
<1>3. EuPermitted(stage, token, stage = "enroll")
  BY <1>1, <1>2 DEF EuPermitted
<1> QED BY <1>3 DEF EuSend

LEMMA RussiaSends ==
    ASSUME NEW a, NEW stage \in Requests, NEW token, stage # "enroll",
           stage \in {"userInfo", "refreshedInfo", "loginInfo"} <=> token # 0
    PROVE  RussiaSend(a, stage, token) = [ a EXCEPT !.stage = stage ]
<1>1. /\ RussiaEndpoints[stage].token = (stage \in {"userInfo", "refreshedInfo", "loginInfo"})
      /\ RussiaEndpoints[stage].known = (stage # "enroll")
  BY DEF RussiaEndpoints
<1>2. (stage \in {"userInfo", "refreshedInfo", "loginInfo"}) = (token # 0)
  OBVIOUS
<1>3. RussiaPermitted(stage, token)
  BY <1>1, <1>2 DEF RussiaPermitted
<1> QED BY <1>3 DEF RussiaSend

LEMMA AnzSends ==
    ASSUME NEW a, NEW stage \in Requests, NEW token, NEW gw, stage # "enroll",
           stage \in {"userInfo", "refresh", "refreshedInfo", "loginInfo"} <=> token # 0,
           region = "anz_current" => /\ stage \notin {"userInfo", "refreshedInfo", "loginInfo"}
                                     /\ token = 0 <=> gw = NoId
    PROVE  AnzSend(a, stage, token, gw) = [ a EXCEPT !.stage = stage ]
<1>1. /\ AnzEndpoints[stage].token = (stage \in {"userInfo", "refresh", "refreshedInfo", "loginInfo"})
      /\ AnzEndpoints[stage].known =
           (/\ stage # "enroll"
            /\ Current => stage \notin {"userInfo", "refreshedInfo", "loginInfo"})
  BY DEF AnzEndpoints
<1>2. (stage \in {"userInfo", "refresh", "refreshedInfo", "loginInfo"}) = (token # 0)
  OBVIOUS
<1>3. AnzEndpoints[stage].known
  BY <1>1 DEF Current
<1>4. Current => (token = 0) = (gw = NoId)
  BY DEF Current
<1>5. AnzPermitted(stage, token, gw)
  BY <1>1, <1>2, <1>3, <1>4 DEF AnzPermitted
<1> QED BY <1>5 DEF AnzSend

LEMMA AnzSendsUnsigned ==
    ASSUME NEW a, NEW stage \in {"verify", "login", "request"}
    PROVE  AnzSend(a, stage, 0, NoId) = [ a EXCEPT !.stage = stage ]
<1>1. /\ stage \in Requests
      /\ stage \notin {"userInfo", "refresh", "refreshedInfo", "loginInfo", "enroll"}
  BY DEF Requests
<1>2. /\ stage \in {"userInfo", "refresh", "refreshedInfo", "loginInfo"} <=> 0 # 0
      /\ region = "anz_current" => /\ stage \notin {"userInfo", "refreshedInfo", "loginInfo"}
                                   /\ 0 = 0 <=> NoId = NoId
  BY <1>1
<1> QED BY <1>1, <1>2, AnzSends

AtStage(a, stage) == [ a EXCEPT !.stage = stage ]

LEMMA AnzSendsSigned ==
    ASSUME NEW a, NEW token, token # 0, NEW gw, region # "anz_current"
    PROVE  \A stage \in {"userInfo", "refresh", "refreshedInfo", "loginInfo"} :
               AnzSend(a, stage, token, gw) = AtStage(a, stage)
<1> TAKE stage \in {"userInfo", "refresh", "refreshedInfo", "loginInfo"}
<1>1. stage \in Requests /\ stage # "enroll"
  BY DEF Requests
<1>2. AnzSend(a, stage, token, gw) = [ a EXCEPT !.stage = stage ]
  BY <1>1, AnzSends
<1> QED BY <1>2 DEF AtStage

(* Every failure an answer can be is passed on.                            *)
LEMMA ErrorFollows ==
    ASSUME NEW a, NEW p, NEW q, Waiting(a, p), NoLess(p, q), a.stage # "context",
           NEW e, Decoded(e), e # Fine
    PROVE  Follows(a, Raised(a, e.class), q)
<1>1. e.class \in Failures
  BY DEF Decoded
<1>2. a.stage \in Resuming \/ a.allow
  BY DEF Waiting, Well, Permitted, SigningIn, Requests, Resuming
<1> QED BY <1>1, <1>2, RaisedFollows

LEMMA SchemaFollows ==
    ASSUME NEW a, NEW p, NEW q, Waiting(a, p), NoLess(p, q),
           NEW class \in Failures, class # "Authentication"
    PROVE  Follows(a, Raised(a, class), q)
BY RaisedFollows

LEMMA EuSignInFollows ==
    ASSUME NEW a, NEW p, NEW q, Waiting(a, p), NoLess(p, q),
           a.stage \in {"userInfo", "refresh", "refreshedInfo"},
           NEW s, s \in AuthState, SessionOK(s), s.access = 0, s.asked = a.cand.asked,
           NEW pair \in {0, a.pair},
           NEW c, c = [ a EXCEPT !.cand = s, !.pair = pair ]
    PROVE  Follows(a, EuSignIn(c), q) /\ Follows(a, RussiaSignIn(c), q)
<1>1. a \in Attempts /\ pair \in Pairs
  BY WaitingFacts, BoundsAssumption DEF Pairs
<1>2. c.allow = a.allow /\ c.code = a.code
  BY <1>1 DEF Attempts
<1>3. CASE ~a.allow
  <2>1. EuSignIn(c) = Raised(c, "Authentication") /\ RussiaSignIn(c) = Raised(c, "Authentication")
    BY <1>2, <1>3 DEF EuSignIn, RussiaSignIn
  <2>2. a.stage \in Resuming
    BY DEF Resuming
  <2>3. Follows(a, Raised(c, "Authentication"), q)
    BY <2>2, UnsignedFollows
  <2> QED BY <2>1, <2>3
<1>4. CASE a.allow
  <2> DEFINE stage == IF a.code THEN "verify" ELSE "login"
             b == [ c EXCEPT !.stage = stage ]
  <2>1. /\ stage \in {"verify", "login"} /\ stage \in Requests
        /\ stage \notin {"userInfo", "refresh", "refreshedInfo", "loginInfo", "enroll"}
    BY DEF Requests
  <2>0. /\ EuSignIn(c) = EuSend(c, stage, 0)
        /\ RussiaSignIn(c) = RussiaSend(c, stage, 0)
    BY <1>2, <1>4 DEF EuSignIn, RussiaSignIn
  <2> HIDE DEF stage
  <2>2. EuSend(c, stage, 0) = b
    BY <2>1, EuSends
  <2>6. RussiaSend(c, stage, 0) = b
    BY <2>1, RussiaSends
  <2>3. EuSignIn(c) = b /\ RussiaSignIn(c) = b
    BY <2>0, <2>2, <2>6
  <2>4. b = [ a EXCEPT !.cand = s, !.pair = pair, !.stage = stage ]
    BY <1>1 DEF Attempts
  <2> HIDE DEF b
  <2>5. Follows(a, b, q)
    BY <1>4, <2>1, <2>4, SignInFollows
  <2> QED BY <2>3, <2>5
<1> QED BY <1>3, <1>4

(* Europe and Russia, after the saved session was refused.                 *)
LEMMA DropFollows ==
    ASSUME NEW a, NEW p, NEW q, Waiting(a, p), NoLess(p, q), region \notin Anz,
           a.stage \in {"userInfo", "refresh", "refreshedInfo"}
    PROVE  /\ Follows(a, EuSignIn([ a EXCEPT !.cand = EuDropped(a.cand) ]), q)
           /\ Follows(a, EuSignIn([ a EXCEPT !.cand = EuDropped(a.cand), !.pair = 0 ]), q)
           /\ Follows(a, RussiaSignIn([ a EXCEPT !.cand = RussiaDropped(a.cand) ]), q)
           /\ Follows(a, RussiaSignIn([ a EXCEPT !.cand = RussiaDropped(a.cand), !.pair = 0 ]), q)
<1> DEFINE s == EuDropped(a.cand)
<1>1. /\ s \in AuthState /\ SessionOK(s) /\ s.access = 0 /\ s.asked = a.cand.asked
      /\ RussiaDropped(a.cand) = s
  BY WaitingFacts, DroppedFits
<1> HIDE DEF s
<1>2. a \in Attempts
  BY WaitingFacts
<1>3. [ a EXCEPT !.cand = s ] = [ a EXCEPT !.cand = s, !.pair = a.pair ]
  BY <1>2 DEF Attempts
<1>4. /\ Follows(a, EuSignIn([ a EXCEPT !.cand = s, !.pair = 0 ]), q)
      /\ Follows(a, RussiaSignIn([ a EXCEPT !.cand = s, !.pair = 0 ]), q)
  BY <1>1, EuSignInFollows
<1>5. /\ Follows(a, EuSignIn([ a EXCEPT !.cand = s, !.pair = a.pair ]), q)
      /\ Follows(a, RussiaSignIn([ a EXCEPT !.cand = s, !.pair = a.pair ]), q)
  BY <1>1, EuSignInFollows
<1> QED BY <1>1, <1>3, <1>4, <1>5 DEF s

LEMMA AnzReclaimFollows ==
    ASSUME NEW a, NEW p, NEW q, Waiting(a, p), NoLess(p, q), region \in Anz,
           a.stage \in {"userInfo", "refresh", "refreshedInfo"}
    PROVE  Follows(a, AnzReclaim(a), q)
<1> DEFINE s == Reclaimed(a.cand)
<1>1. s \in AuthState /\ SessionOK(s) /\ s.access = 0 /\ s.asked = a.cand.asked
  BY WaitingFacts, ReclaimedFits
<1>2. a \in Attempts
  BY WaitingFacts
<1>3. CASE ~a.allow
  <2>1. AnzReclaim(a) = ReclaimNeeded(a, Reclaimed(a.cand))
    BY <1>3 DEF AnzReclaim
  <2> QED BY <2>1, ReclaimFollows
<1>4. CASE a.allow
  <2> DEFINE c == [ a EXCEPT !.cand = s, !.pair = 0 ]
             stage == IF a.code THEN "verify" ELSE "login"
             b == [ c EXCEPT !.stage = stage ]
  <2>0. AnzReclaim(a) = AnzSignIn(c)
    BY <1>4 DEF AnzReclaim
  <2> HIDE DEF s
  <2>1. /\ stage \in {"verify", "login"} /\ stage \in Requests
        /\ stage \notin {"userInfo", "refresh", "refreshedInfo", "loginInfo", "enroll"}
    BY DEF Requests
  <2>2. c.code = a.code
    BY <1>2 DEF Attempts
  <2>7. AnzSignIn(c) = AnzSend(c, stage, 0, NoId)
    BY <2>2 DEF AnzSignIn
  <2> HIDE DEF stage
  <2>3. AnzSend(c, stage, 0, NoId) = b
    <3> HIDE DEF c
    <3> QED BY <2>1, AnzSendsUnsigned
  <2>4. AnzReclaim(a) = b
    BY <2>0, <2>3, <2>7
  <2>5. b = [ a EXCEPT !.cand = s, !.pair = 0, !.stage = stage ]
    BY <1>2 DEF Attempts
  <2> HIDE DEF b
  <2>6. Follows(a, b, q)
    BY <1>1, <1>4, <2>1, <2>5, SignInFollows
  <2> QED BY <2>4, <2>6
<1> QED BY <1>3, <1>4

LEMMA AnzResultFollows ==
    ASSUME NEW a, NEW p, NEW q, Waiting(a, p), NoLess(p, q), region \in Anz, a.stage # "request",
           NEW s \in AuthState, SessionOK(s), s.access <= q.issued,
           region # "anz_current" => s.refresh \notin q.spent
    PROVE  Follows(a, AnzResult(a, s), q)
<1>1. CASE s.access = 0 \/ s.reclaim \/ (Current /\ s.gw = NoId)
  <2>1. AnzResult(a, s) = Raised(a, "Schema")
    BY <1>1 DEF AnzResult
  <2> QED BY <2>1, SchemaFollows DEF Failures
<1>2. CASE ~(s.access = 0 \/ s.reclaim \/ (Current /\ s.gw = NoId))
  <2>1. AnzResult(a, s) = Authenticated(a, s)
    BY <1>2 DEF AnzResult
  <2> QED BY <1>2, <2>1, AuthenticatedFollows
<1> QED BY <1>1, <1>2

LEMMA EuFinishFollows ==
    ASSUME NEW a, NEW p, NEW q, Waiting(a, p), NoLess(p, q), q.spent = p.spent, region = "eu",
           a.stage \in {"userInfo", "refreshedInfo", "login"},
           NEW s \in AuthState, SessionOK(s), s.access # 0, s.access <= q.issued,
           s.refresh \notin q.spent
    PROVE  Follows(a, EuFinish(a, s), q)
<1>1. a \in Attempts /\ a.outcome = NoOutcome /\ 0 \in Pairs /\ q.issued \in Nat
  BY WaitingFacts, BoundsAssumption DEF Pairs, NoLess
<1>2. CASE s.gw = NoId
  <2>1. EuFinish(a, s) = Raised(a, "Schema")
    BY <1>2 DEF EuFinish
  <2> QED BY <2>1, SchemaFollows DEF Failures
<1>3. CASE s.gw # NoId /\ s.identity # NoId
  <2> DEFINE b == [ a EXCEPT !.stage = "context", !.cand = s, !.pair = 0 ]
  <2>1. EuFinish(a, s) = b
    BY <1>3 DEF EuFinish
  <2>2. b = [ a EXCEPT !.cand = s, !.pair = 0, !.stage = "context" ]
    BY <1>1 DEF Attempts
  <2> HIDE DEF b
  <2>3. Moves(a, s, 0, "context", b)
    BY <1>1, <2>2, MovesFields DEF Stages
  <2>4. Follows(a, b, q)
    BY <1>1, <1>3, <2>3, CertifyingFollows
  <2> QED BY <2>1, <2>4
<1>4. CASE s.gw # NoId /\ s.identity = NoId
  <2> DEFINE c == [ a EXCEPT !.cand = s, !.pair = 0 ]
             b == [ c EXCEPT !.stage = "enroll" ]
  <2>1. EuFinish(a, s) = EuSend(c, "enroll", s.access)
    BY <1>4 DEF EuFinish
  <2>2. EuSend(c, "enroll", s.access) = b
    BY EuSends DEF Requests
  <2>3. b = [ a EXCEPT !.cand = s, !.pair = 0, !.stage = "enroll" ]
    BY <1>1 DEF Attempts
  <2> HIDE DEF b
  <2>4. Moves(a, s, 0, "enroll", b)
    BY <1>1, <2>3, MovesFields DEF Stages, Requests
  <2>5. Follows(a, b, q)
    BY <1>1, <1>4, <2>4, CertifyingFollows
  <2> QED BY <2>1, <2>2, <2>5
<1> QED BY <1>2, <1>3, <1>4

-----------------------------------------------------------------------------
(* What a request finds, and what its answer has to leave.                 *)
Ready == Waiting(att, provider) /\ Sober(provider) /\ clock \in Times
Result ==
    /\ Follows(att, att', provider')
    /\ Sober(provider') /\ NoLess(provider, provider')
    /\ UNCHANGED << region, clock >>

LEMMA ProviderStays ==
    ASSUME Sober(provider), provider' = provider
    PROVE  Sober(provider') /\ NoLess(provider, provider') /\ provider'.spent = provider.spent
<1>1. provider.issued \in Pairs /\ provider.issued <= provider.issued
  BY BoundsAssumption DEF Sober, Provider, Pairs
<1> QED BY <1>1 DEF NoLess

LEMMA ProviderRefuses ==
    ASSUME Sober(provider), NEW t \in Pairs, NEW e, Refuses(t, e)
    PROVE  /\ Sober(provider') /\ NoLess(provider, provider') /\ provider'.spent = provider.spent
           /\ TokenRefusal(e) => t \in provider'.dead
BY RefusalGrows, GrowsNoLess DEF Grows

LEMMA ProviderIssues ==
    ASSUME Sober(provider), Issues
    PROVE  /\ Sober(provider') /\ NoLess(provider, provider') /\ provider'.spent = provider.spent
           /\ NextPair \in Pairs /\ NextPair # 0 /\ NextPair = provider'.issued
           /\ NextPair \notin provider'.spent
BY IssueGrows, GrowsNoLess DEF Grows

LEMMA ProviderExchanges ==
    ASSUME Ready, att.stage = "refresh", Exchanges(att.cand.refresh)
    PROVE  /\ Sober(provider') /\ NoLess(provider, provider')
           /\ NextPair \in Pairs /\ NextPair # 0 /\ NextPair = provider'.issued
           /\ NextPair \notin provider'.spent
<1>1. /\ att.cand.refresh # 0 /\ att.cand.access \in provider.dead
      /\ att.cand.refresh \in {0, att.cand.access} /\ att.cand.access <= provider.issued
      /\ att.cand.refresh \in Pairs
  BY WaitingFacts DEF Ready, Waiting, Well, Typed, Tokened, SessionOK
<1>2. provider.issued \in Nat
  BY BoundsAssumption DEF Ready, Sober, Provider, Pairs
<1>3. att.cand.refresh \in 1..provider.issued /\ att.cand.refresh \in provider.dead
  BY <1>1, <1>2, BoundsAssumption DEF Pairs
<1>4. /\ Sober(provider') /\ provider'.issued = NextPair
      /\ provider.issued <= provider'.issued /\ provider.issued \in Pairs
      /\ NextPair \in Pairs /\ NextPair # 0 /\ NextPair \notin provider'.spent
  BY <1>3, ExchangeGrows DEF Ready
<1>5. NoLess(provider, provider')
  BY <1>4 DEF NoLess
<1> QED BY <1>4, <1>5

(* A session whose access token serves has a refresh token to exchange.    *)
LEMMA ServingIsUnspent ==
    ASSUME Ready, Serves(att.cand.access)
    PROVE  att.cand.refresh \notin provider.spent
<1>1. att.cand.refresh \in {0, att.cand.access}
  BY DEF Ready, Waiting, Well, Typed, SessionOK
<1>2. att.cand.access \notin provider.spent /\ 0 \notin provider.spent
  <2>1. provider.spent \subseteq 1..provider.issued /\ provider.spent \subseteq provider.dead
    BY DEF Ready, Sober
  <2>2. provider.issued \in Nat
    BY BoundsAssumption DEF Ready, Sober, Provider, Pairs
  <2> QED BY <2>1, <2>2 DEF Serves
<1> QED BY <1>1, <1>2

LEMMA RefusalsExpire ==
    ASSUME NEW e
    PROVE  SessionExpired(e) \/ Conflict(e) => TokenRefusal(e)
BY DEF SessionExpired, Conflict, TokenRefusal

-----------------------------------------------------------------------------
(* Europe.                                                                 *)
LEMMA EuProfileFits ==
    ASSUME region = "eu", NEW s \in AuthState, SessionOK(s), NEW gw \in OptionalId
    PROVE  LET t == EuApplyUserInfo(s, gw)
           IN  /\ t \in AuthState /\ SessionOK(t)
               /\ t.access = s.access /\ t.refresh = s.refresh /\ t.asked = s.asked
<1> DEFINE i == IF s.gw = gw THEN s.identity ELSE NoId
           t == EuApplyUserInfo(s, gw)
<1>1. i \in OptionalId /\ i \in {NoId, gw}
  BY DEF AuthState, OptionalId, SessionOK
<1>2. t = [ s EXCEPT !.gw = gw, !.identity = i ]
  BY DEF EuApplyUserInfo
<1> HIDE DEF i, t
<1>3. /\ t \in AuthState /\ t.gw = gw /\ t.identity = i
      /\ t.access = s.access /\ t.refresh = s.refresh /\ t.asked = s.asked
  BY <1>1, <1>2 DEF AuthState
<1>4. SessionOK(t)
  BY <1>1, <1>3 DEF SessionOK, Anz
<1> QED BY <1>3, <1>4 DEF t

(* A session with a new pair keeps gwId and identity.                      *)
LEMMA EuRenewedFits ==
    ASSUME region = "eu", NEW s \in AuthState, SessionOK(s), NEW n \in Pairs,
           NEW t \in AuthState, t.access = n, t.refresh = n,
           t.gw = s.gw, t.identity = s.identity
    PROVE  SessionOK(t)
BY DEF SessionOK, Anz

LEMMA EuUserInfoFollows ==
    ASSUME Ready, NEW r \in Responses, NEW gw \in OptionalId, EuUserInfo(r, gw)
    PROVE  Result
<1> DEFINE e == EuDecode(r)
<1>1. /\ region = "eu" /\ att.stage = "userInfo" /\ UNCHANGED << region, clock >>
      /\ Waiting(att, provider) /\ Sober(provider) /\ Decoded(e)
  BY DecodersAnswer DEF EuUserInfo, At, Ready
<1>2. /\ att.cand \in AuthState /\ SessionOK(att.cand) /\ att.cand.access \in Pairs
      /\ att.cand.access # 0 /\ att.cand.access <= provider.issued
  BY <1>1, WaitingFacts DEF Waiting, Well, Typed, Tokened
<1>3. CASE e = Fine /\ Serves(att.cand.access) /\ UNCHANGED provider
           /\ att' = IF gw = NoId THEN Raised(att, "Schema")
                     ELSE EuFinish(att, EuApplyUserInfo(att.cand, gw))
  <2> DEFINE s == EuApplyUserInfo(att.cand, gw)
  <2>1. /\ s \in AuthState /\ SessionOK(s) /\ s.access = att.cand.access
        /\ s.refresh = att.cand.refresh
    BY <1>1, <1>2, EuProfileFits
  <2>2. Sober(provider') /\ NoLess(provider, provider') /\ provider'.spent = provider.spent
    BY <1>1, <1>3, ProviderStays
  <2>3. s.refresh \notin provider'.spent /\ s.access <= provider'.issued
    BY <1>2, <1>3, <2>1, <2>2, ServingIsUnspent
  <2> HIDE DEF s
  <2>4. Follows(att, EuFinish(att, s), provider')
    BY <1>1, <1>2, <2>1, <2>2, <2>3, EuFinishFollows
  <2>5. Follows(att, Raised(att, "Schema"), provider')
    BY <1>1, <2>2, SchemaFollows DEF Failures
  <2>6. att' = Raised(att, "Schema") \/ att' = EuFinish(att, s)
    BY <1>3 DEF s
  <2> QED BY <1>1, <2>2, <2>4, <2>5, <2>6 DEF Result
<1>4. CASE SessionExpired(e) /\ Refuses(att.cand.access, e)
           /\ att' = IF att.cand.refresh # 0 THEN EuSend(att, "refresh", 0)
                     ELSE EuSignIn([ att EXCEPT !.cand = EuDropped(att.cand) ])
  <2>1. /\ Sober(provider') /\ NoLess(provider, provider') /\ provider'.spent = provider.spent
        /\ att.cand.access \in provider'.dead
    BY <1>1, <1>2, <1>4, ProviderRefuses, RefusalsExpire
  <2>2. CASE att.cand.refresh # 0
    <3>1. att' = EuSend(att, "refresh", 0)
      BY <1>4, <2>2
    <3>2. EuSend(att, "refresh", 0) = [ att EXCEPT !.stage = "refresh" ]
      BY EuSends DEF Requests
    <3>3. Moves(att, att.cand, att.pair, "refresh", att')
      BY <1>1, <3>1, <3>2, StageOnlyMoves DEF Stages, Requests
    <3> QED BY <1>1, <2>1, <2>2, <3>3, RefreshFollows DEF Result
  <2>3. CASE att.cand.refresh = 0
    <3>1. att' = EuSignIn([ att EXCEPT !.cand = EuDropped(att.cand) ])
      BY <1>4, <2>3
    <3> QED BY <1>1, <2>1, <3>1, DropFollows DEF Result, Anz
  <2> QED BY <2>2, <2>3
<1>5. CASE e # Fine /\ ~SessionExpired(e) /\ att' = Raised(att, e.class) /\ UNCHANGED provider
  BY <1>1, <1>5, ProviderStays, ErrorFollows DEF Result
<1> QED BY <1>3, <1>4, <1>5 DEF EuUserInfo

LEMMA EuRefreshFollows ==
    ASSUME Ready, NEW r \in Responses, NEW whole \in BOOLEAN, EuRefresh(r, whole)
    PROVE  Result
<1> DEFINE e == EuDecode(r)
<1>1. /\ region = "eu" /\ att.stage = "refresh" /\ UNCHANGED << region, clock >>
      /\ Waiting(att, provider) /\ Sober(provider) /\ Decoded(e)
  BY DecodersAnswer DEF EuRefresh, At, Ready
<1>2. att.stage \in Resuming /\ att.stage # "context"
  BY <1>1 DEF Resuming
<1>3. CASE e = Fine /\ Exchanges(att.cand.refresh)
           /\ att' = IF ~whole THEN Raised(att, "Schema")
                     ELSE EuSend([ att EXCEPT !.pair = NextPair ], "refreshedInfo", NextPair)
  <2>1. /\ Sober(provider') /\ NoLess(provider, provider')
        /\ NextPair \in Pairs /\ NextPair # 0 /\ NextPair = provider'.issued
        /\ NextPair \notin provider'.spent
    BY <1>1, <1>3, ProviderExchanges
  <2>2. NextPair <= provider'.issued
    BY <2>1, BoundsAssumption DEF Pairs
  <2>3. CASE ~whole
    BY <1>1, <1>3, <2>1, <2>3, SchemaFollows DEF Failures, Result
  <2>4. CASE whole
    <3> DEFINE c == [ att EXCEPT !.pair = NextPair ]
    <3>1. EuSend(c, "refreshedInfo", NextPair) = [ c EXCEPT !.stage = "refreshedInfo" ]
      BY <2>1, EuSends DEF Requests
    <3>2. att' = [ c EXCEPT !.stage = "refreshedInfo" ]
      BY <1>3, <2>4, <3>1
    <3>3. Moves(att, att.cand, NextPair, "refreshedInfo", att')
      BY <1>1, <2>1, <3>2, PairMoves DEF Stages, Requests
    <3> QED BY <1>1, <2>1, <2>2, <3>3, RefreshedFollows DEF Result
  <2> QED BY <2>3, <2>4
<1>4. CASE RefreshRejected(e) /\ UNCHANGED provider
           /\ att' = IF att.caller = "renew" THEN Raised(att, "Authentication")
                     ELSE EuSignIn([ att EXCEPT !.cand = EuDropped(att.cand) ])
  <2>1. Sober(provider') /\ NoLess(provider, provider')
    BY <1>1, <1>4, ProviderStays
  <2>2. CASE att.caller = "renew"
    BY <1>1, <1>2, <1>4, <2>1, <2>2, RaisedFollows DEF Failures, Result
  <2>3. CASE att.caller # "renew"
    <3>1. att' = EuSignIn([ att EXCEPT !.cand = EuDropped(att.cand) ])
      BY <1>4, <2>3
    <3> QED BY <1>1, <2>1, <3>1, DropFollows DEF Result, Anz
  <2> QED BY <2>2, <2>3
<1>5. CASE e # Fine /\ ~RefreshRejected(e) /\ att' = Raised(att, e.class) /\ UNCHANGED provider
  BY <1>1, <1>2, <1>5, ProviderStays, ErrorFollows DEF Result
<1> QED BY <1>3, <1>4, <1>5 DEF EuRefresh

LEMMA EuRefreshedInfoFollows ==
    ASSUME Ready, NEW r \in Responses, NEW gw \in OptionalId, EuRefreshedInfo(r, gw)
    PROVE  Result
<1> DEFINE e == EuDecode(r)
           renewed == [ att.cand EXCEPT !.access = att.pair, !.refresh = att.pair ]
<1>1. /\ region = "eu" /\ att.stage = "refreshedInfo" /\ UNCHANGED << region, clock >>
      /\ Waiting(att, provider) /\ Sober(provider) /\ Decoded(e)
  BY DecodersAnswer DEF EuRefreshedInfo, At, Ready
<1>2. /\ att.cand \in AuthState /\ SessionOK(att.cand) /\ att.pair \in Pairs
      /\ att.pair # 0 /\ att.pair <= provider.issued /\ att.pair \notin provider.spent
      /\ att.stage \in Resuming
  BY <1>1, WaitingFacts DEF Waiting, Well, Typed, Tokened, Resuming
<1>3. CASE e = Fine /\ UNCHANGED provider
           /\ att' = IF gw = NoId THEN Raised(att, "Schema")
                     ELSE IF att.caller = "renew"
                     THEN Authenticated(att, EuApplyUserInfo([ renewed EXCEPT !.asked = Never ], gw))
                     ELSE EuFinish(att, EuApplyUserInfo(renewed, gw))
  <2> DEFINE forgot == [ renewed EXCEPT !.asked = Never ]
             s == EuApplyUserInfo(forgot, gw)
             t == EuApplyUserInfo(renewed, gw)
  <2>1. Sober(provider') /\ NoLess(provider, provider') /\ provider'.spent = provider.spent
    BY <1>1, <1>3, ProviderStays
  <2>2. /\ renewed \in AuthState /\ renewed.access = att.pair /\ renewed.refresh = att.pair
        /\ renewed.gw = att.cand.gw /\ renewed.identity = att.cand.identity
    BY <1>2 DEF AuthState
  <2> HIDE DEF renewed
  <2>3. /\ forgot \in AuthState /\ forgot.access = att.pair /\ forgot.refresh = att.pair
        /\ forgot.gw = att.cand.gw /\ forgot.identity = att.cand.identity
    BY <2>2 DEF AuthState
  <2> HIDE DEF forgot
  <2>11. SessionOK(renewed) /\ SessionOK(forgot)
    BY <1>1, <1>2, <2>2, <2>3, EuRenewedFits
  <2>4. s \in AuthState /\ SessionOK(s) /\ s.access = att.pair /\ s.refresh = att.pair
    BY <1>1, <2>3, <2>11, EuProfileFits
  <2>5. t \in AuthState /\ SessionOK(t) /\ t.access = att.pair /\ t.refresh = att.pair
    BY <1>1, <2>2, <2>11, EuProfileFits
  <2>6. att' \in {Raised(att, "Schema"), Authenticated(att, s), EuFinish(att, t)}
    BY <1>3 DEF forgot, renewed
  <2> HIDE DEF s, t
  <2>7. att.pair <= provider'.issued /\ att.pair \notin provider'.spent
    BY <1>2, <1>3
  <2>8. Follows(att, EuFinish(att, t), provider')
    BY <1>1, <1>2, <2>1, <2>5, <2>7, EuFinishFollows
  <2>9. Follows(att, Authenticated(att, s), provider')
    BY <1>1, <1>2, <2>1, <2>4, <2>7, AuthenticatedFollows
  <2>10. Follows(att, Raised(att, "Schema"), provider')
    BY <1>1, <2>1, SchemaFollows DEF Failures
  <2> QED BY <1>1, <2>1, <2>6, <2>8, <2>9, <2>10 DEF Result
<1>4. CASE SessionExpired(e) /\ Refuses(att.pair, e)
           /\ att' = IF att.caller = "renew" THEN Raised(att, "Authentication")
                     ELSE EuSignIn([ att EXCEPT !.cand = EuDropped(att.cand), !.pair = 0 ])
  <2>1. Sober(provider') /\ NoLess(provider, provider')
    BY <1>1, <1>2, <1>4, ProviderRefuses
  <2>2. CASE att.caller = "renew"
    BY <1>1, <1>2, <1>4, <2>1, <2>2, RaisedFollows DEF Failures, Result
  <2>3. CASE att.caller # "renew"
    <3>1. att' = EuSignIn([ att EXCEPT !.cand = EuDropped(att.cand), !.pair = 0 ])
      BY <1>4, <2>3
    <3> QED BY <1>1, <2>1, <3>1, DropFollows DEF Result, Anz
  <2> QED BY <2>2, <2>3
<1>5. CASE e # Fine /\ ~SessionExpired(e) /\ att' = Raised(att, e.class) /\ UNCHANGED provider
  BY <1>1, <1>5, ProviderStays, ErrorFollows DEF Result
<1> QED BY <1>3, <1>4, <1>5 DEF EuRefreshedInfo

LEMMA EuVerifyFollows ==
    ASSUME Ready, NEW r \in Responses, EuVerify(r)
    PROVE  Result
<1> DEFINE e == EuDecode(r)
<1>1. /\ region = "eu" /\ att.stage = "verify" /\ UNCHANGED << region, clock, provider >>
      /\ Waiting(att, provider) /\ Sober(provider) /\ Decoded(e)
  BY DecodersAnswer DEF EuVerify, At, Ready
<1>2. Sober(provider') /\ NoLess(provider, provider') /\ provider'.spent = provider.spent
  BY <1>1, ProviderStays
<1>3. CASE e = Fine
  <2>1. att' = EuSend(att, "login", 0)
    BY <1>3 DEF EuVerify
  <2>2. EuSend(att, "login", 0) = [ att EXCEPT !.stage = "login" ]
    BY EuSends DEF Requests
  <2>3. Moves(att, att.cand, att.pair, "login", att')
    BY <1>1, <2>1, <2>2, StageOnlyMoves DEF Stages, Requests
  <2> QED BY <1>1, <1>2, <2>3, VerifiedFollows DEF Result
<1>4. CASE e # Fine
  <2>1. att' \in {CodeRejected(att, att.cand), Raised(att, e.class)}
    BY <1>4 DEF EuVerify
  <2>2. Follows(att, CodeRejected(att, att.cand), provider')
    BY <1>1, <1>2, CodeRejectedFollows
  <2>3. Follows(att, Raised(att, e.class), provider')
    BY <1>1, <1>2, <1>4, ErrorFollows
  <2> QED BY <1>1, <1>2, <2>1, <2>2, <2>3 DEF Result
<1> QED BY <1>3, <1>4

LEMMA EuLoggedInFollows ==
    ASSUME NEW a, NEW p, NEW q, Waiting(a, p), NoLess(p, q), q.spent = p.spent, region = "eu",
           a.stage = "login", NEW n \in Pairs, n # 0, n <= q.issued, n \notin q.spent,
           NEW gw \in OptionalId
    PROVE  Follows(a, EuLoggedIn(a, n, gw), q)
<1> DEFINE t == EuApplyUserInfo(a.cand, gw)
           s == [ t EXCEPT !.access = n, !.refresh = n, !.asked = Never ]
<1>1. t \in AuthState /\ SessionOK(t)
  BY WaitingFacts, EuProfileFits
<1>2. EuLoggedIn(a, n, gw) = EuFinish(a, s)
  BY DEF EuLoggedIn
<1> HIDE DEF t
<1>3. /\ s \in AuthState /\ s.access = n /\ s.refresh = n
      /\ s.gw = t.gw /\ s.identity = t.identity
  BY <1>1 DEF AuthState
<1> HIDE DEF s
<1>4. SessionOK(s)
  BY <1>1, <1>3, EuRenewedFits
<1>5. Follows(a, EuFinish(a, s), q)
  BY <1>3, <1>4, EuFinishFollows
<1> QED BY <1>2, <1>5

LEMMA EuLoginFollows ==
    ASSUME Ready, NEW r \in Responses, NEW gw \in OptionalId, EuLogin(r, gw)
    PROVE  Result
<1> DEFINE e == EuDecode(r)
<1>1. /\ region = "eu" /\ att.stage = "login" /\ UNCHANGED << region, clock >>
      /\ Waiting(att, provider) /\ Sober(provider) /\ Decoded(e) /\ clock \in Times
  BY DecodersAnswer DEF EuLogin, At, Ready
<1>2. CASE e = Fine /\ Issues
           /\ att' = IF gw = NoId THEN Raised(att, "Schema") ELSE EuLoggedIn(att, NextPair, gw)
  <2>1. /\ Sober(provider') /\ NoLess(provider, provider') /\ provider'.spent = provider.spent
        /\ NextPair \in Pairs /\ NextPair # 0 /\ NextPair = provider'.issued
        /\ NextPair \notin provider'.spent
    BY <1>1, <1>2, ProviderIssues
  <2>2. NextPair <= provider'.issued
    BY <2>1, BoundsAssumption DEF Pairs
  <2>3. Follows(att, EuLoggedIn(att, NextPair, gw), provider')
    BY <1>1, <2>1, <2>2, EuLoggedInFollows
  <2>4. Follows(att, Raised(att, "Schema"), provider')
    BY <1>1, <2>1, SchemaFollows DEF Failures
  <2> QED BY <1>1, <1>2, <2>1, <2>3, <2>4 DEF Result
<1>3. CASE EuChallenge(e) /\ UNCHANGED provider
           /\ att' = IF att.code THEN CodeRejected(att, att.cand)
                     ELSE IF Throttled(att.cand) THEN CodeNeeded(att, att.cand)
                     ELSE EuSend([ att EXCEPT !.cand.asked = clock ], "request", 0)
  <2>1. Sober(provider') /\ NoLess(provider, provider')
    BY <1>1, <1>3, ProviderStays
  <2>2. CASE att.code
    BY <1>1, <1>3, <2>1, <2>2, CodeRejectedFollows DEF Result
  <2>3. CASE ~att.code /\ Throttled(att.cand)
    BY <1>1, <1>3, <2>1, <2>3, CodeNeededFollows DEF Result
  <2>4. CASE ~att.code /\ ~Throttled(att.cand)
    <3> DEFINE c == [ att EXCEPT !.cand.asked = clock ]
    <3>1. EuSend(c, "request", 0) = [ c EXCEPT !.stage = "request" ]
      BY EuSends DEF Requests
    <3>2. att' = [ [ att EXCEPT !.cand.asked = clock ] EXCEPT !.stage = "request" ]
      BY <1>3, <2>4, <3>1
    <3>3. Follows(att, att', provider')
      BY <1>1, <2>1, <2>4, <3>2, RequestFollows
    <3> QED BY <1>1, <2>1, <3>3 DEF Result
  <2> QED BY <2>2, <2>3, <2>4
<1>4. CASE e # Fine /\ ~EuChallenge(e) /\ att' = Raised(att, e.class) /\ UNCHANGED provider
  BY <1>1, <1>4, ProviderStays, ErrorFollows DEF Result
<1> QED BY <1>2, <1>3, <1>4 DEF EuLogin

LEMMA EuRequestCodeFollows ==
    ASSUME Ready, NEW r \in Responses, EuRequestCode(r)
    PROVE  Result
<1> DEFINE e == EuDecode(r)
<1>1. /\ att.stage = "request" /\ UNCHANGED << region, clock, provider >>
      /\ Waiting(att, provider) /\ Sober(provider) /\ Decoded(e)
  BY DecodersAnswer DEF EuRequestCode, At, Ready
<1>2. Sober(provider') /\ NoLess(provider, provider')
  BY <1>1, ProviderStays
<1>3. CASE e = Fine
  BY <1>1, <1>2, <1>3, CodeNeededFollows DEF EuRequestCode, Result
<1>4. CASE e # Fine
  BY <1>1, <1>2, <1>4, ErrorFollows DEF EuRequestCode, Result
<1> QED BY <1>3, <1>4

LEMMA EuContextFollows ==
    ASSUME Ready, EuContext
    PROVE  Result
<1>1. /\ region = "eu" /\ att.stage = "context" /\ UNCHANGED << region, clock, provider >>
      /\ Waiting(att, provider) /\ Sober(provider)
  BY DEF EuContext, At, Ready
<1>2. Sober(provider') /\ NoLess(provider, provider') /\ provider'.spent = provider.spent
  BY <1>1, ProviderStays
<1>3. /\ att.cand \in AuthState /\ SessionOK(att.cand) /\ att.cand.access # 0
      /\ att.cand.access <= provider'.issued /\ att.cand.refresh \notin provider'.spent
      /\ att.cand.gw # NoId /\ att.pair \in Pairs /\ att.pair <= provider'.issued
  BY <1>1, WaitingFacts DEF Waiting, Well, Typed, Tokened
<1>4. CASE att' = Authenticated(att, att.cand)
  BY <1>1, <1>2, <1>3, <1>4, AuthenticatedFollows DEF Result
<1>5. CASE att' = EuSend(att, "enroll", att.cand.access)
  <2>1. EuSend(att, "enroll", att.cand.access) = [ att EXCEPT !.stage = "enroll" ]
    BY <1>3, EuSends DEF Requests
  <2>2. Moves(att, att.cand, att.pair, "enroll", att')
    BY <1>1, <1>5, <2>1, StageOnlyMoves DEF Stages, Requests
  <2>3. Follows(att, att', provider')
    BY <1>1, <1>2, <1>3, <2>2, CertifyingFollows
  <2> QED BY <1>1, <1>2, <2>3 DEF Result
<1>6. CASE att' = Raised(att, "Configuration")
  BY <1>1, <1>2, <1>6, SchemaFollows DEF Failures, Result
<1> QED BY <1>4, <1>5, <1>6 DEF EuContext

LEMMA EuEnrollFollows ==
    ASSUME Ready, NEW r \in Responses, NEW whole \in BOOLEAN, EuEnroll(r, whole)
    PROVE  Result
<1> DEFINE e == EuDecode(r)
           s == [ att.cand EXCEPT !.identity = att.cand.gw ]
<1>1. /\ region = "eu" /\ att.stage = "enroll" /\ UNCHANGED << region, clock, provider >>
      /\ Waiting(att, provider) /\ Sober(provider) /\ Decoded(e)
  BY DecodersAnswer DEF EuEnroll, At, Ready
<1>2. Sober(provider') /\ NoLess(provider, provider') /\ provider'.spent = provider.spent
  BY <1>1, ProviderStays
<1>3. /\ att.cand \in AuthState /\ SessionOK(att.cand) /\ att.cand.access # 0
      /\ att.cand.access <= provider'.issued /\ att.cand.refresh \notin provider'.spent
  BY <1>1, WaitingFacts DEF Waiting, Well, Typed, Tokened
<1>4. /\ s \in AuthState /\ s.access = att.cand.access /\ s.refresh = att.cand.refresh
      /\ s.gw = att.cand.gw /\ s.identity = s.gw
  BY <1>3 DEF AuthState
<1>5. att' \in {Authenticated(att, s), Raised(att, "Schema")} \/ (e # Fine /\ att' = Raised(att, e.class))
  BY DEF EuEnroll, EuEnrolled
<1> HIDE DEF s
<1>6. SessionOK(s)
  BY <1>1, <1>3, <1>4 DEF SessionOK, Anz
<1>7. Follows(att, Authenticated(att, s), provider')
  BY <1>1, <1>2, <1>3, <1>4, <1>6, AuthenticatedFollows
<1>8. Follows(att, Raised(att, "Schema"), provider')
  BY <1>1, <1>2, SchemaFollows DEF Failures
<1>9. e # Fine => Follows(att, Raised(att, e.class), provider')
  BY <1>1, <1>2, ErrorFollows
<1> QED BY <1>1, <1>2, <1>5, <1>7, <1>8, <1>9 DEF Result

LEMMA EuStepFollows ==
    ASSUME Ready, EuStep
    PROVE  Result
BY EuUserInfoFollows, EuRefreshFollows, EuRefreshedInfoFollows, EuVerifyFollows, EuLoginFollows,
   EuRequestCodeFollows, EuContextFollows, EuEnrollFollows DEF EuStep

-----------------------------------------------------------------------------
(* Russia.  Without an issued identity every record fits.                  *)
LEMMA RussiaFits ==
    ASSUME region = "russia", NEW t \in AuthState, t.refresh \in {0, t.access}, t.identity = NoId
    PROVE  SessionOK(t)
BY DEF SessionOK, Anz

LEMMA RussiaProfileFits ==
    ASSUME region = "russia", NEW s \in AuthState, SessionOK(s), NEW gw \in OptionalId
    PROVE  LET t == RussiaApplyUserInfo(s, gw)
           IN  /\ t \in AuthState /\ SessionOK(t)
               /\ t.access = s.access /\ t.refresh = s.refresh /\ t.asked = s.asked
<1> DEFINE g == IF gw = NoId THEN s.gw ELSE gw
           t == RussiaApplyUserInfo(s, gw)
<1>1. g \in OptionalId /\ t = [ s EXCEPT !.gw = g ]
  BY DEF AuthState, RussiaApplyUserInfo
<1> HIDE DEF g, t
<1>2. /\ t \in AuthState /\ t.identity = s.identity
      /\ t.access = s.access /\ t.refresh = s.refresh /\ t.asked = s.asked
  BY <1>1 DEF AuthState
<1>3. SessionOK(t)
  BY <1>2, RussiaFits DEF SessionOK
<1> QED BY <1>2, <1>3 DEF t

LEMMA RussiaUserInfoFollows ==
    ASSUME Ready, NEW r \in Responses, NEW gw \in OptionalId, RussiaUserInfo(r, gw)
    PROVE  Result
<1> DEFINE e == RussiaDecode(r)
<1>1. /\ region = "russia" /\ att.stage = "userInfo" /\ UNCHANGED << region, clock >>
      /\ Waiting(att, provider) /\ Sober(provider) /\ Decoded(e)
  BY DecodersAnswer DEF RussiaUserInfo, At, Ready
<1>2. /\ att.cand \in AuthState /\ SessionOK(att.cand) /\ att.cand.access \in Pairs
      /\ att.cand.access # 0 /\ att.cand.access <= provider.issued
  BY <1>1, WaitingFacts DEF Waiting, Well, Typed, Tokened
<1>3. CASE e = Fine /\ Serves(att.cand.access) /\ UNCHANGED provider
           /\ att' = Authenticated(att, RussiaApplyUserInfo(att.cand, gw))
  <2> DEFINE s == RussiaApplyUserInfo(att.cand, gw)
  <2>1. /\ s \in AuthState /\ SessionOK(s) /\ s.access = att.cand.access
        /\ s.refresh = att.cand.refresh
    BY <1>1, <1>2, RussiaProfileFits
  <2>2. Sober(provider') /\ NoLess(provider, provider')
    BY <1>1, <1>3, ProviderStays
  <2>3. s.refresh \notin provider'.spent /\ s.access <= provider'.issued
    BY <1>2, <1>3, <2>1, ServingIsUnspent
  <2>4. att' = Authenticated(att, s)
    BY <1>3
  <2> HIDE DEF s
  <2>5. Follows(att, Authenticated(att, s), provider')
    BY <1>1, <1>2, <2>1, <2>2, <2>3, AuthenticatedFollows
  <2> QED BY <1>1, <2>2, <2>4, <2>5 DEF Result
<1>4. CASE SessionExpired(e) /\ Refuses(att.cand.access, e)
           /\ att' = IF att.cand.refresh # 0 THEN RussiaSend(att, "refresh", 0)
                     ELSE RussiaSignIn([ att EXCEPT !.cand = RussiaDropped(att.cand) ])
  <2>1. /\ Sober(provider') /\ NoLess(provider, provider') /\ provider'.spent = provider.spent
        /\ att.cand.access \in provider'.dead
    BY <1>1, <1>2, <1>4, ProviderRefuses, RefusalsExpire
  <2>2. CASE att.cand.refresh # 0
    <3>1. att' = RussiaSend(att, "refresh", 0)
      BY <1>4, <2>2
    <3>2. RussiaSend(att, "refresh", 0) = [ att EXCEPT !.stage = "refresh" ]
      BY RussiaSends DEF Requests
    <3>3. Moves(att, att.cand, att.pair, "refresh", att')
      BY <1>1, <3>1, <3>2, StageOnlyMoves DEF Stages, Requests
    <3> QED BY <1>1, <2>1, <2>2, <3>3, RefreshFollows DEF Result
  <2>3. CASE att.cand.refresh = 0
    <3>1. att' = RussiaSignIn([ att EXCEPT !.cand = RussiaDropped(att.cand) ])
      BY <1>4, <2>3
    <3> QED BY <1>1, <2>1, <3>1, DropFollows DEF Result, Anz
  <2> QED BY <2>2, <2>3
<1>5. CASE e # Fine /\ ~SessionExpired(e) /\ att' = Raised(att, e.class) /\ UNCHANGED provider
  BY <1>1, <1>5, ProviderStays, ErrorFollows DEF Result
<1> QED BY <1>3, <1>4, <1>5 DEF RussiaUserInfo

LEMMA RussiaRefreshFollows ==
    ASSUME Ready, NEW r \in Responses, NEW whole \in BOOLEAN, RussiaRefresh(r, whole)
    PROVE  Result
<1> DEFINE e == RussiaDecode(r)
<1>1. /\ region = "russia" /\ att.stage = "refresh" /\ UNCHANGED << region, clock >>
      /\ Waiting(att, provider) /\ Sober(provider) /\ Decoded(e)
  BY DecodersAnswer DEF RussiaRefresh, At, Ready
<1>2. att.stage \in Resuming /\ att.stage # "context"
  BY <1>1 DEF Resuming
<1>3. CASE e = Fine /\ Exchanges(att.cand.refresh)
           /\ att' = IF ~whole THEN Raised(att, "Schema")
                     ELSE RussiaSend([ att EXCEPT !.pair = NextPair ], "refreshedInfo", NextPair)
  <2>1. /\ Sober(provider') /\ NoLess(provider, provider')
        /\ NextPair \in Pairs /\ NextPair # 0 /\ NextPair = provider'.issued
        /\ NextPair \notin provider'.spent
    BY <1>1, <1>3, ProviderExchanges
  <2>2. NextPair <= provider'.issued
    BY <2>1, BoundsAssumption DEF Pairs
  <2>3. CASE ~whole
    BY <1>1, <1>3, <2>1, <2>3, SchemaFollows DEF Failures, Result
  <2>4. CASE whole
    <3> DEFINE c == [ att EXCEPT !.pair = NextPair ]
    <3>1. RussiaSend(c, "refreshedInfo", NextPair) = [ c EXCEPT !.stage = "refreshedInfo" ]
      BY <2>1, RussiaSends DEF Requests
    <3>2. att' = [ c EXCEPT !.stage = "refreshedInfo" ]
      BY <1>3, <2>4, <3>1
    <3>3. Moves(att, att.cand, NextPair, "refreshedInfo", att')
      BY <1>1, <2>1, <3>2, PairMoves DEF Stages, Requests
    <3> QED BY <1>1, <2>1, <2>2, <3>3, RefreshedFollows DEF Result
  <2> QED BY <2>3, <2>4
<1>4. CASE RefreshRejected(e) /\ UNCHANGED provider
           /\ att' = IF att.caller = "renew" THEN Raised(att, "Authentication")
                     ELSE RussiaSignIn([ att EXCEPT !.cand = RussiaDropped(att.cand) ])
  <2>1. Sober(provider') /\ NoLess(provider, provider')
    BY <1>1, <1>4, ProviderStays
  <2>2. CASE att.caller = "renew"
    BY <1>1, <1>2, <1>4, <2>1, <2>2, RaisedFollows DEF Failures, Result
  <2>3. CASE att.caller # "renew"
    <3>1. att' = RussiaSignIn([ att EXCEPT !.cand = RussiaDropped(att.cand) ])
      BY <1>4, <2>3
    <3> QED BY <1>1, <2>1, <3>1, DropFollows DEF Result, Anz
  <2> QED BY <2>2, <2>3
<1>5. CASE e # Fine /\ ~RefreshRejected(e) /\ att' = Raised(att, e.class) /\ UNCHANGED provider
  BY <1>1, <1>2, <1>5, ProviderStays, ErrorFollows DEF Result
<1> QED BY <1>3, <1>4, <1>5 DEF RussiaRefresh

LEMMA RussiaRefreshedInfoFollows ==
    ASSUME Ready, NEW r \in Responses, NEW gw \in OptionalId, RussiaRefreshedInfo(r, gw)
    PROVE  Result
<1> DEFINE e == RussiaDecode(r)
           renewed == [ att.cand EXCEPT !.access = att.pair, !.refresh = att.pair, !.asked = Never ]
<1>1. /\ region = "russia" /\ att.stage = "refreshedInfo" /\ UNCHANGED << region, clock >>
      /\ Waiting(att, provider) /\ Sober(provider) /\ Decoded(e)
  BY DecodersAnswer DEF RussiaRefreshedInfo, At, Ready
<1>2. /\ att.cand \in AuthState /\ SessionOK(att.cand) /\ att.pair \in Pairs
      /\ att.pair # 0 /\ att.pair <= provider.issued /\ att.pair \notin provider.spent
      /\ att.stage \in Resuming
  BY <1>1, WaitingFacts DEF Waiting, Well, Typed, Tokened, Resuming
<1>3. CASE e = Fine /\ UNCHANGED provider
           /\ att' = Authenticated(att, RussiaApplyUserInfo(renewed, gw))
  <2> DEFINE s == RussiaApplyUserInfo(renewed, gw)
  <2>1. Sober(provider') /\ NoLess(provider, provider') /\ provider'.spent = provider.spent
    BY <1>1, <1>3, ProviderStays
  <2>2. /\ renewed \in AuthState /\ renewed.access = att.pair /\ renewed.refresh = att.pair
        /\ renewed.identity = att.cand.identity
    BY <1>2 DEF AuthState
  <2>3. att' = Authenticated(att, s)
    BY <1>3
  <2> HIDE DEF renewed
  <2>4. SessionOK(renewed)
    BY <1>1, <1>2, <2>2, RussiaFits DEF SessionOK
  <2>5. s \in AuthState /\ SessionOK(s) /\ s.access = att.pair /\ s.refresh = att.pair
    BY <1>1, <2>2, <2>4, RussiaProfileFits
  <2> HIDE DEF s
  <2>6. Follows(att, Authenticated(att, s), provider')
    BY <1>1, <1>2, <1>3, <2>1, <2>5, AuthenticatedFollows
  <2> QED BY <1>1, <2>1, <2>3, <2>6 DEF Result
<1>4. CASE SessionExpired(e) /\ Refuses(att.pair, e)
           /\ att' = IF att.caller = "renew" THEN Raised(att, "Authentication")
                     ELSE RussiaSignIn([ att EXCEPT !.cand = RussiaDropped(att.cand), !.pair = 0 ])
  <2>1. Sober(provider') /\ NoLess(provider, provider')
    BY <1>1, <1>2, <1>4, ProviderRefuses
  <2>2. CASE att.caller = "renew"
    BY <1>1, <1>2, <1>4, <2>1, <2>2, RaisedFollows DEF Failures, Result
  <2>3. CASE att.caller # "renew"
    <3>1. att' = RussiaSignIn([ att EXCEPT !.cand = RussiaDropped(att.cand), !.pair = 0 ])
      BY <1>4, <2>3
    <3> QED BY <1>1, <2>1, <3>1, DropFollows DEF Result, Anz
  <2> QED BY <2>2, <2>3
<1>5. CASE e # Fine /\ ~SessionExpired(e) /\ att' = Raised(att, e.class) /\ UNCHANGED provider
  BY <1>1, <1>5, ProviderStays, ErrorFollows DEF Result
<1> QED BY <1>3, <1>4, <1>5 DEF RussiaRefreshedInfo

LEMMA RussiaLoggedInFollows ==
    ASSUME NEW a, NEW p, NEW q, Waiting(a, p), NoLess(p, q), region = "russia",
           a.stage \in {"verify", "login"}, NEW n \in Pairs, n # 0, n <= q.issued,
           n \notin q.spent, NEW gw \in OptionalId
    PROVE  Follows(a, RussiaLoggedIn(a, n, gw), q)
<1> DEFINE s == [ a.cand EXCEPT !.access = n, !.refresh = n, !.gw = gw, !.asked = Never ]
           c == [ a EXCEPT !.pair = n, !.cand = s ]
           b == [ c EXCEPT !.stage = "loginInfo" ]
<1>1. a \in Attempts /\ a.cand \in AuthState /\ a.outcome = NoOutcome /\ SessionOK(a.cand)
  BY WaitingFacts
<1>2. RussiaLoggedIn(a, n, gw) = RussiaSend(c, "loginInfo", n)
  BY DEF RussiaLoggedIn
<1>3. /\ s \in AuthState /\ s.access = n /\ s.refresh = n /\ s.identity = a.cand.identity
  BY <1>1 DEF AuthState
<1> HIDE DEF s
<1>4. SessionOK(s)
  BY <1>1, <1>3, RussiaFits DEF SessionOK
<1>5. RussiaSend(c, "loginInfo", n) = b
  BY RussiaSends DEF Requests
<1>6. b = [ a EXCEPT !.cand = s, !.pair = n, !.stage = "loginInfo" ]
  BY <1>1 DEF Attempts
<1> HIDE DEF b
<1>7. Moves(a, s, n, "loginInfo", b)
  BY <1>1, <1>3, <1>6, MovesFields DEF Stages, Requests
<1>8. Follows(a, b, q)
  BY <1>3, <1>4, <1>7, ReadingFollows
<1> QED BY <1>2, <1>5, <1>8

LEMMA RussiaVerifyFollows ==
    ASSUME Ready, NEW r \in Responses, NEW gw \in OptionalId, RussiaVerify(r, gw)
    PROVE  Result
<1> DEFINE e == RussiaDecode(r)
<1>1. /\ region = "russia" /\ att.stage = "verify" /\ UNCHANGED << region, clock >>
      /\ Waiting(att, provider) /\ Sober(provider) /\ Decoded(e)
  BY DecodersAnswer DEF RussiaVerify, At, Ready
<1>2. CASE e = Fine /\ Issues /\ att' = RussiaLoggedIn(att, NextPair, gw)
  <2>1. /\ Sober(provider') /\ NoLess(provider, provider')
        /\ NextPair \in Pairs /\ NextPair # 0 /\ NextPair = provider'.issued
        /\ NextPair \notin provider'.spent
    BY <1>1, <1>2, ProviderIssues
  <2>2. NextPair <= provider'.issued
    BY <2>1, BoundsAssumption DEF Pairs
  <2>3. Follows(att, RussiaLoggedIn(att, NextPair, gw), provider')
    BY <1>1, <2>1, <2>2, RussiaLoggedInFollows
  <2> QED BY <1>1, <1>2, <2>1, <2>3 DEF Result
<1>3. CASE e # Fine /\ UNCHANGED provider
           /\ att' = IF RussiaCodeRefused(e) THEN CodeRejected(att, att.cand)
                     ELSE Raised(att, e.class)
  <2>1. Sober(provider') /\ NoLess(provider, provider')
    BY <1>1, <1>3, ProviderStays
  <2>2. Follows(att, CodeRejected(att, att.cand), provider')
    BY <1>1, <2>1, CodeRejectedFollows
  <2>3. Follows(att, Raised(att, e.class), provider')
    BY <1>1, <1>3, <2>1, ErrorFollows
  <2> QED BY <1>1, <1>3, <2>1, <2>2, <2>3 DEF Result
<1> QED BY <1>2, <1>3 DEF RussiaVerify

LEMMA RussiaLoginFollows ==
    ASSUME Ready, NEW r \in Responses, NEW gw \in OptionalId, RussiaLogin(r, gw)
    PROVE  Result
<1> DEFINE e == RussiaDecode(r)
<1>1. /\ region = "russia" /\ att.stage = "login" /\ UNCHANGED << region, clock >>
      /\ Waiting(att, provider) /\ Sober(provider) /\ Decoded(e) /\ clock \in Times
  BY DecodersAnswer DEF RussiaLogin, At, Ready
<1>2. CASE e = Fine /\ Issues /\ att' = RussiaLoggedIn(att, NextPair, gw)
  <2>1. /\ Sober(provider') /\ NoLess(provider, provider')
        /\ NextPair \in Pairs /\ NextPair # 0 /\ NextPair = provider'.issued
        /\ NextPair \notin provider'.spent
    BY <1>1, <1>2, ProviderIssues
  <2>2. NextPair <= provider'.issued
    BY <2>1, BoundsAssumption DEF Pairs
  <2>3. Follows(att, RussiaLoggedIn(att, NextPair, gw), provider')
    BY <1>1, <2>1, <2>2, RussiaLoggedInFollows
  <2> QED BY <1>1, <1>2, <2>1, <2>3 DEF Result
<1>3. CASE RussiaChallenge(e) /\ UNCHANGED provider
           /\ att' = IF Throttled(att.cand) THEN CodeNeeded(att, att.cand)
                     ELSE RussiaSend([ att EXCEPT !.cand.asked = clock ], "request", 0)
  <2>1. Sober(provider') /\ NoLess(provider, provider')
    BY <1>1, <1>3, ProviderStays
  <2>2. CASE Throttled(att.cand)
    BY <1>1, <1>3, <2>1, <2>2, CodeNeededFollows DEF Result
  <2>3. CASE ~Throttled(att.cand)
    <3> DEFINE c == [ att EXCEPT !.cand.asked = clock ]
    <3>1. RussiaSend(c, "request", 0) = [ c EXCEPT !.stage = "request" ]
      BY RussiaSends DEF Requests
    <3>2. att' = [ [ att EXCEPT !.cand.asked = clock ] EXCEPT !.stage = "request" ]
      BY <1>3, <2>3, <3>1
    <3>3. Follows(att, att', provider')
      BY <1>1, <2>1, <2>3, <3>2, RequestFollows
    <3> QED BY <1>1, <2>1, <3>3 DEF Result
  <2> QED BY <2>2, <2>3
<1>4. CASE e # Fine /\ ~RussiaChallenge(e) /\ att' = Raised(att, e.class) /\ UNCHANGED provider
  BY <1>1, <1>4, ProviderStays, ErrorFollows DEF Result
<1> QED BY <1>2, <1>3, <1>4 DEF RussiaLogin

LEMMA RussiaRequestCodeFollows ==
    ASSUME Ready, NEW r \in Responses, RussiaRequestCode(r)
    PROVE  Result
<1> DEFINE e == RussiaDecode(r)
<1>1. /\ att.stage = "request" /\ UNCHANGED << region, clock, provider >>
      /\ Waiting(att, provider) /\ Sober(provider) /\ Decoded(e)
  BY DecodersAnswer DEF RussiaRequestCode, At, Ready
<1>2. Sober(provider') /\ NoLess(provider, provider')
  BY <1>1, ProviderStays
<1>3. CASE e = Fine
  BY <1>1, <1>2, <1>3, CodeNeededFollows DEF RussiaRequestCode, Result
<1>4. CASE e # Fine
  BY <1>1, <1>2, <1>4, ErrorFollows DEF RussiaRequestCode, Result
<1> QED BY <1>3, <1>4

LEMMA RussiaLoginInfoFollows ==
    ASSUME Ready, NEW r \in Responses, NEW gw \in OptionalId, RussiaLoginInfo(r, gw)
    PROVE  Result
<1> DEFINE e == RussiaDecode(r)
           s == RussiaApplyUserInfo(att.cand, gw)
<1>1. /\ region = "russia" /\ att.stage = "loginInfo" /\ UNCHANGED << region, clock, provider >>
      /\ Waiting(att, provider) /\ Sober(provider) /\ Decoded(e)
  BY DecodersAnswer DEF RussiaLoginInfo, At, Ready
<1>2. Sober(provider') /\ NoLess(provider, provider') /\ provider'.spent = provider.spent
  BY <1>1, ProviderStays
<1>3. /\ att.cand \in AuthState /\ SessionOK(att.cand) /\ att.cand.access # 0
      /\ att.cand.access <= provider'.issued /\ att.cand.refresh \notin provider'.spent
  BY <1>1, WaitingFacts DEF Waiting, Well, Typed, Tokened
<1>4. /\ s \in AuthState /\ SessionOK(s) /\ s.access = att.cand.access
      /\ s.refresh = att.cand.refresh
  BY <1>1, <1>3, RussiaProfileFits
<1>5. att' = Authenticated(att, s) \/ (e # Fine /\ att' = Raised(att, e.class))
  BY DEF RussiaLoginInfo
<1> HIDE DEF s
<1>6. Follows(att, Authenticated(att, s), provider')
  BY <1>1, <1>2, <1>3, <1>4, AuthenticatedFollows
<1>7. e # Fine => Follows(att, Raised(att, e.class), provider')
  BY <1>1, <1>2, ErrorFollows
<1> QED BY <1>1, <1>2, <1>5, <1>6, <1>7 DEF Result

LEMMA RussiaStepFollows ==
    ASSUME Ready, RussiaStep
    PROVE  Result
BY RussiaUserInfoFollows, RussiaRefreshFollows, RussiaRefreshedInfoFollows, RussiaVerifyFollows,
   RussiaLoginFollows, RussiaRequestCodeFollows, RussiaLoginInfoFollows DEF RussiaStep

-----------------------------------------------------------------------------
(* Australia and New Zealand.                                              *)
LEMMA AnzFits ==
    ASSUME region \in Anz, NEW t \in AuthState, t.access # 0, t.refresh \in {0, t.access},
           t.identity = NoId, ~t.reclaim, region = "anz_current" => t.gw # NoId
    PROVE  SessionOK(t)
BY DEF SessionOK, Anz, AnzConstructible

(* A session that is resumed has no reclaim pending and no identity.       *)
LEMMA AnzHeld ==
    ASSUME region \in Anz, NEW s \in AuthState, SessionOK(s), s.access # 0
    PROVE  ~s.reclaim /\ s.identity = NoId /\ (region = "anz_current" => s.gw # NoId)
BY DEF SessionOK, Anz, AnzConstructible, AuthState

LEMMA AnzUserInfoFollows ==
    ASSUME Ready, NEW r \in Responses, AnzUserInfo(r)
    PROVE  Result
<1> DEFINE e == AnzDecode(r)
<1>1. /\ region = "anz_legacy" /\ att.stage = "userInfo" /\ UNCHANGED << region, clock >>
      /\ Waiting(att, provider) /\ Sober(provider) /\ Decoded(e) /\ region \in Anz
  BY DecodersAnswer DEF AnzUserInfo, At, Ready, Anz
<1>2. /\ att.cand \in AuthState /\ SessionOK(att.cand) /\ att.cand.access \in Pairs
      /\ att.cand.access # 0 /\ att.cand.access <= provider.issued
  BY <1>1, WaitingFacts DEF Waiting, Well, Typed, Tokened
<1>3. CASE e = Fine /\ Serves(att.cand.access) /\ att' = AnzResult(att, att.cand)
           /\ UNCHANGED provider
  <2>1. Sober(provider') /\ NoLess(provider, provider')
    BY <1>1, <1>3, ProviderStays
  <2>2. att.cand.refresh \notin provider'.spent /\ att.cand.access <= provider'.issued
    BY <1>2, <1>3, ServingIsUnspent
  <2>3. Follows(att, AnzResult(att, att.cand), provider')
    BY <1>1, <1>2, <2>1, <2>2, AnzResultFollows
  <2> QED BY <1>1, <1>3, <2>1, <2>3 DEF Result
<1>4. CASE SessionExpired(e) /\ Refuses(att.cand.access, e)
           /\ att' = IF att.cand.refresh # 0
                     THEN AnzSend(att, "refresh", att.cand.access, att.cand.gw)
                     ELSE AnzReclaim(att)
  <2>1. /\ Sober(provider') /\ NoLess(provider, provider') /\ provider'.spent = provider.spent
        /\ att.cand.access \in provider'.dead
    BY <1>1, <1>2, <1>4, ProviderRefuses, RefusalsExpire
  <2>2. CASE att.cand.refresh # 0
    <3>1. att' = AnzSend(att, "refresh", att.cand.access, att.cand.gw)
      BY <1>4, <2>2
    <3>2. AnzSend(att, "refresh", att.cand.access, att.cand.gw) = [ att EXCEPT !.stage = "refresh" ]
      <4>1. AnzSend(att, "refresh", att.cand.access, att.cand.gw) = AtStage(att, "refresh")
        BY <1>1, <1>2, AnzSendsSigned
      <4> QED BY <4>1 DEF AtStage
    <3>3. Moves(att, att.cand, att.pair, "refresh", att')
      BY <1>1, <3>1, <3>2, StageOnlyMoves DEF Stages, Requests
    <3> QED BY <1>1, <2>1, <2>2, <3>3, RefreshFollows DEF Result
  <2>3. CASE att.cand.refresh = 0
    BY <1>1, <1>4, <2>1, <2>3, AnzReclaimFollows DEF Result
  <2> QED BY <2>2, <2>3
<1>5. CASE Conflict(e) /\ Refuses(att.cand.access, e) /\ att' = AnzReclaim(att)
  <2>1. Sober(provider') /\ NoLess(provider, provider')
    BY <1>1, <1>2, <1>5, ProviderRefuses
  <2> QED BY <1>1, <1>5, <2>1, AnzReclaimFollows DEF Result
<1>6. CASE e # Fine /\ ~SessionExpired(e) /\ ~Conflict(e) /\ att' = Raised(att, e.class)
           /\ UNCHANGED provider
  BY <1>1, <1>6, ProviderStays, ErrorFollows DEF Result
<1> QED BY <1>3, <1>4, <1>5, <1>6 DEF AnzUserInfo

LEMMA AnzRefreshFollows ==
    ASSUME Ready, NEW r \in Responses, NEW whole \in BOOLEAN, NEW gw \in OptionalId,
           AnzRefresh(r, whole, gw)
    PROVE  Result
<1> DEFINE e == AnzDecode(r)
           renewed == [ att.cand EXCEPT !.access = NextPair, !.refresh = NextPair,
                          !.gw = AnzGwId(@, gw), !.asked = Never ]
<1>1. /\ region \in Anz /\ att.stage = "refresh" /\ UNCHANGED << region, clock >>
      /\ Waiting(att, provider) /\ Sober(provider) /\ Decoded(e)
  BY DecodersAnswer DEF AnzRefresh, At, Ready
<1>2. /\ att.stage \in Resuming /\ att.stage # "context"
      /\ att.cand \in AuthState /\ SessionOK(att.cand) /\ att.cand.access # 0
  BY <1>1, WaitingFacts DEF Resuming, Waiting, Well, Tokened
<1>3. CASE e = Fine /\ Exchanges(att.cand.refresh)
           /\ att' = IF ~whole THEN Raised(att, "Schema")
                     ELSE IF Current THEN AnzResult(att, renewed)
                     ELSE AnzSend([ att EXCEPT !.pair = NextPair ], "refreshedInfo", NextPair,
                                  att.cand.gw)
  <2>1. /\ Sober(provider') /\ NoLess(provider, provider')
        /\ NextPair \in Pairs /\ NextPair # 0 /\ NextPair = provider'.issued
        /\ NextPair \notin provider'.spent
    BY <1>1, <1>3, ProviderExchanges
  <2>2. NextPair <= provider'.issued
    BY <2>1, BoundsAssumption DEF Pairs
  <2>3. CASE ~whole
    BY <1>1, <1>3, <2>1, <2>3, SchemaFollows DEF Failures, Result
  <2>4. CASE whole /\ Current
    <3>1. region = "anz_current"
      BY <2>4 DEF Current
    <3>2. /\ ~att.cand.reclaim /\ att.cand.identity = NoId /\ att.cand.gw # NoId
      BY <1>1, <1>2, <3>1, AnzHeld
    <3> DEFINE g == AnzGwId(att.cand.gw, gw)
    <3>3. g \in OptionalId /\ g # NoId
      BY <1>2, <3>2 DEF AnzGwId, AuthState
    <3>4. renewed = [ att.cand EXCEPT !.access = NextPair, !.refresh = NextPair, !.gw = g,
                        !.asked = Never ]
      OBVIOUS
    <3>5. att' = AnzResult(att, renewed)
      BY <1>3, <2>4
    <3> HIDE DEF g, renewed
    <3>6. /\ renewed \in AuthState /\ renewed.access = NextPair /\ renewed.refresh = NextPair
          /\ renewed.gw = g /\ renewed.identity = att.cand.identity
          /\ renewed.reclaim = att.cand.reclaim
      BY <1>2, <2>1, <3>3, <3>4 DEF AuthState
    <3>7. SessionOK(renewed)
      BY <1>1, <2>1, <3>2, <3>3, <3>6, AnzFits
    <3>8. Follows(att, AnzResult(att, renewed), provider')
      BY <1>1, <2>1, <2>2, <3>6, <3>7, AnzResultFollows
    <3> QED BY <1>1, <2>1, <3>5, <3>8 DEF Result
  <2>5. CASE whole /\ ~Current
    <3> DEFINE c == [ att EXCEPT !.pair = NextPair ]
    <3>1. region # "anz_current"
      BY <2>5 DEF Current
    <3>2. AnzSend(c, "refreshedInfo", NextPair, att.cand.gw) = [ c EXCEPT !.stage = "refreshedInfo" ]
      <4>1. AnzSend(c, "refreshedInfo", NextPair, att.cand.gw) = AtStage(c, "refreshedInfo")
        BY <2>1, <3>1, AnzSendsSigned
      <4> QED BY <4>1 DEF AtStage
    <3>3. att' = [ c EXCEPT !.stage = "refreshedInfo" ]
      BY <1>3, <2>5, <3>2
    <3>4. Moves(att, att.cand, NextPair, "refreshedInfo", att')
      BY <1>1, <2>1, <3>3, PairMoves DEF Stages, Requests
    <3> QED BY <1>1, <2>1, <2>2, <3>1, <3>4, RefreshedFollows DEF Result
  <2> QED BY <2>3, <2>4, <2>5
<1>4. CASE (RefreshRejected(e) \/ (Conflict(e) /\ ~Current)) /\ UNCHANGED provider
           /\ att' = IF att.caller = "renew" THEN Raised(att, "Authentication") ELSE AnzReclaim(att)
  <2>1. Sober(provider') /\ NoLess(provider, provider')
    BY <1>1, <1>4, ProviderStays
  <2>2. CASE att.caller = "renew"
    BY <1>1, <1>2, <1>4, <2>1, <2>2, RaisedFollows DEF Failures, Result
  <2>3. CASE att.caller # "renew"
    BY <1>1, <1>4, <2>1, <2>3, AnzReclaimFollows DEF Result
  <2> QED BY <2>2, <2>3
<1>5. CASE e # Fine /\ att' = Raised(att, e.class) /\ UNCHANGED provider
  BY <1>1, <1>2, <1>5, ProviderStays, ErrorFollows DEF Result
<1> HIDE DEF e, renewed
<1> QED BY <1>3, <1>4, <1>5 DEF AnzRefresh, e, renewed

LEMMA AnzRefreshedInfoFollows ==
    ASSUME Ready, NEW r \in Responses, AnzRefreshedInfo(r)
    PROVE  Result
<1> DEFINE e == AnzDecode(r)
           s == [ att.cand EXCEPT !.access = att.pair, !.refresh = att.pair, !.asked = Never ]
<1>1. /\ region = "anz_legacy" /\ att.stage = "refreshedInfo" /\ UNCHANGED << region, clock >>
      /\ Waiting(att, provider) /\ Sober(provider) /\ Decoded(e) /\ region \in Anz
  BY DecodersAnswer DEF AnzRefreshedInfo, At, Ready, Anz
<1>2. /\ att.cand \in AuthState /\ SessionOK(att.cand) /\ att.pair \in Pairs
      /\ att.cand.access # 0
      /\ att.pair # 0 /\ att.pair <= provider.issued /\ att.pair \notin provider.spent
      /\ att.stage \in Resuming
  BY <1>1, WaitingFacts DEF Waiting, Well, Typed, Tokened, Resuming
<1>3. CASE e = Fine /\ UNCHANGED provider /\ att' = AnzResult(att, s)
  <2>1. Sober(provider') /\ NoLess(provider, provider') /\ provider'.spent = provider.spent
    BY <1>1, <1>3, ProviderStays
  <2>2. /\ s \in AuthState /\ s.access = att.pair /\ s.refresh = att.pair
        /\ s.identity = att.cand.identity /\ s.reclaim = att.cand.reclaim
    BY <1>2 DEF AuthState
  <2> HIDE DEF s
  <2>3. SessionOK(s)
    BY <1>1, <1>2, <2>2, AnzHeld, AnzFits
  <2>4. Follows(att, AnzResult(att, s), provider')
    BY <1>1, <1>2, <1>3, <2>1, <2>2, <2>3, AnzResultFollows
  <2> QED BY <1>1, <1>3, <2>1, <2>4 DEF Result
<1>4. CASE (SessionExpired(e) \/ Conflict(e)) /\ Refuses(att.pair, e)
           /\ att' = IF att.caller = "renew" THEN Raised(att, "Authentication") ELSE AnzReclaim(att)
  <2>1. Sober(provider') /\ NoLess(provider, provider')
    BY <1>1, <1>2, <1>4, ProviderRefuses
  <2>2. CASE att.caller = "renew"
    BY <1>1, <1>2, <1>4, <2>1, <2>2, RaisedFollows DEF Failures, Result
  <2>3. CASE att.caller # "renew"
    BY <1>1, <1>4, <2>1, <2>3, AnzReclaimFollows DEF Result
  <2> QED BY <2>2, <2>3
<1>5. CASE e # Fine /\ att' = Raised(att, e.class) /\ UNCHANGED provider
  BY <1>1, <1>5, ProviderStays, ErrorFollows DEF Result
<1> QED BY <1>3, <1>4, <1>5 DEF AnzRefreshedInfo

LEMMA AnzVerifyFollows ==
    ASSUME Ready, NEW r \in Responses, AnzVerify(r)
    PROVE  Result
<1> DEFINE e == AnzDecode(r)
<1>1. /\ region \in Anz /\ att.stage = "verify" /\ UNCHANGED << region, clock, provider >>
      /\ Waiting(att, provider) /\ Sober(provider) /\ Decoded(e)
  BY DecodersAnswer DEF AnzVerify, At, Ready
<1>2. Sober(provider') /\ NoLess(provider, provider') /\ provider'.spent = provider.spent
  BY <1>1, ProviderStays
<1>3. CASE e = Fine
  <2>1. att' = AnzSend(att, "login", 0, NoId)
    BY <1>3 DEF AnzVerify
  <2>2. AnzSend(att, "login", 0, NoId) = [ att EXCEPT !.stage = "login" ]
    BY AnzSendsUnsigned
  <2>3. Moves(att, att.cand, att.pair, "login", att')
    BY <1>1, <2>1, <2>2, StageOnlyMoves DEF Stages, Requests
  <2> QED BY <1>1, <1>2, <2>3, VerifiedFollows DEF Result
<1>4. CASE e # Fine
  <2>1. att' \in {CodeRejected(att, att.cand), Raised(att, e.class)}
    BY <1>4 DEF AnzVerify
  <2>2. Follows(att, CodeRejected(att, att.cand), provider')
    BY <1>1, <1>2, CodeRejectedFollows
  <2>3. Follows(att, Raised(att, e.class), provider')
    BY <1>1, <1>2, <1>4, ErrorFollows
  <2> QED BY <1>1, <1>2, <2>1, <2>2, <2>3 DEF Result
<1> QED BY <1>3, <1>4

LEMMA AnzLoggedInFollows ==
    ASSUME NEW a, NEW p, NEW q, Waiting(a, p), NoLess(p, q), region \in Anz,
           a.stage = "login", NextPair \in Pairs, NextPair # 0, NextPair <= q.issued,
           NextPair \notin q.spent, NEW gw \in OptionalId, NEW refresh \in {0, NextPair}
    PROVE  Follows(a, AnzLoggedIn(a, refresh, gw), q)
<1>1. a \in Attempts /\ a.cand \in AuthState /\ SessionOK(a.cand)
  BY WaitingFacts
<1>2. CASE Current
  <2> DEFINE s == [ a.cand EXCEPT !.access = NextPair, !.refresh = refresh, !.gw = gw,
                      !.asked = Never, !.reclaim = FALSE ]
  <2>1. AnzLoggedIn(a, refresh, gw) = AnzResult(a, s)
    BY <1>2 DEF AnzLoggedIn
  <2>2. refresh \in Pairs
    BY BoundsAssumption DEF Pairs
  <2>3. /\ s \in AuthState /\ s.access = NextPair /\ s.refresh = refresh /\ s.gw = gw
        /\ s.identity = a.cand.identity /\ s.reclaim = FALSE
    BY <1>1, <2>2 DEF AuthState
  <2> HIDE DEF s
  <2>4. CASE gw = NoId
    <3>1. AnzResult(a, s) = Raised(a, "Schema")
      BY <1>2, <2>3, <2>4 DEF AnzResult
    <3> QED BY <2>1, <3>1, SchemaFollows DEF Failures
  <2>5. CASE gw # NoId
    <3>1. a.cand.identity = NoId
      BY <1>1 DEF SessionOK, Anz
    <3>2. SessionOK(s)
      BY <2>3, <2>5, <3>1, AnzFits
    <3>3. Follows(a, AnzResult(a, s), q)
      BY <1>2, <2>3, <3>2, AnzResultFollows DEF Current
    <3> QED BY <2>1, <3>3
  <2> QED BY <2>4, <2>5
<1>3. CASE ~Current
  <2> DEFINE c == [ a EXCEPT !.pair = NextPair ]
             b == [ [ a EXCEPT !.pair = NextPair ] EXCEPT !.stage = "loginInfo" ]
  <2>1. region = "anz_legacy"
    BY <1>3 DEF Current, Anz
  <2>2. AnzLoggedIn(a, refresh, gw) = AnzSend(c, "loginInfo", NextPair, NoId)
    BY <1>3 DEF AnzLoggedIn
  <2>3. AnzSend(c, "loginInfo", NextPair, NoId) = b
    <3>1. AnzSend(c, "loginInfo", NextPair, NoId) = AtStage(c, "loginInfo")
      BY <2>1, AnzSendsSigned
    <3> QED BY <3>1 DEF AtStage
  <2>4. Moves(a, a.cand, NextPair, "loginInfo", b)
    BY PairMoves DEF Stages, Requests
  <2> HIDE DEF b
  <2>5. Follows(a, b, q)
    BY <2>1, <2>4, UnreadFollows
  <2> QED BY <2>2, <2>3, <2>5
<1> QED BY <1>2, <1>3

LEMMA AnzLoginFollows ==
    ASSUME Ready, NEW r \in Responses, NEW whole \in BOOLEAN, NEW gw \in OptionalId,
           AnzLogin(r, whole, gw)
    PROVE  Result
<1> DEFINE e == AnzDecode(r)
<1>1. /\ region \in Anz /\ att.stage = "login" /\ UNCHANGED << region, clock >>
      /\ Waiting(att, provider) /\ Sober(provider) /\ Decoded(e) /\ clock \in Times
      /\ att.allow
  BY DecodersAnswer DEF AnzLogin, At, Ready, Waiting, Well, Permitted, SigningIn
<1>2. CASE Issues /\ \/ att' = Raised(att, "Schema")
                     \/ \E refresh \in {0, NextPair} : att' = AnzLoggedIn(att, refresh, gw)
  <2>1. /\ Sober(provider') /\ NoLess(provider, provider')
        /\ NextPair \in Pairs /\ NextPair # 0 /\ NextPair = provider'.issued
        /\ NextPair \notin provider'.spent
    BY <1>1, <1>2, ProviderIssues
  <2>2. NextPair <= provider'.issued
    BY <2>1, BoundsAssumption DEF Pairs
  <2>3. \A refresh \in {0, NextPair} : Follows(att, AnzLoggedIn(att, refresh, gw), provider')
    BY <1>1, <2>1, <2>2, AnzLoggedInFollows
  <2>4. Follows(att, Raised(att, "Schema"), provider')
    BY <1>1, <2>1, SchemaFollows DEF Failures
  <2> QED BY <1>1, <1>2, <2>1, <2>3, <2>4 DEF Result
<1>3. CASE UNCHANGED provider /\ att' \in {CodeRejected(att, att.cand), Raised(att, "Authentication")}
  <2>1. Sober(provider') /\ NoLess(provider, provider')
    BY <1>1, <1>3, ProviderStays
  <2>2. Follows(att, CodeRejected(att, att.cand), provider')
    BY <1>1, <2>1, CodeRejectedFollows
  <2>3. Follows(att, Raised(att, "Authentication"), provider')
    BY <1>1, <2>1, RaisedFollows DEF Failures
  <2> QED BY <1>1, <1>3, <2>1, <2>2, <2>3 DEF Result
<1>4. CASE UNCHANGED provider
           /\ att' = IF Throttled(att.cand) THEN CodeNeeded(att, att.cand)
                     ELSE AnzSend([ att EXCEPT !.cand.asked = clock ], "request", 0, NoId)
  <2>1. Sober(provider') /\ NoLess(provider, provider')
    BY <1>1, <1>4, ProviderStays
  <2>2. CASE Throttled(att.cand)
    BY <1>1, <1>4, <2>1, <2>2, CodeNeededFollows DEF Result
  <2>3. CASE ~Throttled(att.cand)
    <3> DEFINE c == [ att EXCEPT !.cand.asked = clock ]
    <3>1. AnzSend(c, "request", 0, NoId) = [ c EXCEPT !.stage = "request" ]
      BY AnzSendsUnsigned
    <3>2. att' = [ [ att EXCEPT !.cand.asked = clock ] EXCEPT !.stage = "request" ]
      BY <1>4, <2>3, <3>1
    <3>3. Follows(att, att', provider')
      BY <1>1, <2>1, <2>3, <3>2, RequestFollows
    <3> QED BY <1>1, <2>1, <3>3 DEF Result
  <2> QED BY <2>2, <2>3
<1>5. CASE e # Fine /\ att' = Raised(att, e.class) /\ UNCHANGED provider
  BY <1>1, <1>5, ProviderStays, ErrorFollows DEF Result
<1> HIDE DEF e
<1> QED BY <1>2, <1>3, <1>4, <1>5 DEF AnzLogin, e

LEMMA AnzRequestCodeFollows ==
    ASSUME Ready, NEW r \in Responses, AnzRequestCode(r)
    PROVE  Result
<1> DEFINE e == AnzDecode(r)
<1>1. /\ att.stage = "request" /\ UNCHANGED << region, clock, provider >>
      /\ Waiting(att, provider) /\ Sober(provider) /\ Decoded(e)
  BY DecodersAnswer DEF AnzRequestCode, At, Ready
<1>2. Sober(provider') /\ NoLess(provider, provider')
  BY <1>1, ProviderStays
<1>3. CASE e = Fine
  BY <1>1, <1>2, <1>3, CodeNeededFollows DEF AnzRequestCode, Result
<1>4. CASE e # Fine
  BY <1>1, <1>2, <1>4, ErrorFollows DEF AnzRequestCode, Result
<1> QED BY <1>3, <1>4

LEMMA AnzLoginInfoFollows ==
    ASSUME Ready, NEW r \in Responses, AnzLoginInfo(r)
    PROVE  Result
<1> DEFINE e == AnzDecode(r)
           s == [ att.cand EXCEPT !.access = att.pair, !.refresh = att.pair,
                    !.asked = Never, !.reclaim = FALSE ]
<1>1. /\ region = "anz_legacy" /\ att.stage = "loginInfo" /\ UNCHANGED << region, clock >>
      /\ Waiting(att, provider) /\ Sober(provider) /\ Decoded(e) /\ region \in Anz
      /\ LoginUnread(att)
  BY DecodersAnswer DEF AnzLoginInfo, At, Ready, Anz, LoginUnread
<1>2. /\ att.cand \in AuthState /\ SessionOK(att.cand) /\ att.pair \in Pairs
      /\ att.pair # 0 /\ att.pair <= provider.issued /\ att.pair \notin provider.spent
  BY <1>1, WaitingFacts DEF Waiting, Well, Typed, Tokened
<1>3. CASE UNCHANGED provider /\ att' = AnzResult(att, s)
  <2>1. Sober(provider') /\ NoLess(provider, provider') /\ provider'.spent = provider.spent
    BY <1>1, <1>3, ProviderStays
  <2>2. /\ s \in AuthState /\ s.access = att.pair /\ s.refresh = att.pair
        /\ s.identity = att.cand.identity /\ s.reclaim = FALSE
    BY <1>2 DEF AuthState
  <2> HIDE DEF s
  <2>3. att.cand.identity = NoId
    BY <1>1, <1>2 DEF SessionOK
  <2>4. SessionOK(s)
    BY <1>1, <1>2, <2>2, <2>3, AnzFits
  <2>5. Follows(att, AnzResult(att, s), provider')
    BY <1>1, <1>2, <1>3, <2>1, <2>2, <2>4, AnzResultFollows
  <2> QED BY <1>1, <1>3, <2>1, <2>5 DEF Result
<1>4. CASE Refuses(att.pair, e) /\ att' = ReclaimNeeded(att, Reclaimed(att.cand))
  <2>1. Sober(provider') /\ NoLess(provider, provider')
    BY <1>1, <1>2, <1>4, ProviderRefuses
  <2>2. Follows(att, ReclaimNeeded(att, Reclaimed(att.cand)), provider')
    BY <1>1, <2>1, ReclaimFollows
  <2> QED BY <1>1, <1>4, <2>1, <2>2 DEF Result
<1>5. CASE e # Fine /\ att' = Raised(att, e.class) /\ UNCHANGED provider
  BY <1>1, <1>5, ProviderStays, ErrorFollows DEF Result
<1> HIDE DEF e, s
<1> QED BY <1>3, <1>4, <1>5 DEF AnzLoginInfo, e, s

LEMMA AnzStepFollows ==
    ASSUME Ready, AnzStep
    PROVE  Result
BY AnzUserInfoFollows, AnzRefreshFollows, AnzRefreshedInfoFollows, AnzVerifyFollows,
   AnzLoginFollows, AnzRequestCodeFollows, AnzLoginInfoFollows DEF AnzStep

(* Whatever the request, its answer may be lost.                           *)
LEMMA InterruptedFollows ==
    ASSUME Ready, Interrupted
    PROVE  Result
<1>1. /\ Waiting(att, provider) /\ Sober(provider) /\ UNCHANGED << region, clock >>
  BY DEF Ready, Interrupted
<1>2. Sober(provider') /\ NoLess(provider, provider')
  <2>1. CASE UNCHANGED provider
    BY <1>1, <2>1, ProviderStays
  <2>2. CASE att.stage = "refresh" /\ Exchanges(att.cand.refresh)
    BY <2>2, ProviderExchanges
  <2> QED BY <2>1, <2>2 DEF Interrupted
<1>3. PICK class \in {"Network", "Deadline"} : att' = Raised(att, class)
  BY DEF Interrupted
<1>4. Follows(att, Raised(att, class), provider')
  BY <1>1, <1>2, SchemaFollows DEF Failures
<1> QED BY <1>1, <1>2, <1>3, <1>4 DEF Result

-----------------------------------------------------------------------------
(* What an answer leaves keeps the invariant.                              *)
LEMMA WellStays ==
    ASSUME region' = region, Well(att', provider')
    PROVE  Well(att, provider)'
BY DEF Well, Typed, Permitted, Tokened, LoginUnread, Continues, SessionOK, AnzConstructible

LEMMA SessionsStay ==
    ASSUME region' = region, SessionOK(saved'), SessionOK(flow'.state),
           saved'.access <= provider'.issued, flow'.state.access <= provider'.issued
    PROVE  StoredInv'
BY DEF StoredInv, SessionOK, AnzConstructible

LEMMA StepsWait ==
    ASSUME EuStep \/ AnzStep \/ RussiaStep \/ Interrupted
    PROVE  att.stage \in Requests \cup {"context"}
<1>1. ASSUME EuStep PROVE att.stage \in Requests \cup {"context"}
  BY <1>1 DEF EuStep, EuUserInfo, EuRefreshedInfo, EuLogin, EuRefresh, EuEnroll, EuVerify,
              EuRequestCode, EuContext, At, Requests
<1>2. ASSUME AnzStep PROVE att.stage \in Requests \cup {"context"}
  BY <1>2 DEF AnzStep, AnzUserInfo, AnzRefreshedInfo, AnzLogin, AnzRefresh, AnzVerify,
              AnzRequestCode, AnzLoginInfo, At, Requests
<1>3. ASSUME RussiaStep PROVE att.stage \in Requests \cup {"context"}
  BY <1>3 DEF RussiaStep, RussiaUserInfo, RussiaRefreshedInfo, RussiaLogin, RussiaRefresh,
              RussiaVerify, RussiaRequestCode, RussiaLoginInfo, At, Requests
<1> QED BY <1>1, <1>2, <1>3 DEF Interrupted

LEMMA AnsweredResult ==
    ASSUME IInv, Answered
    PROVE  Ready /\ Result /\ Refused = RefusedBy(att, att')
<1>1. Waiting(att, provider)
  BY StepsWait DEF Answered, IInv, AttemptInv, Waiting
<1>2. Sober(provider) /\ clock \in Times
  BY DEF IInv, TypeOK, SpentInv, Sober, Provider
<1>3. Ready
  BY <1>1, <1>2 DEF Ready
<1>4. Result
  BY <1>3, EuStepFollows, AnzStepFollows, RussiaStepFollows, InterruptedFollows DEF Answered
<1>5. Refused = RefusedBy(att, att')
  BY DEF Refused, RefusedBy
<1> QED BY <1>3, <1>4, <1>5

LEMMA AnsweredHistory ==
    ASSUME IInv, Answered
    PROVE  /\ history' \in Histories /\ saved' = saved /\ flow' = flow
           /\ history'.asked = (IF Asking THEN clock ELSE history.asked)
           /\ history'.excused = (IF Asking THEN FALSE ELSE history.excused \/ AskingEnds)
           /\ history'.refused = (history.refused \/ Refused)
           /\ history'.consent = history.consent
<1>1. history \in Histories /\ clock \in Times
  BY DEF IInv, TypeOK
<1> DEFINE x == IF Asking THEN clock ELSE history.asked
           y == IF Asking THEN FALSE ELSE history.excused \/ AskingEnds
           z == history.refused \/ Refused
<1>2. x \in Times \cup {Never} /\ y \in BOOLEAN /\ z \in BOOLEAN
  <2>1. AskingEnds \in BOOLEAN /\ Refused \in BOOLEAN /\ Asking \in BOOLEAN
    BY DEF AskingEnds, Refused, Asking
  <2>2. history.excused \in BOOLEAN /\ history.refused \in BOOLEAN
        /\ history.asked \in Times \cup {Never}
    BY <1>1 DEF Histories
  <2>3. x \in Times \cup {Never}
    BY <1>1, <2>2
  <2> QED BY <2>1, <2>2, <2>3
<1>3. history' = [ history EXCEPT !.asked = x, !.excused = y, !.refused = z ]
  BY DEF Answered
<1> HIDE DEF x, y, z
<1>4. /\ history' \in Histories /\ history'.asked = x /\ history'.excused = y
      /\ history'.refused = z /\ history'.consent = history.consent
  BY <1>1, <1>2, <1>3 DEF Histories
<1> QED BY <1>4 DEF Answered, x, y, z

LEMMA AnsweredKeeps ==
    ASSUME IInv, Answered
    PROVE  IInv'
<1>1. /\ Waiting(att, provider) /\ Follows(att, att', provider')
      /\ Sober(provider') /\ NoLess(provider, provider')
      /\ region' = region /\ clock' = clock /\ Refused = RefusedBy(att, att')
  BY AnsweredResult DEF Ready, Result
<1>2. /\ history' \in Histories /\ saved' = saved /\ flow' = flow
      /\ history'.asked = (IF Asking THEN clock ELSE history.asked)
      /\ history'.excused = (IF Asking THEN FALSE ELSE history.excused \/ AskingEnds)
      /\ history'.refused = (history.refused \/ Refused)
      /\ history'.consent = history.consent
  BY AnsweredHistory
<1>3. /\ Well(att', provider') /\ att' \in Attempts
      /\ att'.caller = att.caller /\ att'.allow = att.allow /\ att'.stage # "idle"
  BY <1>1 DEF Follows, Well, Typed
<1>4. att.stage \notin {"idle", "ended"} /\ att.outcome.kind = "none"
  BY <1>1, WaitingFacts
<1>5. TypeOK'
  BY <1>1, <1>2, <1>3 DEF IInv, TypeOK, Sober, Provider
<1>6. AttemptInv'
  <2>1. Well(att, provider)'
    BY <1>1, <1>3, WellStays
  <2>2. att'.caller # "nobody"
    BY <1>3, <1>4 DEF IInv, AttemptInv
  <2> QED BY <1>3, <2>1, <2>2 DEF AttemptInv
<1>7. StoredInv'
  <2>1. /\ SessionOK(saved) /\ SessionOK(flow.state)
        /\ saved.access <= provider.issued /\ flow.state.access <= provider.issued
    BY DEF IInv, StoredInv
  <2>2. saved.access \in Pairs /\ flow.state.access \in Pairs
    BY DEF IInv, TypeOK, Flows, AuthState
  <2>3. saved'.access <= provider'.issued /\ flow'.state.access <= provider'.issued
    BY <1>1, <1>2, <2>1, <2>2, BoundsAssumption DEF NoLess, Pairs
  <2>4. SessionOK(saved') /\ SessionOK(flow'.state)
    BY <1>2, <2>1
  <2> QED BY <1>1, <2>3, <2>4, SessionsStay
<1>8. SpentInv'
  BY <1>1 DEF Sober, SpentInv
<1>9. FlowInv' /\ ConsentInv'
  BY <1>1, <1>2, <1>3 DEF IInv, FlowInv, ConsentInv
<1>10. RefusedInv'
  <2> SUFFICES ASSUME saved.access # 0
               PROVE  /\ att'.caller \in {"flow", "setup"} /\ att'.cand.access = 0 => history'.refused
                      /\ att'.caller \in {"setup", "renew"} /\ att'.outcome.class = "Authentication"
                            => history'.refused
    BY <1>2 DEF RefusedInv
  <2>1. ASSUME att'.caller \in {"flow", "setup"}, att'.cand.access = 0
        PROVE  history'.refused
    BY <1>1, <1>2, <1>3, <2>1 DEF IInv, RefusedInv, Follows
  <2>2. ASSUME att'.caller \in {"setup", "renew"}, att'.outcome.class = "Authentication"
        PROVE  history'.refused
    <3>1. ~att.allow
      BY <1>1, <1>3, <2>2 DEF Waiting, Well, Permitted
    <3>2. RefusedBy(att, att')
      BY <1>1, <2>2, <3>1 DEF Follows, RefusedBy
    <3> QED BY <1>1, <1>2, <3>2
  <2> QED BY <2>1, <2>2
<1>11. NothingInv'
  BY <1>2, <1>3, <1>4 DEF IInv, NothingInv
<1>12. SpacedInv'
  <2> SUFFICES ASSUME ~history'.excused, history'.asked # Never
               PROVE  /\ history'.asked <= clock
                      /\ Remembers(att)' => att'.cand.asked = history'.asked
                      /\ ~Pending(att)' =>
                            /\ saved.asked = history'.asked
                            /\ flow.step \in {"verification", "reclaim"} =>
                                  flow.state.asked = history'.asked
    BY <1>1, <1>2 DEF SpacedInv, Never
  <2>1. /\ Remembers(att)' = Remembers(att')
        /\ Pending(att)' = Pending(att')
    BY <1>1 DEF Remembers, LoginUnread, Continues, Pending
  <2>2. CASE Asking
    <3>1. att'.stage = "request" /\ history'.asked = clock
      BY <1>2, <2>2 DEF Asking
    <3>2. att'.cand.asked = clock
      BY <1>1, <3>1 DEF Follows, Asks
    <3>3. Pending(att') /\ clock <= clock
      BY <3>1, BoundsAssumption DEF Pending, IInv, TypeOK, Times
    <3> QED BY <2>1, <3>1, <3>2, <3>3
  <2>3. CASE ~Asking
    <3>1. /\ history'.asked = history.asked /\ ~history.excused /\ ~AskingEnds
          /\ history.asked # Never
      BY <1>2, <2>3
    <3>2. /\ history.asked <= clock /\ (Remembers(att) => att.cand.asked = history.asked)
          /\ ~Pending(att) =>
                /\ saved.asked = history.asked
                /\ flow.step \in {"verification", "reclaim"} => flow.state.asked = history.asked
      BY <3>1 DEF IInv, SpacedInv
    <3>3. ~Asks(att, att')
      BY <2>3 DEF Asks, Asking
    <3>4. Remembers(att') => att'.cand.asked = history.asked
      BY <1>1, <3>2, <3>3 DEF Follows
    <3>5. Pending(att) => Pending(att')
      BY <1>1, <1>4, <3>1 DEF Pending, Follows, AskingEnds
    <3> QED BY <2>1, <3>1, <3>2, <3>4, <3>5
  <2> QED BY <2>2, <2>3
<1> QED BY <1>5, <1>6, <1>7, <1>8, <1>9, <1>10, <1>11, <1>12 DEF IInv

-----------------------------------------------------------------------------
(* Starting an attempt.                                                    *)
Fresh(a, p) ==
    /\ a \in Attempts /\ a.outcome = NoOutcome /\ a.pair = 0
    /\ SessionOK(a.cand) /\ a.cand.access <= p.issued /\ p.issued \in Nat
    /\ a.allow => a.caller = "flow"

LEMMA FreshFacts ==
    ASSUME NEW a, NEW p, Fresh(a, p)
    PROVE  /\ a.cand \in AuthState /\ a.cand.access \in Pairs /\ a.cand.refresh \in {0, a.cand.access}
           /\ 0 \in Pairs /\ 0 <= p.issued
BY BoundsAssumption DEF Fresh, Attempts, AuthState, SessionOK, Pairs

LEMMA EmptyFits ==
    Empty \in AuthState /\ Empty.access = 0 /\ SessionOK(Empty)
BY BoundsAssumption DEF Empty, AuthState, Pairs, OptionalId, SessionOK, AnzConstructible

LEMMA NoAttemptFits ==
    /\ NoAttempt \in Attempts /\ NoAttempt.outcome = NoOutcome /\ NoAttempt.pair = 0
    /\ NoAttempt.stage = "idle" /\ NoAttempt.cand = Empty /\ NoAttempt.caller = "nobody"
    /\ NoAttempt.allow = FALSE
<1>1. "idle" \in Stages /\ 0 \in Pairs /\ NoOutcome \in Outcomes /\ Empty \in AuthState
  BY BoundsAssumption, EmptyFits DEF Stages, Pairs, NoOutcome, Outcomes, Classes
<1> QED BY <1>1 DEF NoAttempt, Attempts

LEMMA AttemptFresh ==
    ASSUME NEW caller, caller \in {"flow", "setup", "renew"}, NEW s \in AuthState, SessionOK(s),
           NEW code \in BOOLEAN, NEW allow \in BOOLEAN, allow => caller = "flow",
           NEW p, s.access <= p.issued, p.issued \in Nat
    PROVE  LET a == Attempt(caller, s, code, allow)
           IN  Fresh(a, p) /\ a.caller = caller /\ a.cand = s /\ a.allow = allow
<1> DEFINE a == Attempt(caller, s, code, allow)
<1>1. a = [ NoAttempt EXCEPT !.caller = caller, !.cand = s, !.code = code, !.allow = allow ]
  BY DEF Attempt
<1>2. NoAttempt \in Attempts /\ NoAttempt.outcome = NoOutcome /\ NoAttempt.pair = 0
  BY NoAttemptFits
<1> HIDE DEF a
<1>3. /\ a \in Attempts /\ a.caller = caller /\ a.cand = s /\ a.allow = allow
      /\ a.outcome = NoOutcome /\ a.pair = 0
  BY <1>1, <1>2 DEF Attempts
<1>4. Fresh(a, p)
  BY <1>3 DEF Fresh
<1> QED BY <1>3, <1>4 DEF a

LEMMA StartRaised ==
    ASSUME NEW a, NEW p, Fresh(a, p), NEW class \in Failures,
           class = "Authentication" =>
              a.cand.refresh = 0 /\ (a.caller # "renew" => a.cand.access = 0)
    PROVE  Starts(a, Raised(a, class), p)
<1> DEFINE b == Raised(a, class)
<1>1. EndsWith(a, b, "error", a.cand, FALSE, class)
  BY RaisedFields DEF Fresh
<1> HIDE DEF b
<1>2. class # "RoutePolicy"
  BY DEF Failures
<1>3. Typed(b, p)
  BY <1>1, <1>2, FreshFacts DEF Fresh, Typed, EndsWith
<1>4. Permitted(b)
  BY <1>1 DEF Fresh, Permitted, SigningIn, EndsWith
<1>5. Tokened(b, p) /\ ~Remembers(b)
  BY <1>1 DEF Tokened, Remembers, SigningIn, LoginUnread, Continues, EndsWith
<1>6. Starts(a, b, p)
  BY <1>1, <1>3, <1>4, <1>5 DEF Starts, Well, EndsWith
<1> QED BY <1>6 DEF b

LEMMA StartReclaim ==
    ASSUME NEW a, NEW p, Fresh(a, p), region \in Anz, a.cand.access = 0
    PROVE  Starts(a, ReclaimNeeded(a, Reclaimed(a.cand)), p)
<1> DEFINE s == Reclaimed(a.cand)
           b == ReclaimNeeded(a, s)
<1>1. s \in AuthState /\ SessionOK(s) /\ s.access = 0 /\ s.asked = a.cand.asked
  BY FreshFacts, ReclaimedFits DEF Fresh
<1> HIDE DEF s
<1>2. EndsWith(a, b, "reclaim", s, FALSE, "none")
  BY <1>1, ReturnFields DEF Fresh
<1> HIDE DEF b
<1>3. Typed(b, p)
  BY <1>1, <1>2, FreshFacts DEF Fresh, Typed, EndsWith
<1>4. Permitted(b)
  BY <1>2 DEF Fresh, Permitted, SigningIn, EndsWith
<1>5. Tokened(b, p)
  BY <1>1, <1>2 DEF Tokened, SigningIn, LoginUnread, Continues, EndsWith
<1>6. Starts(a, b, p)
  BY <1>1, <1>2, <1>3, <1>4, <1>5 DEF Starts, Well, EndsWith
<1> QED BY <1>6 DEF b, s

(* The current ANZ application resumes without asking.                     *)
LEMMA StartAuthenticated ==
    ASSUME NEW a, NEW p, Fresh(a, p), region = "anz_current", a.cand.access # 0
    PROVE  Starts(a, Authenticated(a, a.cand), p)
<1> DEFINE b == Authenticated(a, a.cand)
<1>1. EndsWith(a, b, "authenticated", a.cand, FALSE, "none")
  BY FreshFacts, ReturnFields DEF Fresh
<1> HIDE DEF b
<1>2. Typed(b, p)
  BY <1>1, FreshFacts DEF Fresh, Typed, EndsWith
<1>3. Permitted(b)
  BY <1>1 DEF Fresh, Permitted, SigningIn, EndsWith
<1>4. Tokened(b, p) /\ ~Remembers(b)
  BY <1>1 DEF Tokened, Remembers, SigningIn, LoginUnread, Continues, EndsWith
<1>5. Starts(a, b, p)
  BY <1>1, <1>2, <1>3, <1>4 DEF Starts, Well, EndsWith
<1> QED BY <1>5 DEF b

LEMMA StartResumes ==
    ASSUME NEW a, NEW p, Fresh(a, p), a.cand.access # 0, NEW stage,
           \/ stage = "userInfo" /\ region # "anz_current"
           \/ stage = "refresh" /\ a.cand.refresh # 0 /\ a.cand.access \in p.dead,
           NEW b, b = [ a EXCEPT !.stage = stage ]
    PROVE  Starts(a, b, p)
<1>1. stage \in Stages /\ stage \in {"userInfo", "refresh"}
  BY DEF Stages, Requests
<1>2. /\ a \in Attempts /\ a.cand \in AuthState /\ a.pair = 0 /\ 0 \in Pairs /\ 0 <= p.issued
      /\ a.outcome = NoOutcome /\ SessionOK(a.cand) /\ a.cand.access <= p.issued
      /\ a.allow => a.caller = "flow"
  BY FreshFacts DEF Fresh
<1>3. /\ b \in Attempts /\ b.stage = stage /\ b.cand = a.cand /\ b.pair = 0
      /\ b.caller = a.caller /\ b.allow = a.allow /\ b.outcome = NoOutcome
  BY <1>1, <1>2 DEF Attempts
<1>4. b.outcome.kind = "none" /\ b.outcome.class = "none"
  BY <1>3 DEF NoOutcome
<1>5. Typed(b, p)
  BY <1>2, <1>3, <1>4 DEF Typed
<1>6. Permitted(b)
  BY <1>1, <1>2, <1>3, <1>4 DEF Permitted, SigningIn
<1>7. Tokened(b, p)
  BY <1>1, <1>3, <1>4 DEF Tokened, SigningIn, LoginUnread, Continues
<1> QED BY <1>1, <1>3, <1>4, <1>5, <1>6, <1>7 DEF Starts, Well

LEMMA StartSigningIn ==
    ASSUME NEW a, NEW p, Fresh(a, p), a.cand.access = 0, a.allow,
           NEW s, s \in AuthState, SessionOK(s), s.access = 0, s.asked = a.cand.asked,
           NEW stage, stage \in {"verify", "login"},
           NEW b, b = [ a EXCEPT !.cand = s, !.pair = 0, !.stage = stage ]
    PROVE  Starts(a, b, p)
<1>1. stage \in Stages
  BY DEF Stages, Requests
<1>2. /\ a \in Attempts /\ 0 \in Pairs /\ 0 <= p.issued /\ a.outcome = NoOutcome
      /\ a.caller = "flow"
  BY FreshFacts DEF Fresh
<1>3. /\ b \in Attempts /\ b.stage = stage /\ b.cand = s /\ b.pair = 0
      /\ b.caller = a.caller /\ b.allow = a.allow /\ b.outcome = NoOutcome
  BY <1>1, <1>2 DEF Attempts
<1>4. b.outcome.kind = "none" /\ b.outcome.class = "none"
  BY <1>3 DEF NoOutcome
<1>5. Typed(b, p)
  BY <1>2, <1>3, <1>4 DEF Typed
<1>6. Permitted(b)
  BY <1>2, <1>3, <1>4 DEF Permitted, SigningIn
<1>7. Tokened(b, p)
  BY <1>3, <1>4 DEF Tokened, SigningIn, LoginUnread, Continues
<1> QED BY <1>3, <1>4, <1>5, <1>6, <1>7 DEF Starts, Well

(* Without a session, Europe and Russia sign in or give up.                *)
LEMMA StartWithout ==
    ASSUME NEW a, NEW p, Fresh(a, p), a.cand.access = 0, region \notin Anz
    PROVE  /\ Starts(a, EuSignIn([ a EXCEPT !.cand = EuDropped(a.cand) ]), p)
           /\ Starts(a, RussiaSignIn([ a EXCEPT !.cand = RussiaDropped(a.cand) ]), p)
<1> DEFINE s == EuDropped(a.cand)
<1>1. /\ s \in AuthState /\ SessionOK(s) /\ s.access = 0 /\ s.asked = a.cand.asked
      /\ RussiaDropped(a.cand) = s
  BY FreshFacts, DroppedFits DEF Fresh
<1> DEFINE c == [ a EXCEPT !.cand = s ]
<1> HIDE DEF s
<1>2. a \in Attempts /\ a.pair = 0 /\ 0 \in Pairs /\ a.cand.refresh = 0
  BY FreshFacts DEF Fresh
<1>3. /\ c \in Attempts /\ c.caller = a.caller /\ c.allow = a.allow /\ c.code = a.code
      /\ c.cand = s /\ c.pair = 0 /\ c.outcome = a.outcome
  BY <1>1, <1>2 DEF Attempts
<1>4. Starts(a, EuSignIn(c), p) /\ Starts(a, RussiaSignIn(c), p)
  <2>1. CASE ~a.allow
    <3>1. EuSignIn(c) = Raised(c, "Authentication") /\ RussiaSignIn(c) = Raised(c, "Authentication")
      BY <1>3, <2>1 DEF EuSignIn, RussiaSignIn
    <3> DEFINE b == Raised(c, "Authentication")
    <3>2. EndsWith(c, b, "error", s, FALSE, "Authentication")
      BY <1>3, RaisedFields DEF Failures
    <3> HIDE DEF b, c
    <3>3. Typed(b, p)
      BY <1>1, <3>2, FreshFacts DEF Fresh, Typed, EndsWith
    <3>4. Permitted(b)
      BY <1>3, <2>1, <3>2 DEF Fresh, Permitted, SigningIn, EndsWith
    <3>5. Tokened(b, p) /\ ~Remembers(b)
      BY <3>2 DEF Tokened, Remembers, SigningIn, LoginUnread, Continues, EndsWith
    <3>6. Starts(a, b, p)
      BY <1>2, <1>3, <3>2, <3>3, <3>4, <3>5 DEF Starts, Well, EndsWith
    <3> QED BY <3>1, <3>6 DEF b
  <2>2. CASE a.allow
    <3> DEFINE stage == IF a.code THEN "verify" ELSE "login"
               b == [ c EXCEPT !.stage = stage ]
    <3>1. /\ stage \in {"verify", "login"} /\ stage \in Requests
          /\ stage \notin {"userInfo", "refresh", "refreshedInfo", "loginInfo", "enroll"}
      BY DEF Requests
    <3>2. /\ EuSignIn(c) = EuSend(c, stage, 0)
          /\ RussiaSignIn(c) = RussiaSend(c, stage, 0)
      BY <1>3, <2>2 DEF EuSignIn, RussiaSignIn
    <3> HIDE DEF stage
    <3>3. EuSend(c, stage, 0) = b
      BY <3>1, EuSends
    <3>4. RussiaSend(c, stage, 0) = b
      BY <3>1, RussiaSends
    <3>5. b = [ a EXCEPT !.cand = s, !.pair = 0, !.stage = stage ]
      BY <1>2 DEF Attempts
    <3> HIDE DEF b
    <3>6. Starts(a, b, p)
      BY <1>1, <2>2, <3>1, <3>5, StartSigningIn
    <3> QED BY <3>2, <3>3, <3>4, <3>6
  <2> QED BY <2>1, <2>2
<1> QED BY <1>1, <1>4 DEF s

LEMMA StartReclaiming ==
    ASSUME NEW a, NEW p, Fresh(a, p), a.cand.access = 0, region \in Anz
    PROVE  Starts(a, AnzReclaim(a), p)
<1> DEFINE s == Reclaimed(a.cand)
<1>1. s \in AuthState /\ SessionOK(s) /\ s.access = 0 /\ s.asked = a.cand.asked
  BY FreshFacts, ReclaimedFits DEF Fresh
<1>2. a \in Attempts
  BY DEF Fresh
<1>3. CASE ~a.allow
  <2>1. AnzReclaim(a) = ReclaimNeeded(a, Reclaimed(a.cand))
    BY <1>3 DEF AnzReclaim
  <2> QED BY <2>1, StartReclaim
<1>4. CASE a.allow
  <2> DEFINE c == [ a EXCEPT !.cand = s, !.pair = 0 ]
             stage == IF a.code THEN "verify" ELSE "login"
             b == [ c EXCEPT !.stage = stage ]
  <2>1. AnzReclaim(a) = AnzSignIn(c)
    BY <1>4 DEF AnzReclaim
  <2> HIDE DEF s
  <2>2. stage \in {"verify", "login"}
    OBVIOUS
  <2>3. AnzSignIn(c) = AnzSend(c, stage, 0, NoId)
    <3>1. c.code = a.code
      BY <1>2 DEF Attempts
    <3> QED BY <3>1 DEF AnzSignIn
  <2> HIDE DEF stage
  <2>4. AnzSend(c, stage, 0, NoId) = b
    <3> HIDE DEF c
    <3> QED BY <2>2, AnzSendsUnsigned
  <2>5. b = [ a EXCEPT !.cand = s, !.pair = 0, !.stage = stage ]
    BY <1>2 DEF Attempts
  <2> HIDE DEF b
  <2>6. Starts(a, b, p)
    BY <1>1, <1>4, <2>2, <2>5, StartSigningIn
  <2> QED BY <2>1, <2>3, <2>4, <2>6
<1> QED BY <1>3, <1>4

(* A flow or a setup.                                                      *)
LEMMA DispatchedStarts ==
    ASSUME NEW a, NEW p, Fresh(a, p), region \in Regions
    PROVE  Starts(a, Dispatched(a), p)
<1>0. Anz = {"anz_legacy", "anz_current"}
  BY DEF Anz
<1>1. CASE region = "eu"
  <2>1. Dispatched(a) = EuStart(a)
    BY <1>0, <1>1 DEF Dispatched
  <2>2. CASE a.cand.access # 0
    <3>1. EuStart(a) = EuSend(a, "userInfo", a.cand.access)
      BY <2>2 DEF EuStart
    <3>2. EuSend(a, "userInfo", a.cand.access) = [ a EXCEPT !.stage = "userInfo" ]
      BY <2>2, EuSends DEF Requests
    <3> DEFINE b == [ a EXCEPT !.stage = "userInfo" ]
    <3> HIDE DEF b
    <3>3. Starts(a, b, p)
      BY <1>1, <2>2, StartResumes DEF b
    <3> QED BY <2>1, <3>1, <3>2, <3>3 DEF b
  <2>3. CASE a.cand.access = 0
    <3>1. EuStart(a) = EuSignIn([ a EXCEPT !.cand = EuDropped(a.cand) ])
      BY <2>3 DEF EuStart
    <3> QED BY <1>0, <1>1, <2>1, <2>3, <3>1, StartWithout
  <2> QED BY <2>2, <2>3
<1>2. CASE region = "russia"
  <2>1. Dispatched(a) = RussiaStart(a)
    BY <1>0, <1>2 DEF Dispatched
  <2>2. CASE a.cand.access # 0
    <3>1. RussiaStart(a) = RussiaSend(a, "userInfo", a.cand.access)
      BY <2>2 DEF RussiaStart
    <3>2. RussiaSend(a, "userInfo", a.cand.access) = [ a EXCEPT !.stage = "userInfo" ]
      BY <2>2, RussiaSends DEF Requests
    <3> DEFINE b == [ a EXCEPT !.stage = "userInfo" ]
    <3> HIDE DEF b
    <3>3. Starts(a, b, p)
      BY <1>2, <2>2, StartResumes DEF b
    <3> QED BY <2>1, <3>1, <3>2, <3>3 DEF b
  <2>3. CASE a.cand.access = 0
    <3>1. RussiaStart(a) = RussiaSignIn([ a EXCEPT !.cand = RussiaDropped(a.cand) ])
      BY <2>3 DEF RussiaStart
    <3> QED BY <1>0, <1>2, <2>1, <2>3, <3>1, StartWithout
  <2> QED BY <2>2, <2>3
<1>3. CASE region \in Anz
  <2>1. Dispatched(a) = AnzStart(a)
    BY <1>0, <1>3 DEF Dispatched
  <2>2. CASE a.cand.access = 0
    <3>1. AnzStart(a) = AnzReclaim(a)
      BY <2>2 DEF AnzStart
    <3> QED BY <1>3, <2>1, <2>2, <3>1, StartReclaiming
  <2>3. CASE a.cand.access # 0 /\ Current
    <3>1. region = "anz_current"
      BY <2>3 DEF Current
    <3>2. ~a.cand.reclaim /\ a.cand.gw # NoId
      BY <1>3, <2>3, <3>1, FreshFacts, AnzHeld DEF Fresh
    <3>3. AnzStart(a) = Authenticated(a, a.cand)
      BY <2>3, <3>2 DEF AnzStart, AnzResult
    <3> QED BY <2>1, <2>3, <3>1, <3>3, StartAuthenticated
  <2>4. CASE a.cand.access # 0 /\ ~Current
    <3>1. region # "anz_current"
      BY <2>4 DEF Current
    <3>2. ~a.cand.reclaim
      BY <1>3, <2>4, FreshFacts, AnzHeld DEF Fresh
    <3>3. AnzStart(a) = AnzSend(a, "userInfo", a.cand.access, a.cand.gw)
      BY <2>4, <3>2 DEF AnzStart
    <3>4. AnzSend(a, "userInfo", a.cand.access, a.cand.gw) = AtStage(a, "userInfo")
      BY <2>4, <3>1, AnzSendsSigned
    <3> DEFINE b == [ a EXCEPT !.stage = "userInfo" ]
    <3>5. AtStage(a, "userInfo") = b
      BY DEF AtStage
    <3> HIDE DEF b
    <3>6. Starts(a, b, p)
      BY <2>4, <3>1, StartResumes DEF b
    <3> QED BY <2>1, <3>3, <3>4, <3>5, <3>6
  <2> QED BY <2>2, <2>3, <2>4
<1> QED BY <1>0, <1>1, <1>2, <1>3 DEF Regions

(* A renewal, whose access token GWM refused.                              *)
LEMMA RenewalStarts ==
    ASSUME NEW a, NEW p, Fresh(a, p), region \in Regions, a.caller = "renew",
           a.cand.access # 0, a.cand.access \in p.dead
    PROVE  Starts(a, RenewStarted(a), p)
<1>0. Anz = {"anz_legacy", "anz_current"}
  BY DEF Anz
<1> DEFINE b == [ a EXCEPT !.stage = "refresh" ]
<1>1. RenewStarted(a) = (IF a.cand.refresh = 0 THEN Raised(a, "Authentication") ELSE b)
  <2>1. CASE region = "eu"
    <3>1. EuSend(a, "refresh", 0) = b
      BY EuSends DEF Requests
    <3> HIDE DEF b
    <3>2. RenewStarted(a) = EuRenew(a)
      BY <1>0, <2>1 DEF RenewStarted
    <3> QED BY <3>1, <3>2 DEF EuRenew
  <2>2. CASE region = "russia"
    <3>1. RussiaSend(a, "refresh", 0) = b
      BY RussiaSends DEF Requests
    <3> HIDE DEF b
    <3>2. RenewStarted(a) = RussiaRenew(a)
      BY <1>0, <2>2 DEF RenewStarted
    <3> QED BY <3>1, <3>2 DEF RussiaRenew
  <2>3. CASE region \in Anz
    <3>1. /\ ~a.cand.reclaim /\ (Current => a.cand.gw # NoId)
      BY <2>3, FreshFacts, AnzHeld DEF Fresh, Current
    <3>2. AnzSend(a, "refresh", a.cand.access, a.cand.gw) = b
      BY <1>0, <2>3, <3>1, AnzSends DEF Requests, Current
    <3> HIDE DEF b
    <3>3. RenewStarted(a) = AnzRenew(a)
      BY <1>0, <2>3 DEF RenewStarted
    <3> QED BY <3>1, <3>2, <3>3 DEF AnzRenew
  <2> QED BY <1>0, <2>1, <2>2, <2>3 DEF Regions
<1> HIDE DEF b
<1>2. CASE a.cand.refresh = 0
  BY <1>1, <1>2, StartRaised DEF Failures
<1>3. CASE a.cand.refresh # 0
  <2>1. Starts(a, b, p)
    BY <1>3, StartResumes DEF b
  <2> QED BY <1>1, <1>3, <2>1
<1> QED BY <1>2, <1>3

LEMMA BeginsStarts ==
    ASSUME NEW a, Fresh(a, provider), region \in Regions, Begins(a)
    PROVE  Starts(a, att', provider)
<1>1. Starts(a, Dispatched(a), provider)
  BY DispatchedStarts
<1>2. Starts(a, Raised(a, "Configuration"), provider)
  BY StartRaised DEF Failures
<1> QED BY <1>1, <1>2 DEF Begins

-----------------------------------------------------------------------------
(* What the callers do with attempts and results keeps the invariant.      *)
LEMMA Basics ==
    ASSUME IInv
    PROVE  /\ region \in Regions /\ att \in Attempts /\ clock \in Times
           /\ provider \in Provider /\ provider.issued \in Nat /\ Sober(provider)
           /\ saved \in AuthState /\ flow \in Flows /\ flow.state \in AuthState
           /\ flow.confirmed \in BOOLEAN /\ flow.step \in Steps
           /\ SessionOK(saved) /\ saved.access <= provider.issued
           /\ SessionOK(flow.state) /\ flow.state.access <= provider.issued
           /\ history \in Histories /\ history.asked \in Times \cup {Never}
           /\ history.excused \in BOOLEAN /\ history.consent \in BOOLEAN
           /\ history.refused \in BOOLEAN
BY BoundsAssumption DEF IInv, TypeOK, SpentInv, StoredInv, Sober, Provider, Pairs, Flows, Histories

(* With no attempt in progress, what is stored knows of the last code.     *)
LEMMA IdleKnows ==
    ASSUME IInv, att.stage = "idle", ~history.excused, history.asked # Never
    PROVE  /\ history.asked <= clock /\ saved.asked = history.asked
           /\ flow.step \in {"verification", "reclaim"} => flow.state.asked = history.asked
<1>1. ~Pending(att)
  BY NoAttemptFits DEF IInv, AttemptInv, Pending, NoOutcome
<1> QED BY <1>1 DEF IInv, SpacedInv

LEMMA StartedAttempt ==
    ASSUME NEW a, a.caller \in {"flow", "setup", "renew"}, region' = region,
           Starts(a, att', provider')
    PROVE  AttemptInv' /\ att' \in Attempts /\ att'.stage # "request"
<1>1. Well(att, provider)'
  BY WellStays DEF Starts
<1> QED BY <1>1 DEF AttemptInv, Starts, Well, Typed

LEMMA StartedSpaced ==
    ASSUME IInv, att.stage = "idle", NEW a, Starts(a, att', provider'),
           region' = region, clock' = clock, history'.asked = history.asked,
           ~history'.excused /\ history.asked # Never =>
              /\ ~history.excused
              /\ a.cand.asked = history.asked /\ saved'.asked = history.asked
              /\ flow'.step \in {"verification", "reclaim"} => flow'.state.asked = history.asked
    PROVE  SpacedInv'
<1> SUFFICES ASSUME ~history'.excused, history.asked # Never
             PROVE  /\ history.asked <= clock
                    /\ Remembers(att)' => att'.cand.asked = history.asked
                    /\ saved'.asked = history.asked
                    /\ flow'.step \in {"verification", "reclaim"} =>
                          flow'.state.asked = history.asked
  BY DEF SpacedInv, Never
<1>1. Remembers(att)' = Remembers(att')
  BY DEF Remembers, LoginUnread, Continues
<1>2. Remembers(att') => att'.cand.asked = history.asked
  BY DEF Starts
<1>3. history.asked <= clock
  BY IdleKnows
<1> QED BY <1>1, <1>2, <1>3

LEMMA FlowFresh ==
    ASSUME NEW s \in AuthState, SessionOK(s), s.access <= provider.issued, provider.issued \in Nat,
           NEW code \in BOOLEAN, NEW allow \in BOOLEAN
    PROVE  LET a == Attempt("flow", s, code, allow)
           IN  Fresh(a, provider) /\ a.caller = "flow" /\ a.cand = s /\ a.allow = allow
BY AttemptFresh

LEMMA SubmitAccountKeeps ==
    ASSUME IInv, SubmitAccount
    PROVE  IInv' /\ att'.stage # "request"
<1>1. PICK s \in {saved, Empty} :
         /\ saved' = s
         /\ flow' = [ step |-> "account", confirmed |-> FALSE, state |-> s ]
         /\ Begins(Attempt("flow", s, FALSE, FlowAllows(FALSE)))
         /\ history' = [ history EXCEPT !.consent = FALSE, !.refused = FALSE,
                           !.excused = @ \/ s # saved ]
  BY DEF SubmitAccount
<1>0. PICK allow \in BOOLEAN : allow = FlowAllows(FALSE)
  BY DEF FlowAllows
<1> DEFINE a == Attempt("flow", s, FALSE, allow)
<1>2. UNCHANGED << region, provider, clock >> /\ att.stage = "idle"
  BY <1>1 DEF SubmitAccount, Begins
<1>3. s \in AuthState /\ SessionOK(s) /\ s.access <= provider.issued /\ provider.issued \in Nat
  BY Basics, EmptyFits
<1>4. region \in Anz => ~allow
  BY <1>0 DEF FlowAllows
<1>5. Fresh(a, provider) /\ a.caller = "flow" /\ a.cand = s /\ a.allow = allow
  BY <1>3, FlowFresh
<1>6. Begins(a)
  BY <1>0, <1>1
<1> HIDE DEF a
<1>7. Starts(a, att', provider')
  BY <1>2, <1>5, <1>6, Basics, BeginsStarts
<1>8. /\ history' \in Histories /\ history'.asked = history.asked
      /\ history'.excused = (history.excused \/ s # saved)
  BY <1>1, Basics DEF Histories
<1>9. flow' \in Flows /\ flow'.step = "account" /\ flow'.confirmed = FALSE /\ flow'.state = s
  BY <1>1, <1>3 DEF Flows, Steps
<1>10. AttemptInv' /\ att' \in Attempts /\ att'.stage # "request"
  BY <1>2, <1>5, <1>7, StartedAttempt
<1>11. TypeOK'
  BY <1>1, <1>2, <1>3, <1>8, <1>9, <1>10 DEF IInv, TypeOK
<1>12. StoredInv'
  BY <1>1, <1>2, <1>3, <1>9, SessionsStay
<1>13. SpentInv' /\ FlowInv'
  BY <1>2, <1>9 DEF IInv, SpentInv, FlowInv
<1>14. att'.caller = "flow" /\ att'.allow = allow
  BY <1>5, <1>7 DEF Starts
<1>15. ConsentInv'
  BY <1>2, <1>4, <1>9, <1>14 DEF ConsentInv
<1>16. RefusedInv'
  BY <1>1, <1>5, <1>7, <1>14 DEF RefusedInv, Starts
<1>17. NothingInv'
  BY <1>14 DEF NothingInv
<1>18. SpacedInv'
  BY <1>1, <1>2, <1>5, <1>7, <1>8, <1>9, IdleKnows, StartedSpaced
<1> QED BY <1>10, <1>11, <1>12, <1>13, <1>15, <1>16, <1>17, <1>18 DEF IInv

(* The two steps of a flow that go on from its stored continuation.        *)
LEMMA ContinuationKeeps ==
    ASSUME IInv, att.stage = "idle", flow.step \in {"verification", "reclaim"},
           UNCHANGED << region, provider, clock, saved >>,
           NEW code \in BOOLEAN, NEW allow \in BOOLEAN, region \in Anz /\ allow => history'.consent,
           Begins(Attempt("flow", flow.state, code, allow)),
           flow' \in Flows, flow'.step = flow.step, flow'.state = flow.state,
           flow'.confirmed => history'.consent,
           history' \in Histories, history'.asked = history.asked,
           history'.excused = history.excused
    PROVE  IInv' /\ att'.stage # "request"
<1> DEFINE a == Attempt("flow", flow.state, code, allow)
<1>1. Fresh(a, provider) /\ a.caller = "flow" /\ a.cand = flow.state /\ a.allow = allow
  BY Basics, AttemptFresh
<1>2. Begins(a)
  OBVIOUS
<1> HIDE DEF a
<1>3. Starts(a, att', provider')
  BY <1>1, <1>2, Basics, BeginsStarts
<1>4. AttemptInv' /\ att' \in Attempts /\ att'.stage # "request"
  BY <1>1, <1>3, StartedAttempt
<1>5. TypeOK'
  BY <1>4 DEF IInv, TypeOK
<1>6. StoredInv'
  BY Basics, SessionsStay
<1>7. SpentInv' /\ FlowInv' /\ saved'.access = 0
  BY DEF IInv, SpentInv, FlowInv
<1>8. att'.caller = "flow" /\ att'.allow = allow
  BY <1>1, <1>3 DEF Starts
<1>9. ConsentInv'
  BY <1>8 DEF ConsentInv
<1>10. RefusedInv' /\ NothingInv'
  BY <1>7, <1>8 DEF RefusedInv, NothingInv
<1>11. SpacedInv'
  BY <1>1, <1>3, IdleKnows, StartedSpaced
<1> QED BY <1>4, <1>5, <1>6, <1>7, <1>9, <1>10, <1>11 DEF IInv

LEMMA SubmitCodeKeeps ==
    ASSUME IInv, SubmitCode
    PROVE  IInv' /\ att'.stage # "request"
<1> DEFINE allow == FlowAllows(flow.confirmed)
<1>1. /\ flow.step = "verification" /\ att.stage = "idle"
      /\ Begins(Attempt("flow", flow.state, TRUE, allow))
      /\ UNCHANGED << region, provider, clock, saved, flow >>
      /\ history' = [ history EXCEPT !.refused = FALSE ]
  BY DEF SubmitCode, Begins
<1>2. /\ history' \in Histories /\ history'.asked = history.asked
      /\ history'.excused = history.excused /\ history'.consent = history.consent
  BY <1>1, Basics DEF Histories
<1>3. allow \in BOOLEAN /\ (region \in Anz /\ allow => history'.consent)
  BY <1>2 DEF FlowAllows, IInv, ConsentInv
<1>4. flow' \in Flows /\ (flow'.confirmed => history'.consent)
  BY <1>1, <1>2, Basics DEF IInv, ConsentInv
<1> HIDE DEF allow
<1> QED BY <1>1, <1>2, <1>3, <1>4, ContinuationKeeps

LEMMA ConfirmReclaimKeeps ==
    ASSUME IInv, ConfirmReclaim
    PROVE  IInv' /\ att'.stage # "request"
<1>1. /\ flow.step = "reclaim" /\ att.stage = "idle"
      /\ Begins(Attempt("flow", flow.state, FALSE, TRUE))
      /\ UNCHANGED << region, provider, clock, saved >>
      /\ flow' = [ flow EXCEPT !.confirmed = TRUE ]
      /\ history' = [ history EXCEPT !.consent = TRUE, !.refused = FALSE ]
  BY DEF ConfirmReclaim, Begins
<1>2. /\ history' \in Histories /\ history'.asked = history.asked
      /\ history'.excused = history.excused /\ history'.consent = TRUE
  BY <1>1, Basics DEF Histories
<1>3. flow' \in Flows /\ flow'.step = flow.step /\ flow'.state = flow.state
  BY <1>1, Basics DEF Flows
<1> QED BY <1>1, <1>2, <1>3, ContinuationKeeps

LEMMA SetupKeeps ==
    ASSUME IInv, Setup
    PROVE  IInv' /\ att'.stage # "request"
<1> DEFINE a == Attempt("setup", saved, FALSE, FALSE)
<1>1. /\ Begins(a) /\ att.stage = "idle"
      /\ UNCHANGED << region, provider, clock, saved, flow >>
      /\ history' = [ history EXCEPT !.refused = FALSE ]
  BY DEF Setup, Begins
<1>2. Fresh(a, provider) /\ a.caller = "setup" /\ a.cand = saved /\ a.allow = FALSE
  BY Basics, AttemptFresh
<1> HIDE DEF a
<1>3. Starts(a, att', provider')
  BY <1>1, <1>2, Basics, BeginsStarts
<1>4. /\ history' \in Histories /\ history'.asked = history.asked
      /\ history'.excused = history.excused /\ history'.consent = history.consent
  BY <1>1, Basics DEF Histories
<1>5. AttemptInv' /\ att' \in Attempts /\ att'.stage # "request"
  BY <1>1, <1>2, <1>3, StartedAttempt
<1>6. TypeOK'
  BY <1>1, <1>4, <1>5 DEF IInv, TypeOK
<1>7. StoredInv'
  BY <1>1, Basics, SessionsStay
<1>8. SpentInv' /\ FlowInv'
  BY <1>1 DEF IInv, SpentInv, FlowInv
<1>9. att'.caller = "setup" /\ att'.allow = FALSE
  BY <1>2, <1>3 DEF Starts
<1>10. ConsentInv'
  BY <1>1, <1>4, <1>9 DEF IInv, ConsentInv
<1>11. RefusedInv' /\ NothingInv'
  BY <1>1, <1>2, <1>3, <1>9 DEF RefusedInv, NothingInv, Starts
<1>12. SpacedInv'
  BY <1>1, <1>2, <1>3, <1>4, IdleKnows, StartedSpaced
<1> QED BY <1>5, <1>6, <1>7, <1>8, <1>10, <1>11, <1>12 DEF IInv

LEMMA RenewKeeps ==
    ASSUME IInv, Renew
    PROVE  IInv' /\ att'.stage # "request"
<1> DEFINE a == Attempt("renew", saved, FALSE, FALSE)
           e == Err("Authentication", "other")
<1>1. /\ att' = RenewStarted(a) /\ att.stage = "idle" /\ saved.access # 0
      /\ Refuses(saved.access, e)
      /\ UNCHANGED << region, clock, saved, flow >>
      /\ history' = [ history EXCEPT !.refused = (saved.refresh = 0) ]
  BY DEF Renew
<1>2. TokenRefusal(e) /\ saved.access \in Pairs
  BY Basics DEF TokenRefusal, Err, AuthState
<1> HIDE DEF e
<1>3. /\ Sober(provider') /\ NoLess(provider, provider') /\ saved.access \in provider'.dead
  BY <1>1, <1>2, Basics, ProviderRefuses
<1>4. /\ provider'.issued \in Nat /\ saved.access <= provider'.issued
      /\ flow.state.access <= provider'.issued
  BY <1>2, <1>3, Basics, BoundsAssumption DEF NoLess, Pairs, AuthState
<1>5. Fresh(a, provider') /\ a.caller = "renew" /\ a.cand = saved /\ a.allow = FALSE
  BY <1>4, Basics, AttemptFresh
<1> HIDE DEF a
<1>6. Starts(a, att', provider')
  BY <1>1, <1>3, <1>5, Basics, RenewalStarts
<1>7. /\ history' \in Histories /\ history'.asked = history.asked
      /\ history'.excused = history.excused /\ history'.consent = history.consent
      /\ history'.refused = (saved.refresh = 0)
  BY <1>1, Basics DEF Histories
<1>8. AttemptInv' /\ att' \in Attempts /\ att'.stage # "request"
  BY <1>1, <1>5, <1>6, StartedAttempt
<1>9. TypeOK'
  BY <1>1, <1>3, <1>7, <1>8 DEF IInv, TypeOK, Sober, Provider
<1>10. StoredInv'
  BY <1>1, <1>4, Basics, SessionsStay
<1>11. SpentInv' /\ FlowInv'
  BY <1>1, <1>3 DEF IInv, SpentInv, FlowInv, Sober
<1>12. att'.caller = "renew" /\ att'.allow = FALSE
  BY <1>5, <1>6 DEF Starts
<1>13. ConsentInv'
  BY <1>1, <1>7, <1>12 DEF IInv, ConsentInv
<1>14. RefusedInv' /\ NothingInv'
  BY <1>1, <1>5, <1>6, <1>7, <1>12 DEF RefusedInv, NothingInv, Starts
<1>15. SpacedInv'
  BY <1>1, <1>5, <1>6, <1>7, IdleKnows, StartedSpaced
<1> QED BY <1>8, <1>9, <1>10, <1>11, <1>13, <1>14, <1>15 DEF IInv

(* When a result has been looked at, nothing is in progress.               *)
LEMMA IdleAttempt ==
    ASSUME att' = NoAttempt, region' = region, provider'.issued \in Nat
    PROVE  /\ AttemptInv' /\ att' \in Attempts /\ RefusedInv' /\ NothingInv'
           /\ att'.allow = FALSE /\ ~Pending(att)' /\ ~Remembers(att)'
<1>1. /\ att' \in Attempts /\ att'.outcome = NoOutcome /\ att'.pair = 0
      /\ att'.stage = "idle" /\ att'.cand = Empty /\ att'.caller = "nobody"
      /\ att'.allow = FALSE
  BY NoAttemptFits
<1>2. att'.outcome.kind = "none" /\ att'.outcome.class = "none"
  BY <1>1 DEF NoOutcome
<1>3. Typed(att', provider')
  BY <1>1, <1>2, EmptyFits, BoundsAssumption DEF Typed
<1>4. Permitted(att') /\ Tokened(att', provider')
  BY <1>1, <1>2 DEF Permitted, Tokened, SigningIn, LoginUnread, Continues
<1>5. Well(att, provider)'
  BY <1>3, <1>4, WellStays DEF Well
<1>6. AttemptInv'
  BY <1>1, <1>5 DEF AttemptInv
<1>7. RefusedInv' /\ NothingInv'
  BY <1>1 DEF RefusedInv, NothingInv
<1>8. ~Pending(att)' /\ ~Remembers(att)'
  BY <1>1, <1>2 DEF Pending, Remembers, SigningIn, LoginUnread, Continues
<1> QED BY <1>1, <1>6, <1>7, <1>8

(* What a finished attempt is known to hold.                               *)
LEMMA EndedFacts ==
    ASSUME IInv, att.stage = "ended"
    PROVE  /\ att.cand \in AuthState /\ SessionOK(att.cand) /\ att.cand.access <= provider.issued
           /\ Continues(att) => att.cand.access = 0
           /\ att.outcome.kind = "authenticated" => att.cand.access # 0
           /\ att.outcome.kind = "verification" => att.caller = "flow"
           /\ att.outcome.kind \in {"none", "authenticated", "verification", "reclaim", "error"}
           /\ att.outcome.rejected \in BOOLEAN
BY DEF IInv, AttemptInv, Well, Typed, Tokened, Permitted, Attempts, Outcomes

(* No attempt in progress, and a store and a flow that are sound.          *)
LEMMA SettledKeeps ==
    ASSUME IInv, att' = NoAttempt, UNCHANGED << region, provider, clock >>,
           saved' \in AuthState, SessionOK(saved'), saved'.access <= provider.issued,
           flow' \in Flows, SessionOK(flow'.state), flow'.state.access <= provider.issued,
           history' \in Histories, FlowInv', flow'.confirmed => history'.consent, SpacedInv'
    PROVE  IInv'
<1>1. /\ AttemptInv' /\ att' \in Attempts /\ RefusedInv' /\ NothingInv' /\ att'.allow = FALSE
  BY Basics, IdleAttempt
<1>2. TypeOK'
  BY <1>1 DEF IInv, TypeOK
<1>3. StoredInv'
  BY SessionsStay
<1>4. SpentInv'
  BY DEF IInv, SpentInv
<1>5. ConsentInv'
  BY <1>1 DEF ConsentInv
<1> QED BY <1>1, <1>2, <1>3, <1>4, <1>5 DEF IInv

LEMMA NoFlowFits ==
    NoFlow \in Flows /\ NoFlow.step = "none" /\ NoFlow.confirmed = FALSE /\ NoFlow.state = Empty
BY EmptyFits DEF NoFlow, Flows, Steps

LEMMA AbandonFlowKeeps ==
    ASSUME IInv, AbandonFlow
    PROVE  IInv'
<1>1. /\ att.stage = "idle" /\ flow' = NoFlow
      /\ UNCHANGED << region, att, provider, clock, saved, history >>
  BY DEF AbandonFlow
<1>2. att' = NoAttempt
  BY <1>1 DEF IInv, AttemptInv
<1>3. /\ flow' \in Flows /\ flow'.step = "none" /\ flow'.confirmed = FALSE
      /\ SessionOK(flow'.state) /\ flow'.state.access <= provider.issued
  BY <1>1, NoFlowFits, EmptyFits, Basics
<1>4. SpacedInv'
  BY <1>1, <1>2, <1>3, Basics, IdleAttempt, IdleKnows DEF SpacedInv, Never
<1>5. FlowInv'
  BY <1>3 DEF FlowInv
<1> QED BY <1>1, <1>2, <1>3, <1>4, <1>5, Basics, SettledKeeps

LEMMA RouteAuthenticatedKeeps ==
    ASSUME IInv, RouteAuthenticated
    PROVE  IInv'
<1>1. /\ att.stage = "ended" /\ saved' \in {att.cand, saved} /\ flow' = NoFlow /\ att' = NoAttempt
      /\ history' = [ history EXCEPT !.excused = TRUE ]
      /\ UNCHANGED << region, provider, clock >>
  BY DEF RouteAuthenticated, Over, Kept, Lost
<1>2. history' \in Histories /\ history'.excused = TRUE
  BY <1>1, Basics DEF Histories
<1>3. saved' \in AuthState /\ SessionOK(saved') /\ saved'.access <= provider.issued
  BY <1>1, EndedFacts, Basics
<1>4. /\ flow' \in Flows /\ flow'.step = "none" /\ flow'.confirmed = FALSE
      /\ SessionOK(flow'.state) /\ flow'.state.access <= provider.issued
  BY <1>1, NoFlowFits, EmptyFits, Basics
<1>5. SpacedInv' /\ FlowInv'
  BY <1>2, <1>4 DEF SpacedInv, FlowInv
<1> QED BY <1>1, <1>2, <1>3, <1>4, <1>5, SettledKeeps

LEMMA RouteContinuationKeeps ==
    ASSUME IInv, RouteContinuation
    PROVE  IInv'
<1>1. /\ att.stage = "ended" /\ att' = NoAttempt /\ Continues(att)
      /\ UNCHANGED << region, provider, clock >>
  BY DEF RouteContinuation, Over, Continues
<1>2. CASE /\ Kept
           /\ flow' = [ step |-> IF att.outcome.kind = "reclaim" THEN "reclaim" ELSE "verification",
                        confirmed |-> flow.confirmed /\ att.outcome.kind # "reclaim",
                        state |-> att.cand ]
           /\ history' = [ history EXCEPT !.excused = @ \/ att.outcome.rejected,
                             !.consent = @ /\ att.outcome.kind # "reclaim" ]
  <2>1. /\ saved' = att.cand /\ att.cand \in AuthState /\ SessionOK(att.cand)
        /\ att.cand.access <= provider.issued /\ att.cand.access = 0
    BY <1>1, <1>2, EndedFacts DEF Kept
  <2>2. /\ flow' \in Flows /\ flow'.step \in {"verification", "reclaim"} /\ flow'.state = att.cand
        /\ flow'.confirmed = (flow.confirmed /\ att.outcome.kind # "reclaim")
    BY <1>2, <2>1, Basics DEF Flows, Steps
  <2>3. /\ history' \in Histories /\ history'.asked = history.asked
        /\ history'.excused = (history.excused \/ att.outcome.rejected)
        /\ history'.consent = (history.consent /\ att.outcome.kind # "reclaim")
    BY <1>1, <1>2, Basics, EndedFacts DEF Histories
  <2>4. flow'.confirmed => history'.consent
    BY <2>2, <2>3 DEF IInv, ConsentInv
  <2>5. FlowInv'
    BY <2>1 DEF FlowInv
  <2>6. ASSUME ~history'.excused, history.asked # Never
        PROVE  history.asked <= clock /\ att.cand.asked = history.asked
    <3>1. ~history.excused /\ ~att.outcome.rejected
      BY <2>3, <2>6
    <3>2. Remembers(att)
      BY <1>1, <3>1 DEF Remembers
    <3> QED BY <2>6, <3>1, <3>2 DEF IInv, SpacedInv
  <2>7. SpacedInv'
    BY <1>1, <2>1, <2>2, <2>3, <2>6, Basics, IdleAttempt DEF SpacedInv, Never
  <2> QED BY <1>1, <2>1, <2>2, <2>3, <2>4, <2>5, <2>7, SettledKeeps
<1>3. CASE Lost /\ UNCHANGED flow /\ history' = [ history EXCEPT !.excused = TRUE ]
  <2>1. saved' = saved /\ flow' = flow
    BY <1>3 DEF Lost
  <2>2. history' \in Histories /\ history'.excused = TRUE /\ history'.consent = history.consent
    BY <1>3, Basics DEF Histories
  <2>3. SpacedInv' /\ FlowInv' /\ (flow'.confirmed => history'.consent)
    BY <2>1, <2>2 DEF SpacedInv, FlowInv, IInv, ConsentInv
  <2> QED BY <1>1, <2>1, <2>2, <2>3, Basics, SettledKeeps
<1> QED BY <1>2, <1>3 DEF RouteContinuation

LEMMA RouteErrorKeeps ==
    ASSUME IInv, RouteError
    PROVE  IInv'
<1>1. /\ att.stage = "ended" /\ att.outcome.kind = "error" /\ att' = NoAttempt
      /\ flow' = [ flow EXCEPT !.confirmed = @ /\ flow.step # "reclaim" ]
      /\ UNCHANGED << region, provider, clock, saved, history >>
  BY DEF RouteError, Over
<1>2. /\ flow' \in Flows /\ flow'.step = flow.step /\ flow'.state = flow.state
      /\ flow'.confirmed = (flow.confirmed /\ flow.step # "reclaim")
  BY <1>1, Basics DEF Flows
<1>3. FlowInv' /\ (flow'.confirmed => history'.consent)
  BY <1>1, <1>2 DEF FlowInv, IInv, ConsentInv
<1>4. ~Pending(att)
  BY <1>1 DEF Pending
<1>5. SpacedInv'
  BY <1>1, <1>2, <1>4, Basics, IdleAttempt DEF IInv, SpacedInv, Never
<1> QED BY <1>1, <1>2, <1>3, <1>5, Basics, SettledKeeps

(* The setup and the renewal leave the flow alone, and have no code to ask *)
(* for.                                                                    *)
LEMMA ResumedKeeps ==
    ASSUME IInv, att.stage = "ended", att.caller \in {"setup", "renew"},
           \/ att.outcome.kind = "authenticated" /\ saved' \in {att.cand, saved}
           \/ saved' \in {Empty, saved},
           att' = NoAttempt, UNCHANGED << region, provider, clock, flow >>,
           history' = [ history EXCEPT !.excused = @ \/ saved' # saved ]
    PROVE  IInv'
<1>1. /\ history' \in Histories /\ history'.asked = history.asked
      /\ history'.excused = (history.excused \/ saved' # saved)
      /\ history'.consent = history.consent
  BY Basics DEF Histories
<1>2. saved' \in AuthState /\ SessionOK(saved') /\ saved'.access <= provider.issued
  BY EndedFacts, EmptyFits, Basics
<1>3. saved.access = 0 => saved'.access = 0
  BY EmptyFits DEF IInv, NothingInv
<1>4. FlowInv' /\ (flow'.confirmed => history'.consent)
  BY <1>1, <1>3 DEF FlowInv, IInv, ConsentInv
<1>5. ~Pending(att)
  BY EndedFacts DEF Pending
<1>6. SpacedInv'
  BY <1>1, <1>5, Basics, IdleAttempt DEF IInv, SpacedInv, Never
<1> QED BY <1>1, <1>2, <1>4, <1>6, Basics, SettledKeeps

LEMMA EndsKeep ==
    ASSUME IInv, Ends
    PROVE  IInv'
<1>1. ASSUME SetupEnds PROVE IInv'
  <2>1. /\ att.stage = "ended" /\ att.caller = "setup" /\ att' = NoAttempt
        /\ UNCHANGED << region, provider, clock, flow >>
        /\ history' = [ history EXCEPT !.excused = @ \/ saved' # saved ]
    BY <1>1 DEF SetupEnds, Over
  <2>2. \/ att.outcome.kind = "authenticated" /\ saved' \in {att.cand, saved}
        \/ saved' \in {Empty, saved}
    BY <1>1 DEF SetupEnds, Kept, Lost
  <2> QED BY <2>1, <2>2, ResumedKeeps
<1>2. ASSUME RenewalEnds PROVE IInv'
  <2>1. /\ att.stage = "ended" /\ att.caller = "renew" /\ att' = NoAttempt
        /\ UNCHANGED << region, provider, clock, flow >>
        /\ history' = [ history EXCEPT !.excused = @ \/ saved' # saved ]
    BY <1>2 DEF RenewalEnds, Over
  <2>2. \/ att.outcome.kind = "authenticated" /\ saved' \in {att.cand, saved}
        \/ saved' \in {Empty, saved}
    BY <1>2 DEF RenewalEnds, Kept, Lost
  <2> QED BY <2>1, <2>2, ResumedKeeps
<1> QED BY <1>1, <1>2, RouteAuthenticatedKeeps, RouteContinuationKeeps, RouteErrorKeeps DEF Ends

(* The clock is no part of a session.                                      *)
LEMMA ClockKeeps ==
    ASSUME IInv, Tick \/ SetBack
    PROVE  IInv'
<1>1. UNCHANGED << region, att, provider, saved, flow >> /\ clock' \in Times
  BY Basics, BoundsAssumption DEF Tick, SetBack, Times
<1>2. /\ history' \in Histories /\ history'.consent = history.consent
      /\ history'.refused = history.refused /\ history'.asked = history.asked
      /\ ~history'.excused => ~history.excused /\ clock' = clock + 1
  BY Basics DEF Tick, SetBack, Histories
<1>3. TypeOK'
  BY <1>1, <1>2 DEF IInv, TypeOK
<1>4. AttemptInv'
  <2>1. Well(att, provider)'
    BY <1>1, WellStays DEF IInv, AttemptInv
  <2> QED BY <1>1, <2>1 DEF IInv, AttemptInv
<1>5. StoredInv'
  BY <1>1, Basics, SessionsStay
<1>6. SpentInv' /\ FlowInv' /\ NothingInv'
  BY <1>1 DEF IInv, SpentInv, FlowInv, NothingInv
<1>7. ConsentInv' /\ RefusedInv'
  BY <1>1, <1>2 DEF IInv, ConsentInv, RefusedInv
<1>8. SpacedInv'
  <2> SUFFICES ASSUME ~history'.excused, history.asked # Never
               PROVE  /\ history.asked <= clock'
                      /\ Remembers(att)' => att.cand.asked = history.asked
                      /\ ~Pending(att)' =>
                            /\ saved.asked = history.asked
                            /\ flow.step \in {"verification", "reclaim"} =>
                                  flow.state.asked = history.asked
    BY <1>1, <1>2 DEF SpacedInv, Never
  <2>1. Remembers(att)' = Remembers(att) /\ Pending(att)' = Pending(att)
    BY <1>1 DEF Remembers, LoginUnread, Continues, Pending
  <2>2. ~history.excused /\ clock' = clock + 1
    BY <1>2
  <2>3. /\ history.asked <= clock
        /\ Remembers(att) => att.cand.asked = history.asked
        /\ ~Pending(att) =>
              /\ saved.asked = history.asked
              /\ flow.step \in {"verification", "reclaim"} => flow.state.asked = history.asked
    BY <2>2 DEF IInv, SpacedInv
  <2>4. history.asked <= clock'
    BY <2>2, <2>3, Basics, BoundsAssumption DEF Times, Never
  <2> QED BY <2>1, <2>3, <2>4
<1> QED BY <1>3, <1>4, <1>5, <1>6, <1>7, <1>8 DEF IInv

LEMMA StutterKeeps ==
    ASSUME IInv, UNCHANGED vars
    PROVE  IInv'
<1>1. UNCHANGED << region, att, provider, clock, saved, flow, history >>
  BY DEF vars
<1>2. TypeOK' /\ SpentInv' /\ FlowInv' /\ NothingInv' /\ ConsentInv' /\ RefusedInv'
  BY <1>1 DEF IInv, TypeOK, SpentInv, FlowInv, NothingInv, ConsentInv, RefusedInv
<1>3. AttemptInv'
  <2>1. Well(att, provider)'
    BY <1>1, WellStays DEF IInv, AttemptInv
  <2> QED BY <1>1, <2>1 DEF IInv, AttemptInv
<1>4. StoredInv'
  BY <1>1, Basics, SessionsStay
<1>5. SpacedInv'
  <2>1. Remembers(att)' = Remembers(att) /\ Pending(att)' = Pending(att)
    BY <1>1 DEF Remembers, LoginUnread, Continues, Pending
  <2> QED BY <1>1, <2>1 DEF IInv, SpacedInv, Never
<1> QED BY <1>2, <1>3, <1>4, <1>5 DEF IInv

LEMMA InitHolds ==
    ASSUME Init
    PROVE  IInv
<1>1. /\ provider \in Provider /\ provider.issued = 0 /\ provider.spent = {}
  BY BoundsAssumption DEF Init, Provider, Pairs
<1>2. history \in Histories /\ ~history.consent /\ history.asked = Never
  BY DEF Init, Histories
<1>3. att = NoAttempt /\ saved = Empty /\ flow = NoFlow
  BY DEF Init
<1>4. TypeOK
  BY <1>1, <1>2, <1>3, EmptyFits, NoFlowFits, NoAttemptFits DEF Init, TypeOK, Provider
<1>5. att.outcome.kind = "none" /\ att.outcome.class = "none"
  BY <1>3, NoAttemptFits DEF NoOutcome
<1>6. Typed(att, provider)
  BY <1>1, <1>3, <1>5, NoAttemptFits, EmptyFits DEF Typed
<1>7. Permitted(att) /\ Tokened(att, provider)
  BY <1>3, <1>5, NoAttemptFits DEF Permitted, Tokened, SigningIn, LoginUnread, Continues
<1>8. AttemptInv
  BY <1>3, <1>6, <1>7, NoAttemptFits DEF AttemptInv, Well
<1>9. StoredInv /\ SpentInv /\ FlowInv
  BY <1>1, <1>3, EmptyFits, NoFlowFits DEF StoredInv, SpentInv, FlowInv
<1>10. ConsentInv /\ RefusedInv /\ NothingInv
  BY <1>3, NoAttemptFits, NoFlowFits DEF ConsentInv, RefusedInv, NothingInv
<1>11. SpacedInv
  BY <1>2 DEF SpacedInv
<1> QED BY <1>4, <1>8, <1>9, <1>10, <1>11 DEF IInv

LEMMA NextKeeps ==
    ASSUME IInv, [Next]_vars
    PROVE  IInv'
<1>1. CASE Next
  BY <1>1, SubmitAccountKeeps, SubmitCodeKeeps, ConfirmReclaimKeeps, AbandonFlowKeeps, SetupKeeps,
     RenewKeeps, AnsweredKeeps, EndsKeep, ClockKeeps DEF Next
<1>2. CASE UNCHANGED vars
  BY <1>2, StutterKeeps
<1> QED BY <1>1, <1>2

LEMMA Inductive == Spec => []IInv
<1>1. Init => IInv
  BY InitHolds
<1>2. IInv /\ [Next]_vars => IInv'
  BY NextKeeps
<1> QED BY <1>1, <1>2, PTL DEF Spec

-----------------------------------------------------------------------------
(* What the invariant shows.                                               *)

\* The client never stops its own attempt: every state it builds is one its
\* constructor accepts and every request one its route policy lets out.
THEOREM AttemptsAreWellFormed == Spec => []WellFormed
<1>1. ASSUME IInv PROVE WellFormed
  <2>1. TypeOK /\ att.outcome.class # "RoutePolicy"
    BY <1>1 DEF IInv, AttemptInv, Well, Typed
  <2>2. ASSUME NEW s \in {saved, flow.state, att.cand}
        PROVE  /\ region = "eu" => EuConstructible(s)
               /\ region \in Anz => AnzConstructible(s)
    <3>1. SessionOK(s)
      BY <1>1 DEF IInv, AttemptInv, StoredInv, Well, Typed
    <3> QED BY <3>1 DEF SessionOK, EuConstructible
  <2> QED BY <2>1, <2>2 DEF WellFormed
<1> QED BY <1>1, Inductive, PTL

\* A client certificate is only ever held with the gwId it was enrolled for.
THEOREM CertificatesStayWithTheirAccount == Spec => []IdentityOfItsAccount
<1>1. ASSUME IInv PROVE IdentityOfItsAccount
  <2>1. ASSUME NEW s \in {saved, flow.state, att.cand} PROVE s.identity \in {NoId, s.gw}
    <3>1. SessionOK(s)
      BY <1>1 DEF IInv, AttemptInv, StoredInv, Well, Typed
    <3> QED BY <3>1 DEF SessionOK
  <2> QED BY <2>1 DEF IdentityOfItsAccount
<1> QED BY <1>1, Inductive, PTL

\* Outside the current ANZ protocol no attempt succeeds with a session whose
\* refresh token was already exchanged.
THEOREM ResumedSessionsCanRenew == Spec => []NoSpentSession
<1>1. ASSUME IInv PROVE NoSpentSession
  BY <1>1 DEF IInv, AttemptInv, Well, Tokened, NoSpentSession
<1> QED BY <1>1, Inductive, PTL

(* Only an answer brings an attempt to the request of a code.              *)
LEMMA OnlyAnswersAsk ==
    ASSUME IInv, [Next]_vars, Asking
    PROVE  Answered
<1>1. att'.stage = "request" /\ att.stage # "request"
  BY DEF Asking
<1>2. ~(SubmitAccount \/ SubmitCode \/ ConfirmReclaim \/ Setup \/ Renew)
  BY <1>1, SubmitAccountKeeps, SubmitCodeKeeps, ConfirmReclaimKeeps, SetupKeeps, RenewKeeps
<1>3. ~(AbandonFlow \/ Tick \/ SetBack \/ UNCHANGED vars)
  BY <1>1 DEF AbandonFlow, Tick, SetBack, vars
<1>4. ~Ends
  BY <1>1, NoAttemptFits
     DEF Ends, RouteAuthenticated, RouteContinuation, RouteError, SetupEnds, RenewalEnds
<1> QED BY <1>2, <1>3, <1>4 DEF Next

\* A code is asked for again within the interval only if the client knows the
\* last one is no use or can not know it was sent.
THEOREM CodesAreSpaced == Spec => CodesSpaced
<1>1. ASSUME IInv, [Next]_vars, Asking, ~history.excused, history.asked # Never
      PROVE  clock - history.asked >= Interval
  <2>1. /\ Waiting(att, provider) /\ Follows(att, att', provider')
    BY <1>1, OnlyAnswersAsk, AnsweredResult DEF Ready, Result
  <2>2. Asks(att, att')
    BY <1>1, <2>1 DEF Follows, Asking
  <2>3. Remembers(att)
    BY <2>2 DEF Asks, Remembers, SigningIn
  <2>4. history.asked <= clock /\ att.cand.asked = history.asked
    BY <1>1, <2>3 DEF IInv, SpacedInv
  <2>5. ~Throttled(att.cand) /\ history.asked \in Nat /\ clock \in Nat
    BY <1>1, <2>2, Basics, BoundsAssumption DEF Asks, Times
  <2> QED BY <1>1, <2>4, <2>5, BoundsAssumption DEF Throttled
<1>2. IInv /\ [Next]_vars => [ Asking => \/ history.excused \/ history.asked = Never
                                        \/ clock - history.asked >= Interval ]_vars
  BY <1>1
<1> QED BY <1>2, Inductive, PTL DEF Spec, CodesSpaced

LEMMA RegionStays ==
    ASSUME IInv, [Next]_vars
    PROVE  region' = region
<1>1. Answered => region' = region
  BY AnsweredResult DEF Result
<1>2. ASSUME \/ SubmitAccount \/ SubmitCode \/ ConfirmReclaim \/ AbandonFlow \/ Setup \/ Renew
             \/ Ends \/ Tick \/ SetBack \/ UNCHANGED vars
      PROVE  region' = region
  BY <1>2 DEF SubmitAccount, SubmitCode, ConfirmReclaim, AbandonFlow, Setup, Renew, Ends, Tick,
       SetBack, vars, RouteAuthenticated, RouteContinuation, RouteError, SetupEnds, RenewalEnds
<1> QED BY <1>1, <1>2 DEF Next

\* A password or a code is sent only for a flow, and in ANZ only while the user
\* agrees to claim the session.
THEOREM LoginsAreAskedFor == Spec => NoUnaskedLogin
<1>1. ASSUME IInv, IInv', [Next]_vars, att'.stage \in {"verify", "login"}
      PROVE  att'.caller = "flow" /\ (region \in Anz => history'.consent)
  <2>1. region' = region
    BY <1>1, RegionStays
  <2>2. att'.allow /\ att'.caller = "flow"
    BY <1>1 DEF IInv, AttemptInv, Well, Permitted, SigningIn
  <2> QED BY <1>1, <2>1, <2>2 DEF IInv, ConsentInv
<1>2. IInv /\ IInv' /\ [Next]_vars
         => [ (att'.stage \in {"verify", "login"} /\ att'.stage # att.stage)
                => /\ att'.caller = "flow"
                   /\ region \in Anz => history'.consent ]_vars
  BY <1>1
<1> QED BY <1>2, Inductive, PTL DEF Spec, NoUnaskedLogin

\* A stored session is dropped only after GWM refused it, or by a flow with other
\* credentials.
THEOREM SessionsAreDroppedWhenRefused == Spec => DroppedOnlyIfRefused
<1>1. ASSUME IInv, [Next]_vars, saved.access # 0, saved'.access = 0, att.stage = "ended"
      PROVE  history.refused
  <2>1. saved' # saved
    BY <1>1
  <2>2. /\ att.outcome.kind = "authenticated" => att.cand.access # 0
        /\ att.caller \in {"flow", "setup"} /\ att.cand.access = 0 => history.refused
        /\ att.caller \in {"setup", "renew"} /\ att.outcome.class = "Authentication" =>
              history.refused
        /\ Continues(att) => att.cand.access = 0
    BY <1>1, EndedFacts DEF IInv, RefusedInv
  <2>3. CASE RouteAuthenticated \/ RouteContinuation \/ RouteError
    BY <1>1, <2>1, <2>2, <2>3
       DEF RouteAuthenticated, RouteContinuation, RouteError, Over, Kept, Lost
  <2>4. CASE SetupEnds
    BY <1>1, <2>1, <2>2, <2>4 DEF SetupEnds, Over, Kept, Lost, Discards, Continues
  <2>5. CASE RenewalEnds
    BY <1>1, <2>1, <2>2, <2>5 DEF RenewalEnds, Over, Kept, Lost
  <2>6. ~(SubmitAccount \/ SubmitCode \/ ConfirmReclaim \/ Setup \/ Renew \/ AbandonFlow)
    BY <1>1 DEF SubmitAccount, SubmitCode, ConfirmReclaim, Setup, Renew, AbandonFlow, Begins
  <2>7. ~(Answered \/ Tick \/ SetBack \/ UNCHANGED vars)
    BY <2>1 DEF Answered, Tick, SetBack, vars
  <2> QED BY <1>1, <2>3, <2>4, <2>5, <2>6, <2>7 DEF Next, Ends
<1>2. IInv /\ [Next]_vars =>
        [ (saved.access # 0 /\ saved'.access = 0 /\ att.stage = "ended") => history.refused ]_vars
  BY <1>1
<1> QED BY <1>2, Inductive, PTL DEF Spec, DroppedOnlyIfRefused
=============================================================================
