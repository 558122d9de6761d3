---------------------------- MODULE ChinaSession ----------------------------
(***************************************************************************)
(* The China session from the first SMS code to its retirement: sign-in    *)
(* flows and setup, which authenticate with a temporary client, and the    *)
(* running entry, whose poll and commands share one client, renew its      *)
(* session behind a lock and keep a rotated G-App pair from the moment it  *)
(* is received.  A restart may come between any two steps.                 *)
(***************************************************************************)
EXTENDS ChinaAuth, Sequences

VARIABLES
  store,      \* the durable authentication state; NoState when there is none
  flow,       \* step and continuation state of the config flow
  running,    \* the entry is loaded
  session,    \* ChinaClient._session
  boot,       \* GwmCloudRuntime._bootstrap.state
  partial,    \* _china_partial_state
  pending,    \* _pending_auth_state
  ops,        \* the poll and a command: where they are, the state they observed
  renewal,    \* who holds _session_renewal_lock
  queue,      \* who holds (head) or waits for the client's _request_lock
  history     \* what happened, for the properties; no code reads it

runtime == << session, boot, partial, pending, ops, renewal, queue >>
vars == << att, provider, store, flow, running, runtime, history >>

Procs == {"poll", "command"}
Nobody == "nobody"

\* act: the call; expired: waiting for the renewal lock; renew: inside it;
\* again: the repeated read; rejected: the coordinator was told.
Places == {"idle", "act", "expired", "renew", "again", "rejected"}

Steps == {"none", "account", "verification", "initialization"}
NoFlow == [ step |-> "none", state |-> NoState ]

\* asked: a code was asked for within the interval; excused: and the client need
\* not know; lost: pairs whose successor the client never had, or could not
\* store; refused: pairs GWM, or one of its platforms, refused; told: the
\* coordinator asked the user to sign in.
Histories ==
  [ asked : BOOLEAN, excused : BOOLEAN, lost : SUBSET Pairs, refused : SUBSET Pairs,
    told : BOOLEAN ]

TypeOK ==
  /\ att \in Attempts
  /\ provider \in [ issued : Pairs, dead : SUBSET Pairs, spent : SUBSET Pairs ]
  /\ { store, session, boot, partial, pending, flow.state } \subseteq ChinaAuthState
  /\ flow.step \in Steps
  /\ running \in BOOLEAN
  /\ ops \in [ Procs -> [ at : Places, seen : ChinaAuthState ] ]
  /\ renewal \in Procs \cup {Nobody}
  /\ queue \in Seq(Procs)
  /\ history \in Histories

Quiet ==
  /\ session = NoState /\ boot = NoState /\ partial = NoState /\ pending = NoState
  /\ ops = [ p \in Procs |-> [ at |-> "idle", seen |-> NoState ] ]
  /\ renewal = Nobody
  /\ queue = << >>

Init ==
  /\ att = NoAttempt
  /\ provider = [ issued |-> 0, dead |-> {}, spent |-> {} ]
  /\ store = NoState
  /\ flow = NoFlow
  /\ running = FALSE
  /\ Quiet
  /\ history = [ asked |-> FALSE, excused |-> FALSE, lost |-> {}, refused |-> {},
                 told |-> FALSE ]

---------------------------------------------------------------------------
(* Flows and setup.                                                        *)

Begin(caller, s, code) ==
  /\ ~ running
  /\ att.stage = "idle"
  /\ att' = Start([ NoAttempt EXCEPT !.caller = caller, !.cand = s, !.code = code,
                                     !.allow = (caller = "flow") ])

Asking == att'.stage = "smsRequest" /\ att.stage # "smsRequest"
Asks(h) == [ h EXCEPT !.asked = @ \/ Asking, !.excused = @ /\ ~ Asking ]

\* The account step restores the continuation stored for the credentials typed;
\* under others the store discards it.
SubmitAccount ==
  /\ flow.step \in {"none", "account"}
  /\ \E s \in { store, NoState } :
       /\ Begin("flow", s, FALSE)
       /\ store' = s
       /\ flow' = [ step |-> "account", state |-> s ]
       /\ history' = Asks(IF s = store THEN history
                          ELSE [ history EXCEPT !.asked = FALSE, !.refused = @ \cup {store.g} ])
  /\ UNCHANGED << provider, running, runtime >>

SubmitCode ==
  /\ flow.step = "verification"
  /\ Begin("flow", flow.state, TRUE)
  /\ history' = Asks(history)
  /\ UNCHANGED << provider, store, flow, running, runtime >>

RetryInitialization ==
  /\ flow.step = "initialization"
  /\ Begin("flow", flow.state, FALSE)
  /\ history' = Asks(history)
  /\ UNCHANGED << provider, store, flow, running, runtime >>

AbandonFlow ==
  /\ att.stage = "idle"
  /\ flow # NoFlow
  /\ flow' = NoFlow
  /\ UNCHANGED << att, provider, store, running, runtime, history >>

\* _async_load_cloud_bootstrap.  A flow that stays open meanwhile is left out:
\* how flows and a loaded entry meet is EntryLifecycle's subject.
Setup ==
  /\ flow = NoFlow
  /\ store # NoState
  /\ Begin("setup", store, FALSE)
  /\ UNCHANGED << provider, store, flow, running, runtime, history >>

Over(caller) == att.stage = "ended" /\ att.caller = caller
Kind(kinds) == att.outcome.kind \in kinds
Successor(s) == IF att.cand.g \notin {0, s.g} THEN {s.g} ELSE {}

\* A save that fails surfaces as an error of the caller: nothing moves on.
Saved(s)  == store' = s
Unsaved   == UNCHANGED store

\* _async_route_authentication.
RouteResult ==
  /\ Over("flow")
  /\ \/ /\ Kind({"authenticated"})
        /\ Saved(att.cand) \/ Unsaved
        /\ flow' = NoFlow
        /\ history' = [ history EXCEPT !.lost = @ \cup Successor(store'), !.excused = TRUE ]
     \/ /\ Kind({"verification", "initialization"})
        /\ \/ /\ Saved(att.cand)
              /\ flow' = [ step |-> att.outcome.kind, state |-> att.cand ]
              /\ history' = [ history EXCEPT !.excused = @ \/ att.cand.asked = "never" ]
           \/ /\ Unsaved
              /\ UNCHANGED flow
              /\ history' = [ history EXCEPT !.excused = TRUE, !.lost = @ \cup Successor(store) ]
     \/ /\ Kind({"risk"})
        /\ Saved(NoState) \/ Unsaved
        /\ flow' = NoFlow
        /\ history' = [ history EXCEPT !.excused = TRUE, !.lost = @ \cup Successor(store) ]
     \/ /\ Kind({"error"})
        /\ Unsaved
        /\ UNCHANGED flow
        /\ history' = [ history EXCEPT !.excused = @ \/ att.cand.asked = "recent", !.lost = @ \cup Successor(store) ]
  /\ att' = NoAttempt
  /\ UNCHANGED << provider, running, runtime >>

Dropping == att.outcome.kind \in {"verification", "risk"} \/ att.outcome.class = "Authentication"

\* A resumed session is stored and the entry runs on it; a rotated pair without
\* platforms is stored for the next try; a refused session is dropped.
SetupEnds ==
  /\ Over("setup")
  /\ \/ /\ Kind({"authenticated"})
        /\ \/ /\ Saved(att.cand)
              /\ running' = TRUE
              /\ session' = att.cand /\ boot' = att.cand
              /\ UNCHANGED << partial, pending, ops, renewal, queue >>
           \/ Unsaved /\ UNCHANGED << running, runtime >>
     \/ /\ Kind({"initialization"})
        /\ Saved(att.cand) \/ Unsaved
        /\ UNCHANGED << running, runtime >>
     \/ /\ Dropping
        /\ Saved(NoState) \/ Unsaved
        /\ UNCHANGED << running, runtime >>
     \/ /\ Kind({"error"}) /\ ~ Dropping
        /\ Unsaved
        /\ UNCHANGED << running, runtime >>
  /\ att' = NoAttempt
  /\ history' = [ history EXCEPT !.lost = @ \cup Successor(store'), !.excused = @ \/ store' # store ]
  /\ UNCHANGED << provider, flow >>

---------------------------------------------------------------------------
(* The running entry.                                                      *)

\* _current_auth_state, and what _async_flush_pending_auth_state leaves behind.
Current == IF partial # NoState THEN partial ELSE boot
Flushed ==
  /\ store' = IF pending # NoState THEN pending ELSE store
  /\ pending' = NoState
FlushForgets == pending # NoState /\ pending' = NoState /\ UNCHANGED store

FlushFails == pending # NoState /\ UNCHANGED << store, pending >>

Goes(p, place, seen) == ops' = [ ops EXCEPT ![p] = [ at |-> place, seen |-> seen ] ]
Leaves(p) == Goes(p, "idle", NoState)
HasClient(p) == queue # << >> /\ Head(queue) = p

\* Under the renewal lock: write what could not be written, look at the state.
Enter(p) ==
  /\ running
  /\ ops[p].at = "idle"
  /\ renewal = Nobody
  /\ \/ /\ Flushed
        /\ Goes(p, "act", Current)
        /\ queue' = Append(queue, p)
     \/ FlushFails /\ UNCHANGED << ops, queue >>
  /\ UNCHANGED << att, provider, flow, running, session, boot, partial, renewal, history >>

\* What one request of the client can come to.  Without a session it is refused
\* at home; a refusal of either kind takes the client's session away.
Answers == {"fine", "refused", "failed"}
Served(answer) ==
  CASE answer = "fine" -> Complete(session) /\ Serves(session.g) /\ UNCHANGED << provider, session, history >>
    [] answer = "failed" -> Complete(session) /\ UNCHANGED << provider, session, history >>
    [] answer = "refused" ->
         /\ session' = NoState
         /\ IF Complete(session)
            THEN /\ Refuses(session.g)
                 /\ history' = [ history EXCEPT !.refused = @ \cup {session.g} ]
            ELSE UNCHANGED << provider, history >>

Act(p) ==
  /\ ops[p].at = "act"
  /\ HasClient(p)
  /\ queue' = Tail(queue)
  /\ \E answer \in Answers :
       /\ Served(answer)
       /\ CASE answer # "refused" -> Leaves(p)
            [] answer = "refused" /\ ops[p].seen # NoState -> Goes(p, "expired", ops[p].seen)
            [] OTHER -> IF p = "poll" THEN Goes(p, "rejected", NoState) ELSE Leaves(p)
  /\ UNCHANGED << att, store, flow, running, boot, partial, pending, renewal >>

\* async_authentication_rejected: memory is dropped, then the store if it lets.
Retires ==
  /\ boot' = NoState /\ partial' = NoState /\ pending' = NoState
  /\ store' \in { NoState, store }

\* The coordinator hears of it from the poll alone.
Rejected(p) == IF p = "poll" THEN Goes(p, "rejected", NoState) ELSE Leaves(p)

Replays(p) == p = "poll"

\* Another call may have renewed the session meanwhile.  A read is repeated, a
\* command is not.
GoesOn(p) ==
  IF Replays(p)
  THEN Goes(p, "again", NoState) /\ queue' = Append(queue, p)
  ELSE Leaves(p) /\ UNCHANGED queue

SameOnly(p) == Current = ops[p].seen

\* A state without platforms is to be completed whoever observed what.
MustRenew(p) == Current = ops[p].seen \/ ~ Complete(Current)

Expired(p) ==
  /\ ops[p].at = "expired"
  /\ renewal = Nobody
  /\ \/ FlushFails /\ Leaves(p) /\ UNCHANGED << boot, partial, renewal, queue >>
     \/ /\ Current = NoState
        /\ Retires
        /\ Rejected(p)
        /\ UNCHANGED << renewal, queue >>
     \/ /\ Current # NoState /\ MustRenew(p)
        /\ Flushed
        /\ renewal' = p
        /\ Goes(p, "renew", Current)
        /\ queue' = Append(queue, p)
        /\ UNCHANGED << boot, partial >>
     \/ /\ Current # NoState /\ ~ MustRenew(p)
        /\ Flushed
        /\ GoesOn(p)
        /\ UNCHANGED << boot, partial, renewal >>
  /\ UNCHANGED << att, provider, flow, running, session, history >>

\* refresh_session, once the client is free: the old session is given up first.
Renew(p) ==
  /\ ops[p].at = "renew"
  /\ HasClient(p)
  /\ att.stage = "idle"
  /\ LET a == [ NoAttempt EXCEPT !.caller = "renew", !.cand = ops[p].seen ]
     IN IF session \in { NoState, ops[p].seen }
        THEN att' = StartRenewal(a) /\ session' = NoState
        ELSE att' = Raised(a, "Configuration") /\ UNCHANGED session
  /\ UNCHANGED << provider, store, flow, running, boot, partial, pending, ops, renewal, queue, history >>

\* _async_publish_china_partial_state, before any platform is asked.
Publish ==
  /\ att.stage = "publish"
  /\ partial' = att.cand
  /\ boot' = NoState
  /\ \/ /\ store' = att.cand /\ pending' = NoState
        /\ att' = Platforms(att, att.cand)
     \/ /\ pending' = att.cand /\ UNCHANGED store
        /\ att' \in { Raised(att, "Network"), Raised(att, "Deadline") }
  /\ UNCHANGED << provider, flow, running, session, ops, renewal, queue, history >>

KeepsLock == UNCHANGED renewal

Unlocks == renewal' = Nobody

\* The end of _async_renew_session and of the locked section around it.
RenewalEnds(p) ==
  /\ renewal = p
  /\ HasClient(p)
  /\ Over("renew")
  /\ \/ /\ Kind({"authenticated"})
        /\ session' = att.cand /\ boot' = att.cand /\ partial' = NoState
        /\ \/ /\ store' = att.cand /\ pending' = NoState
              /\ IF Replays(p)
                 THEN Goes(p, "again", NoState) /\ queue' = Append(Tail(queue), p)
                 ELSE Leaves(p) /\ queue' = Tail(queue)
           \/ /\ pending' = att.cand /\ UNCHANGED store
              /\ Leaves(p) /\ queue' = Tail(queue)
     \/ /\ Kind({"error"}) /\ att.outcome.class \in {"Authentication", "Risk"}
        /\ Retires
        /\ Rejected(p)
        /\ queue' = Tail(queue)
        /\ UNCHANGED session
     \/ /\ Kind({"error"}) /\ att.outcome.class \notin {"Authentication", "Risk"}
        /\ Leaves(p)
        /\ queue' = Tail(queue)
        /\ UNCHANGED << store, session, boot, partial, pending >>
  /\ att' = NoAttempt
  /\ Unlocks
  /\ UNCHANGED << provider, flow, running, history >>

Again(p) ==
  /\ ops[p].at = "again"
  /\ HasClient(p)
  /\ queue' = Tail(queue)
  /\ \E answer \in Answers :
       /\ Served(answer)
       /\ IF answer = "refused"
          THEN Retires /\ Rejected(p)
          ELSE Leaves(p) /\ UNCHANGED << boot, partial, pending, store >>
  /\ UNCHANGED << att, flow, running, renewal >>

\* The deadline of a call passes while it waits for the client.
GivesUp(p) ==
  /\ ops[p].at \in {"act", "renew", "again"}
  /\ \E i \in 2 .. Len(queue) :
       /\ queue[i] = p
       /\ queue' = SubSeq(queue, 1, i - 1) \o SubSeq(queue, i + 1, Len(queue))
  /\ renewal' = IF renewal = p THEN Nobody ELSE renewal
  /\ Leaves(p)
  /\ UNCHANGED << att, provider, store, flow, running, session, boot, partial, pending, history >>

\* The coordinator retires once more, without looking what the state is now.
Report ==
  /\ ops["poll"].at = "rejected"
  /\ Retires
  /\ Leaves("poll")
  /\ history' = [ history EXCEPT !.told = TRUE ]
  /\ UNCHANGED << att, provider, flow, running, session, renewal, queue >>

---------------------------------------------------------------------------
(* The requests of an attempt with what they leave in the history, time    *)
(* and restarts.                                                           *)

RefusedNow ==
  \/ att'.outcome.class \in {"Authentication", "Risk"}
  \/ att'.outcome.kind = "risk"
  \/ att.stage \in {"check", "refresh"} /\ att'.stage \in {"refresh", "smsLogin", "smsRequest"}
  \/ att.stage = "refresh" /\ att'.outcome.kind = "verification"

\* The answer to an exchange was lost.
LostNow ==
  att.stage = "refresh" /\ provider'.issued # provider.issued /\ att'.stage = "ended"

Answered ==
  /\ AttemptStep
  /\ history' = Asks([ history EXCEPT
       !.lost    = @ \cup (IF LostNow THEN {att.cand.g} ELSE {}),
       !.refused = @ \cup (IF RefusedNow THEN {att.cand.g, store.g} ELSE {}) ])
  /\ UNCHANGED << store, flow, running, runtime >>

Older(s) == [ s EXCEPT !.asked = IF @ = "recent" THEN "old" ELSE @ ]

\* The interval after the last code passes.
IntervalPasses ==
  /\ history.asked
  /\ att' = [ att EXCEPT !.cand = Older(@) ]
  /\ store' = Older(store)
  /\ flow' = [ flow EXCEPT !.state = Older(@) ]
  /\ history' = [ history EXCEPT !.asked = FALSE ]
  /\ UNCHANGED << provider, running, runtime >>

\* Home Assistant stops, the entry is unloaded or the flow closed: memory is gone.
Restart ==
  /\ att # NoAttempt \/ running
  /\ att' = NoAttempt /\ flow' = NoFlow /\ running' = FALSE
  /\ session' = NoState /\ boot' = NoState /\ partial' = NoState /\ pending' = NoState
  /\ ops' = [ p \in Procs |-> [ at |-> "idle", seen |-> NoState ] ]
  /\ renewal' = Nobody /\ queue' = << >>
  /\ LET forgotten == [ history EXCEPT !.told = FALSE, !.excused = @ \/ att # NoAttempt,
                          !.lost = @ \cup Successor(store)
                                     \cup (IF Current.g # store.g THEN {store.g} ELSE {}) ]
     IN \/ /\ att.stage = "refresh" /\ Exchanges(att.cand.g)
           /\ history' = [ forgotten EXCEPT !.lost = @ \cup {att.cand.g} ]
        \/ UNCHANGED provider /\ history' = forgotten
  /\ UNCHANGED store

Works(p) == Act(p) \/ Expired(p) \/ Renew(p) \/ RenewalEnds(p) \/ Again(p) \/ GivesUp(p)

Next ==
  \/ SubmitAccount \/ SubmitCode \/ RetryInitialization \/ AbandonFlow \/ Setup
  \/ RouteResult \/ SetupEnds
  \/ Answered \/ Publish
  \/ \E p \in Procs : Enter(p) \/ Works(p)
  \/ Report
  \/ IntervalPasses \/ Restart

Spec == Init /\ [][Next]_vars

\* A request is answered or runs into its deadline, and both locks are first
\* come, first served.
Fairness ==
  /\ WF_vars(Answered) /\ WF_vars(Publish) /\ WF_vars(Report)
  /\ \A p \in Procs : SF_vars(Works(p))

FairSpec == Spec /\ Fairness

---------------------------------------------------------------------------
(* Properties.                                                             *)

\* The variables have their types; the platform sessions in use were opened with
\* the G-App pair they are kept with, and the client works with a whole session only.
NoMixedSession ==
  /\ TypeOK
  /\ \A s \in { store, boot, partial, pending, session, flow.state, att.cand } :
       s.down \in { 0, s.g }
  /\ session # NoState => Complete(session)

\* Whatever pair the running entry would renew from is in the store or waiting to
\* be written there: no failure after a rotation leaves it in memory alone.
RotatedPairHeld ==
  \A s \in { boot, partial } : s.g # 0 => s.g \in { store.g, pending.g }

\* What may be used once is: a refresh token is presented a second time only if its
\* successor never arrived or could not be stored before memory was lost; a code is
\* asked for by flows only, and again within the interval only if the last one is no
\* use or the record of it was lost.
NothingSpentTwice ==
  [][ /\ (att.stage # "refresh" /\ att'.stage = "refresh" /\ att'.cand.g \in provider.spent)
           => att'.cand.g \in history.lost
      /\ Asking => /\ att'.caller = "flow"
                   /\ ~ history.asked \/ history.excused \/ store' # store ]_vars

\* No stored pair is dropped that neither GWM nor a platform refused, unless the
\* user was asked to sign in before: failing platforms, transport and saves never
\* cost a sign-in.  (The coordinator retires a second time without looking; a
\* command that renewed in between loses its new pair to that.)
DroppedOnlyIfRefused ==
  [][ (store.g # 0 /\ store'.g = 0) => store.g \in history'.refused \/ history'.told ]_vars

\* What the README says of an interrupted initialization: a pair received at
\* setup is stored although the attempt failed without a refusal.
RotationKept ==
  [][ (SetupEnds /\ Kind({"error"}) /\ ~ Dropping) => store'.g = att.cand.g ]_vars

\* Every poll and command ends: the two locks are never waited for in a circle.
EveryCallEnds ==
  \A p \in Procs : (ops[p].at # "idle") ~> (ops[p].at = "idle")
=============================================================================
