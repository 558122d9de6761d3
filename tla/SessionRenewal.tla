---------------------------- MODULE SessionRenewal ---------------------------
(***************************************************************************)
(* The life of an overseas session in one GwmCloudClient: operations that   *)
(* run concurrently, the session renewal lock, the regional client with    *)
(* its request lock, the authentication state that waits to be saved, and  *)
(* the retirement of a rejected state by the runtime and by the coordinator.*)
(*                                                                         *)
(* A revision stands for one access and refresh token pair: number n is    *)
(* the n-th pair the cloud issued.  The requests of one operation are one  *)
(* request.  The store is what CloudStateContract promises: it serves its   *)
(* callers in the order they came and leaves the old or the new revision   *)
(* behind a failure.  The cloud is outside src/.                            *)
(***************************************************************************)
EXTENDS Naturals, Sequences

CONSTANTS Polls,         \* coordinator refreshes (reads)
          Reads,         \* other operations that may be repeated
          Writes,        \* operations that may not: remote commands
          MaxRevision,   \* bound: revisions the cloud issues
          NoState,       \* no authentication state, no session
          Nobody,        \* a lock is free
          ClearsSession, \* the region is ANZ or Russia
          Kinds,         \* how the cloud refuses an access token
          Faults         \* bound: failures, cancellations and restarts occur

Ops == Polls \cup Reads \cup Writes
Revision == 1..MaxRevision

ASSUME RevisionAssumption == MaxRevision \in Nat \ {0} /\ NoState \notin Nat
ASSUME OpsAssumption ==
    Nobody \notin Ops /\ Writes \cap (Polls \cup Reads) = {}
ASSUME KindsAssumption == Kinds \subseteq {"auth", "api"} /\ Kinds # {}
ASSUME FlagsAssumption == ClearsSession \in BOOLEAN /\ Faults \in BOOLEAN

VARIABLES latest,      \* the last revision the cloud issued
          honoured,    \* revisions whose access token it accepts
          refreshable, \* the revision whose refresh token it accepts
          session,     \* GwmClient._session
          wire,        \* holder of GwmClient._request_lock
          bootstrap,   \* GwmCloudClient._bootstrap
          pending,     \* GwmCloudClient._pending_auth_state
          gate,        \* holder of _session_renewal_lock
          stored,      \* the revision a restart would find
          queue,       \* operations in the account's store, first served first
          stage,       \* where each operation is
          observed,    \* observed_state
          using,       \* the revision it sends, refreshes or saves
          sends,       \* history: how often its request was sent
          asked,       \* Home Assistant asks the user to sign in again
          lost,        \* history: an issued revision never reached this process
          refused      \* history: revisions the cloud was seen to refuse

cloud == <<latest, honoured, refreshable>>
client == <<session, wire>>
runtime == <<bootstrap, pending, gate>>
disk == <<stored, queue>>
task == <<stage, observed, using, sends>>
vars == <<cloud, client, runtime, disk, task, asked, lost, refused>>

Maybe == Revision \cup {NoState}
(* What follows when the store acknowledged the save of such a stage.      *)
AfterSave == [flush |-> "observe", reflush |-> "decide", saving |-> "renewed"]
Saving == DOMAIN AfterSave
Clearing == {"retiring", "reporting"}
Stages == {"idle", "enter", "observe", "acting", "sent", "renew", "decide", "ready",
           "refreshing", "renewed", "retry", "resent"} \cup Saving \cup Clearing

TypeOK ==
    /\ latest \in Revision /\ honoured \subseteq Revision /\ refreshable \in Maybe
    /\ session \in Maybe /\ wire \in Ops \cup {Nobody}
    /\ bootstrap \in Maybe /\ pending \in Maybe /\ gate \in Ops \cup {Nobody}
    /\ stored \in Maybe /\ queue \in Seq(Ops)
    /\ stage \in [Ops -> Stages]
    /\ observed \in [Ops -> Maybe] /\ using \in [Ops -> Maybe]
    /\ sends \in [Ops -> Nat]
    /\ asked \in BOOLEAN /\ lost \in BOOLEAN /\ refused \subseteq Revision

Init ==
    /\ latest = 1 /\ honoured = {1} /\ refreshable = 1
    /\ session = 1 /\ wire = Nobody
    /\ bootstrap = 1 /\ pending = NoState /\ gate = Nobody
    /\ stored = 1 /\ queue = <<>>
    /\ stage = [o \in Ops |-> "idle"]
    /\ observed = [o \in Ops |-> NoState] /\ using = [o \in Ops |-> NoState]
    /\ sends = [o \in Ops |-> 0]
    /\ asked = FALSE /\ lost = FALSE /\ refused = {}

-----------------------------------------------------------------------------
(* Fragments of steps.                                                     *)

Goto(o, s) == stage' = [stage EXCEPT ![o] = s]

(* The operation ends, with a result or an error.                          *)
Leave(o) ==
    /\ Goto(o, "idle")
    /\ observed' = [observed EXCEPT ![o] = NoState]
    /\ using' = [using EXCEPT ![o] = NoState]
    /\ sends' = [sends EXCEPT ![o] = 0]

(* Mutant of Released: the lock is reset to the wrong empty value.         *)
ReleasedToNone(lock, o) == IF lock = o THEN NoState ELSE lock

Released(lock, o) == IF lock = o THEN Nobody ELSE lock

(* The store's queue without o, which waits in it at most once.            *)
Waits(o) == \E n \in 1..Len(queue) : queue[n] = o
Without(o) ==
    IF Waits(o)
    THEN LET place == CHOOSE n \in 1..Len(queue) : queue[n] = o
         IN  [n \in 1..Len(queue) - 1 |-> queue[IF n < place THEN n ELSE n + 1]]
    ELSE queue

(* A call of the store: it queues behind the calls before it.              *)
Save(o, r, s) ==
    /\ Goto(o, s)
    /\ using' = [using EXCEPT ![o] = r]
    /\ queue' = Append(queue, o)

(* async_authentication_rejected up to its await: called by the runtime    *)
(* ("retiring") or again by the coordinator ("reporting").                  *)
Retire(o, s) ==
    /\ bootstrap' = NoState /\ pending' = NoState
    /\ Goto(o, s)
    /\ queue' = Append(Without(o), o)
    /\ UNCHANGED <<observed, using, sends>>

(* What an operation does when its access token was refused.               *)
Expired(o, kind) ==
    \/ /\ stage[o] \in {"acting", "sent"}
       /\ observed[o] # NoState
       /\ Goto(o, "renew")
       /\ UNCHANGED <<bootstrap, pending, queue, observed, using, sends>>
    \/ /\ stage[o] \in {"acting", "sent"}
       /\ observed[o] = NoState
       /\ o \in Polls /\ kind = "auth"
       /\ Retire(o, "reporting")
    \/ /\ stage[o] \in {"acting", "sent"}
       /\ observed[o] = NoState
       /\ ~(o \in Polls /\ kind = "auth")
       /\ Leave(o)
       /\ UNCHANGED <<bootstrap, pending, queue>>
    \/ /\ stage[o] \in {"retry", "resent"}
       /\ Retire(o, "retiring")

-----------------------------------------------------------------------------
(* The two passes through the renewal lock.                                *)

Begin(o) ==
    /\ stage[o] = "idle"
    /\ Goto(o, "enter")
    /\ UNCHANGED <<cloud, client, runtime, disk, observed, using, sends, asked, lost, refused>>

(* Mutant of TakeGate: what waits to be saved is not saved first.          *)
TakeGateUnflushed(o) ==
    /\ stage[o] \in {"enter", "renew"}
    /\ gate = Nobody
    /\ gate' = o
    /\ Goto(o, IF stage[o] = "enter" THEN "observe" ELSE "decide")
    /\ UNCHANGED <<cloud, client, bootstrap, pending, disk, observed, using, sends,
                   asked, lost, refused>>

TakeGate(o) ==
    /\ stage[o] \in {"enter", "renew"}
    /\ gate = Nobody
    /\ gate' = o
    /\ IF pending # NoState
       THEN Save(o, pending, IF stage[o] = "enter" THEN "flush" ELSE "reflush")
       ELSE Goto(o, IF stage[o] = "enter" THEN "observe" ELSE "decide") /\ UNCHANGED <<queue, using>>
    /\ UNCHANGED <<cloud, client, bootstrap, pending, stored, observed, sends, asked, lost, refused>>

(* The state is remembered and the lock left before the request.           *)
Observe(o) ==
    /\ stage[o] = "observe"
    /\ observed' = [observed EXCEPT ![o] = bootstrap]
    /\ gate' = Nobody
    /\ Goto(o, "acting")
    /\ UNCHANGED <<cloud, client, bootstrap, pending, disk, using, sends, asked, lost, refused>>

(* Mutant of Decide: renew what was observed, not what is current.         *)
DecideBlind(o) ==
    /\ stage[o] = "decide"
    /\ using' = [using EXCEPT ![o] = observed[o]]
    /\ Goto(o, "ready")
    /\ UNCHANGED <<cloud, client, runtime, disk, observed, sends, asked, lost, refused>>

(* Whether another operation already renewed or retired what this one saw. *)
Decide(o) ==
    /\ stage[o] = "decide"
    /\ \/ /\ bootstrap = NoState
          /\ Retire(o, "retiring")
          /\ gate' = Nobody
       \/ /\ bootstrap # NoState /\ bootstrap = observed[o]
          /\ using' = [using EXCEPT ![o] = bootstrap]
          /\ Goto(o, "ready")
          /\ UNCHANGED <<runtime, queue, observed, sends>>
       \/ /\ bootstrap # NoState /\ bootstrap # observed[o]
          /\ Goto(o, "renewed")
          /\ UNCHANGED <<runtime, queue, observed, using, sends>>
    /\ UNCHANGED <<cloud, client, stored, asked, lost, refused>>

(* Mutant of Conclude: every operation is repeated.                        *)
ConcludeRepeating(o) ==
    /\ stage[o] = "renewed"
    /\ gate' = Nobody
    /\ Goto(o, "retry")
    /\ UNCHANGED <<cloud, client, bootstrap, pending, disk, observed, using, sends, asked,
                   lost, refused>>

(* The lock is left; only an operation that may be repeated is repeated.   *)
Conclude(o) ==
    /\ stage[o] = "renewed"
    /\ gate' = Nobody
    /\ IF o \in Writes
       THEN Leave(o)
       ELSE Goto(o, "retry") /\ UNCHANGED <<observed, using, sends>>
    /\ UNCHANGED <<cloud, client, bootstrap, pending, disk, asked, lost, refused>>

-----------------------------------------------------------------------------
(* The regional client.                                                    *)

Send(o) ==
    /\ stage[o] \in {"acting", "retry"}
    /\ wire = Nobody /\ session # NoState
    /\ wire' = o
    /\ using' = [using EXCEPT ![o] = session]
    /\ sends' = [sends EXCEPT ![o] = @ + 1]
    /\ Goto(o, IF stage[o] = "acting" THEN "sent" ELSE "resent")
    /\ UNCHANGED <<cloud, session, runtime, disk, observed, asked, lost, refused>>

(* Without a session the client refuses by itself.                         *)
SendRefused(o) ==
    /\ stage[o] \in {"acting", "retry"}
    /\ wire = Nobody /\ session = NoState
    /\ Expired(o, "auth")
    /\ UNCHANGED <<cloud, client, gate, stored, asked, lost, refused>>

Served(o) ==
    /\ stage[o] \in {"sent", "resent"}
    /\ using[o] \in honoured
    /\ wire' = Nobody
    /\ Leave(o)
    /\ UNCHANGED <<cloud, session, runtime, disk, asked, lost, refused>>

Refused(o, kind) ==
    /\ stage[o] \in {"sent", "resent"}
    /\ using[o] \notin honoured
    /\ refused' = refused \cup {using[o]}
    /\ wire' = Nobody
    /\ session' = IF ClearsSession /\ kind = "auth" THEN NoState ELSE session
    /\ Expired(o, kind)
    /\ UNCHANGED <<cloud, gate, stored, asked, lost>>

(* _refresh_overseas_session: the session must still be the one to renew.  *)
SendRefresh(o) ==
    /\ stage[o] = "ready"
    /\ wire = Nobody
    /\ \/ /\ session = using[o]
          /\ wire' = o
          /\ Goto(o, "refreshing")
          /\ UNCHANGED <<runtime, queue, observed, using, sends>>
       \/ /\ session # using[o]
          /\ Retire(o, "retiring")
          /\ gate' = Nobody
          /\ UNCHANGED wire
    /\ UNCHANGED <<cloud, session, stored, asked, lost, refused>>

(* The cloud spends the refresh token and issues the next revision.        *)
Issued(n) ==
    /\ latest' = n /\ refreshable' = n
    /\ honoured' = honoured \cup {n}

(* Mutant of Refreshed: an answer that came in time is thrown away.        *)
RefreshedDiscarding(o) ==
    /\ stage[o] = "refreshing"
    /\ using[o] = refreshable /\ latest < MaxRevision
    /\ Issued(latest + 1)
    /\ wire' = Nobody /\ gate' = Nobody
    /\ Leave(o)
    /\ UNCHANGED <<session, bootstrap, pending, disk, asked, lost, refused>>

(* The new pair is installed in the client, kept by the runtime and saved. *)
Refreshed(o) ==
    /\ stage[o] = "refreshing"
    /\ using[o] = refreshable /\ latest < MaxRevision
    /\ Issued(latest + 1)
    /\ session' = latest + 1 /\ wire' = Nobody
    /\ bootstrap' = latest + 1 /\ pending' = latest + 1
    /\ Save(o, latest + 1, "saving")
    /\ UNCHANGED <<gate, stored, observed, sends, asked, lost, refused>>

(* The answer was lost, came too late or was discarded with the operation. *)
RefreshLost(o) ==
    /\ Faults
    /\ stage[o] = "refreshing"
    /\ using[o] = refreshable /\ latest < MaxRevision
    /\ Issued(latest + 1)
    /\ wire' = Nobody /\ gate' = Nobody
    /\ lost' = TRUE
    /\ Leave(o)
    /\ UNCHANGED <<session, bootstrap, pending, disk, asked, refused>>

(* Mutant of RefreshRefused: the renewal lock is never left.               *)
RefreshRefusedHolding(o) ==
    /\ stage[o] = "refreshing"
    /\ using[o] # refreshable
    /\ refused' = refused \cup {using[o]}
    /\ session' = NoState /\ wire' = Nobody
    /\ Retire(o, "retiring")
    /\ UNCHANGED <<cloud, gate, stored, asked, lost>>

RefreshRefused(o) ==
    /\ stage[o] = "refreshing"
    /\ using[o] # refreshable
    /\ refused' = refused \cup {using[o]}
    /\ session' = NoState /\ wire' = Nobody
    /\ Retire(o, "retiring")
    /\ gate' = Nobody
    /\ UNCHANGED <<cloud, stored, asked, lost>>

-----------------------------------------------------------------------------
(* The store, first come first served.                                     *)

Turn(o) == queue # <<>> /\ Head(queue) = o

(* _async_flush_pending_auth_state: what was saved no longer waits, unless *)
(* it was retired meanwhile.                                               *)
Saved(o) ==
    /\ Turn(o) /\ stage[o] \in Saving
    /\ stored' = using[o]
    /\ queue' = Tail(queue)
    /\ pending' = IF pending = using[o] THEN NoState ELSE pending
    /\ Goto(o, AfterSave[stage[o]])
    /\ UNCHANGED <<cloud, client, bootstrap, gate, observed, using, sends, asked, lost, refused>>

(* Mutant of SaveFails: a failed save is forgotten.                        *)
SaveFailsForgetting(o) ==
    /\ Faults
    /\ stage[o] \in Saving
    /\ stored' \in IF Turn(o) THEN {stored, using[o]} ELSE {stored}
    /\ queue' = Without(o)
    /\ pending' = NoState
    /\ gate' = Nobody
    /\ Leave(o)
    /\ UNCHANGED <<cloud, client, bootstrap, asked, lost, refused>>

(* The save failed, or its caller was cancelled in or before its turn.     *)
SaveFails(o) ==
    /\ Faults
    /\ stage[o] \in Saving
    /\ stored' \in IF Turn(o) THEN {stored, using[o]} ELSE {stored}
    /\ queue' = Without(o)
    /\ gate' = Nobody
    /\ Leave(o)
    /\ UNCHANGED <<cloud, client, bootstrap, pending, asked, lost, refused>>

(* The state was cleared, or clearing it failed and the error was          *)
(* suppressed; the rejection then reaches the coordinator of a poll, which *)
(* retires again, whatever the runtime uses by now.                        *)
Cleared(o) ==
    /\ Turn(o) /\ stage[o] \in Clearing
    /\ stored' \in IF Faults THEN {stored, NoState} ELSE {NoState}
    /\ \/ /\ stage[o] = "retiring" /\ o \in Polls
          /\ Retire(o, "reporting")
          /\ UNCHANGED asked
       \/ /\ stage[o] = "retiring" /\ o \notin Polls
          /\ Leave(o)
          /\ queue' = Tail(queue)
          /\ UNCHANGED <<bootstrap, pending, asked>>
       \/ /\ stage[o] = "reporting"
          /\ Leave(o)
          /\ queue' = Tail(queue)
          /\ asked' = TRUE
          /\ UNCHANGED <<bootstrap, pending>>
    /\ UNCHANGED <<cloud, client, gate, lost, refused>>

-----------------------------------------------------------------------------
(* A network failure, a deadline or a cancellation ends the operation; a   *)
(* refresh abandoned here never reached the cloud.                         *)
Abandon(o) ==
    /\ Faults
    /\ stage[o] \in {"enter", "acting", "sent", "renew", "ready", "refreshing", "retry", "resent"}
    /\ gate' = Released(gate, o)
    /\ wire' = Released(wire, o)
    /\ Leave(o)
    /\ UNCHANGED <<cloud, session, bootstrap, pending, disk, asked, lost, refused>>

(* An access token expires, or the account signs in elsewhere.             *)
Expire(r) ==
    /\ r < MaxRevision /\ r \in honoured
    /\ honoured' = honoured \ {r}
    /\ UNCHANGED <<latest, refreshable, client, runtime, disk, task, asked, lost, refused>>

Revoke ==
    /\ latest < MaxRevision
    /\ refreshable' = NoState /\ honoured' = {}
    /\ UNCHANGED <<latest, client, runtime, disk, task, asked, lost, refused>>

Quiet == \A o \in Ops : stage[o] = "idle"

(* The user signs in again: a new revision is stored and the entry is      *)
(* loaded with it.                                                         *)
SignIn ==
    /\ asked /\ Quiet /\ latest < MaxRevision
    /\ Issued(latest + 1)
    /\ session' = latest + 1 /\ bootstrap' = latest + 1 /\ stored' = latest + 1
    /\ pending' = NoState
    /\ asked' = FALSE /\ lost' = FALSE
    /\ UNCHANGED <<wire, gate, queue, task, refused>>

(* The process starts again with the stored revision.                      *)
Restart ==
    /\ Faults
    /\ session' = stored /\ bootstrap' = stored /\ pending' = NoState
    /\ wire' = Nobody /\ gate' = Nobody /\ queue' = <<>>
    /\ stage' = [o \in Ops |-> "idle"]
    /\ observed' = [o \in Ops |-> NoState] /\ using' = [o \in Ops |-> NoState]
    /\ sends' = [o \in Ops |-> 0]
    /\ asked' = (stored = NoState)
    /\ lost' = (lost \/ stored # bootstrap)
    /\ UNCHANGED <<cloud, stored, refused>>

Step(o) ==
    \/ TakeGate(o) \/ Observe(o) \/ Decide(o) \/ Conclude(o)
    \/ Send(o) \/ SendRefused(o) \/ Served(o) \/ \E kind \in Kinds : Refused(o, kind)
    \/ SendRefresh(o) \/ Refreshed(o) \/ RefreshLost(o) \/ RefreshRefused(o)
    \/ Saved(o) \/ SaveFails(o) \/ Cleared(o)

Next ==
    \/ \E o \in Ops : Begin(o) \/ Step(o) \/ Abandon(o)
    \/ \E r \in Revision : Expire(r)
    \/ Revoke \/ SignIn \/ Restart

Spec == Init /\ [][Next]_vars

(* Both locks wake their waiters in order, so no waiter is passed over for *)
(* ever; every other await of an operation ends; the coordinator polls     *)
(* again and again.                                                        *)
Fairness ==
    /\ \A o \in Ops : WF_vars(Step(o)) /\ SF_vars(TakeGate(o)) /\ SF_vars(Send(o))
    /\ \A o \in Ops : SF_vars(SendRefresh(o))
    /\ \A o \in Polls : WF_vars(Begin(o))

FairSpec == Spec /\ Fairness

-----------------------------------------------------------------------------
(* What the runtime uses is what a restart finds, unless it still waits to *)
(* be saved: a rotation, a retirement and a failed save of several         *)
(* operations never leave the two apart unnoticed.                         *)
DurableInUse ==
    bootstrap # NoState /\ pending = NoState => stored = bootstrap

(* A command is sent at most once and a read repeated at most once,        *)
(* whatever expires or is renewed on the way (_async_with_session_renewal). *)
RepeatsBounded ==
    \A o \in Ops : sends[o] <= IF o \in Writes THEN 1 ELSE 2

WithinBounds == TypeOK /\ RepeatsBounded

(* A refresh token is not sent twice: the one that goes out belongs to the *)
(* last revision issued, unless that one never reached this process.       *)
RefreshesTheLatest ==
    [][\A o \in Ops :
          stage'[o] = "refreshing" /\ stage[o] # "refreshing" =>
              using[o] = latest \/ lost]_vars

(* No operation starts on a revision that a restart would not find: the    *)
(* rotated pair is saved before the next request of the operation.         *)
SavedBeforeUse ==
    [][\A o \in Ops :
          <<stage[o], stage'[o]>> \in {<<"observe", "acting">>, <<"renewed", "retry">>} =>
              bootstrap \in {stored, NoState}]_vars

(* The runtime retires only a revision that the cloud refused.             *)
RuntimeRetiresRefused ==
    [][\A o \in Ops :
          stage[o] # "retiring" /\ stage'[o] = "retiring" =>
              bootstrap \in refused' \cup {NoState}]_vars

(* "A rejected access token now triggers one serialized refresh ... and    *)
(* asks for reauthentication only when GWM rejects the refresh": the first *)
(* refusal of a revision that can be renewed does not retire it.           *)
RenewalBeforeReauth ==
    [][\A o \in Ops :
          stage[o] # "retiring" /\ stage'[o] = "retiring" =>
              \/ bootstrap = NoState
              \/ refreshable # bootstrap
              \/ stage[o] \in {"retry", "resent"}]_vars

(* "Home Assistant requests reauthentication instead of repeatedly using   *)
(* an expired session."                                                    *)
RetirementReported == bootstrap = NoState ~> (asked \/ bootstrap # NoState)

(* Every operation that began ends.                                        *)
EveryOperationEnds == \A o \in Ops : stage[o] # "idle" ~> stage[o] = "idle"
=============================================================================
