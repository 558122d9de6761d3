---------------------------- MODULE EntryLifecycle ---------------------------
(***************************************************************************)
(* One config entry through its setups, reloads and removal, beside a      *)
(* config flow that signs in again: __init__.py, config_flow.py and the    *)
(* in-memory handoff of cloud_runtime.py.                                  *)
(*                                                                         *)
(* A context is what a user configures: an account, the terms (region,     *)
(* country, ANZ method) and a password.  A revision is one authenticated   *)
(* session; number n is the n-th the cloud issued.  The store answers each *)
(* call in one step (CloudStorage has its inside) and a failed call leaves *)
(* the record alone; the renewal inside a running client is one step too   *)
(* (SessionRenewal).  Home Assistant and the cloud are outside src/.       *)
(* A flow finishes while no setup of the entry runs: a bound, not a rule.  *)
(* The states of China that are complete only in part are not modelled.    *)
(***************************************************************************)
EXTENDS Naturals, Sequences

CONSTANTS Contexts,    \* records [account, terms, password]
          MaxRevision, \* bound: revisions the cloud issues
          NoContext,   \* no entry
          NoRecord,    \* no file
          NoState,     \* no authentication
          Faults       \* bound: failures and restarts occur

Accounts == {c.account : c \in Contexts}
Revision == 1..MaxRevision
Maybe == Revision \cup {NoState}

ASSUME RevisionAssumption == MaxRevision \in Nat \ {0} /\ NoState \notin Nat
ASSUME ContextAssumption ==
    /\ Contexts \subseteq [account : Accounts, terms : {c.terms : c \in Contexts},
                           password : {c.password : c \in Contexts}]
    /\ NoContext \notin Contexts

VARIABLES issued,     \* the context each revision was issued to, in order
          honoured,   \* revisions the cloud accepts
          disk,       \* the record of each account
          handoff,    \* the staged bootstrap of each account
          configured, \* the entry's data
          mode,       \* where the entry is
          reload,     \* a reload is scheduled
          client,     \* the revision the setup or the running client uses
          served,     \* the context that client saves under
          unsaved,    \* its last renewal could not be saved
          flow,       \* where the config flow is
          asked,      \* the context the user entered
          found,      \* the revision the flow restored or obtained
          leaving,    \* the account whose store the flow still has to delete
          promised,   \* history: the revision a finished flow staged
          touched     \* history: a flow changed the record of the running entry

cloud == <<issued, honoured>>
entry == <<configured, mode, reload>>
running == <<client, served, unsaved>>
dialog == <<flow, asked, found, leaving>>
vars == <<cloud, disk, handoff, entry, running, dialog, promised, touched>>

Modes == {"absent", "loading", "validating", "saving", "refreshing", "loaded",
          "waiting", "failed", "error"}
Flows == {"idle", "restoring", "authenticating", "publishing", "finishing", "removing"}
Stored == [context : Contexts, auth : Maybe]

TypeOK ==
    /\ issued \in Seq(Contexts) /\ Len(issued) <= MaxRevision
    /\ honoured \subseteq 1..Len(issued)
    /\ disk \in [Accounts -> Stored \cup {NoRecord}]
    /\ handoff \in [Accounts -> Maybe]
    /\ configured \in Contexts \cup {NoContext} /\ mode \in Modes /\ reload \in BOOLEAN
    /\ client \in Maybe /\ served \in Contexts \cup {NoContext} /\ unsaved \in BOOLEAN
    /\ flow \in Flows /\ asked \in Contexts \cup {NoContext} /\ found \in Maybe
    /\ leaving \in Accounts \cup {NoContext}
    /\ promised \in Maybe /\ touched \in BOOLEAN

Init ==
    /\ issued = <<>> /\ honoured = {}
    /\ disk = [a \in Accounts |-> NoRecord] /\ handoff = [a \in Accounts |-> NoState]
    /\ configured = NoContext /\ mode = "absent" /\ reload = FALSE
    /\ client = NoState /\ served = NoContext /\ unsaved = FALSE
    /\ flow = "idle" /\ asked = NoContext /\ found = NoState /\ leaving = NoContext
    /\ promised = NoState /\ touched = FALSE

-----------------------------------------------------------------------------
(* Fragments.                                                              *)

Holding(c, r) == [disk EXCEPT ![c.account] = [context |-> c, auth |-> r]]

(* async_load_auth_state: another context's record is discarded.           *)
AfterLoad(c) ==
    IF disk[c.account] # NoRecord /\ disk[c.account].context # c
    THEN Holding(c, NoState) ELSE disk

Found(c) ==
    IF disk[c.account] # NoRecord /\ disk[c.account].context = c
    THEN disk[c.account].auth ELSE NoState

(* The state's own binding, which the store compares with the credentials. *)
Fits(r, c) == issued[r].account = c.account /\ issued[r].terms = c.terms

(* One more revision for this context, spending those in the set.          *)
Issue(c, spent) ==
    /\ Len(issued) < MaxRevision
    /\ issued' = Append(issued, c)
    /\ honoured' = (honoured \ spent) \cup {Len(issued) + 1}

(* stage_cloud_bootstrap under the entry's unique id, if there is one to   *)
(* reuse.                                                                  *)
StagedAgain ==
    IF client = NoState THEN handoff
    ELSE [handoff EXCEPT ![configured.account] = client]

(* Mutant of Stop: no client and no entry are confused.                    *)
StopConfused(m) ==
    mode' = m /\ client' = NoContext /\ served' = NoContext /\ unsaved' = FALSE

Stop(m) == mode' = m /\ client' = NoState /\ served' = NoContext /\ unsaved' = FALSE

-----------------------------------------------------------------------------
(* Setup.                                                                  *)

Setup(m, r) ==
    /\ mode' = m /\ client' = r /\ served' = configured /\ unsaved' = FALSE
    /\ promised' = NoState

(* Mutants of Consume: what is consumed stays staged; it is not compared   *)
(* with the account; it is used before it is saved.                        *)
ConsumeKeeping ==
    /\ mode = "loading" /\ handoff[configured.account] # NoState
    /\ IF Fits(handoff[configured.account], configured)
       THEN Setup("saving", handoff[configured.account])
       ELSE Stop("failed") /\ promised' = NoState
    /\ UNCHANGED <<cloud, disk, handoff, configured, reload, dialog, touched>>

ConsumeBlind ==
    /\ mode = "loading" /\ handoff[configured.account] # NoState
    /\ handoff' = [handoff EXCEPT ![configured.account] = NoState]
    /\ Setup("saving", handoff[configured.account])
    /\ UNCHANGED <<cloud, disk, configured, reload, dialog, touched>>

ConsumeUnsaved ==
    /\ mode = "loading" /\ handoff[configured.account] # NoState
    /\ handoff' = [handoff EXCEPT ![configured.account] = NoState]
    /\ IF Fits(handoff[configured.account], configured)
       THEN Setup("refreshing", handoff[configured.account])
       ELSE Stop("failed") /\ promised' = NoState
    /\ UNCHANGED <<cloud, disk, configured, reload, dialog, touched>>

(* A staged session is taken, once, and saved before it is used; one of    *)
(* another account or country is refused.                                  *)
Consume ==
    /\ mode = "loading" /\ handoff[configured.account] # NoState
    /\ handoff' = [handoff EXCEPT ![configured.account] = NoState]
    /\ IF Fits(handoff[configured.account], configured)
       THEN Setup("saving", handoff[configured.account])
       ELSE Stop("failed") /\ promised' = NoState
    /\ UNCHANGED <<cloud, disk, configured, reload, dialog, touched>>

LoadStored ==
    /\ mode = "loading" /\ handoff[configured.account] = NoState
    /\ disk' = AfterLoad(configured)
    /\ IF Found(configured) = NoState
       THEN Stop("failed") /\ promised' = NoState
       ELSE Setup("validating", Found(configured))
    /\ UNCHANGED <<cloud, handoff, configured, reload, dialog, touched>>

LoadFails ==
    /\ Faults
    /\ mode = "loading" /\ handoff[configured.account] = NoState
    /\ Stop("waiting") /\ promised' = NoState
    /\ UNCHANGED <<cloud, disk, handoff, configured, reload, dialog, touched>>

(* The stored session is accepted as it is, or renewed; no login.          *)
Validated ==
    /\ mode = "validating" /\ client \in honoured
    /\ \/ UNCHANGED <<cloud, client>>
       \/ Issue(configured, {client}) /\ client' = Len(issued) + 1
    /\ mode' = "saving"
    /\ UNCHANGED <<disk, handoff, configured, reload, served, unsaved, dialog, promised, touched>>

(* It is refused, or wants a confirmation that a setup cannot give: it is  *)
(* retired and the user is asked to sign in.                               *)
ValidationRefused ==
    /\ mode = "validating"
    /\ \/ disk' = Holding(configured, NoState) /\ Stop("failed")
       \/ Faults /\ Stop("error") /\ UNCHANGED disk
    /\ UNCHANGED <<cloud, handoff, configured, reload, dialog, promised, touched>>

(* A transport failure, maybe after the cloud spent what was sent.         *)
ValidationFails ==
    /\ Faults
    /\ mode = "validating"
    /\ honoured' \in {honoured, honoured \ {client}}
    /\ Stop("waiting")
    /\ UNCHANGED <<issued, disk, handoff, configured, reload, dialog, promised, touched>>

SaveSession ==
    /\ mode = "saving"
    /\ disk' = Holding(configured, client)
    /\ touched' = FALSE
    /\ mode' = "refreshing"
    /\ UNCHANGED <<cloud, handoff, configured, reload, running, dialog, promised>>

SaveSessionFails ==
    /\ Faults
    /\ mode = "saving"
    /\ Stop("error")
    /\ UNCHANGED <<cloud, disk, handoff, configured, reload, dialog, promised, touched>>

(* The first refresh and the platforms.                                    *)
Refreshed ==
    /\ mode = "refreshing" /\ client \in honoured
    /\ mode' = "loaded"
    /\ UNCHANGED <<cloud, disk, handoff, configured, reload, running, dialog, promised, touched>>

(* They failed: what can be reused is staged for the next attempt.         *)
RefreshFails ==
    /\ Faults
    /\ mode = "refreshing"
    /\ handoff' = StagedAgain
    /\ Stop("waiting")
    /\ UNCHANGED <<cloud, disk, configured, reload, dialog, promised, touched>>

-----------------------------------------------------------------------------
(* The running client.                                                     *)

(* A renewal; if the save fails the new revision waits to be saved.        *)
Renew ==
    /\ mode \in {"refreshing", "loaded"} /\ client \in honoured
    /\ Issue(served, {client})
    /\ client' = Len(issued) + 1
    /\ \/ disk' = Holding(served, Len(issued) + 1) /\ unsaved' = FALSE
       \/ Faults /\ unsaved' = TRUE /\ UNCHANGED disk
    /\ UNCHANGED <<handoff, entry, served, dialog, promised, touched>>

(* async_authentication_rejected: during the first refresh it ends the     *)
(* setup, later the entry stays loaded and asks the user to sign in.       *)
Rejected ==
    /\ mode \in {"refreshing", "loaded"} /\ client # NoState /\ client \notin honoured
    /\ \/ disk' = Holding(served, NoState)
       \/ Faults /\ UNCHANGED disk
    /\ IF mode = "refreshing" THEN Stop("failed")
       ELSE client' = NoState /\ unsaved' = FALSE /\ UNCHANGED <<mode, served>>
    /\ UNCHANGED <<cloud, handoff, configured, reload, dialog, promised, touched>>

-----------------------------------------------------------------------------
(* Reload, retry, removal, restart.                                        *)

(* The options flow, or the user.                                          *)
ReloadScheduled ==
    /\ mode = "loaded" /\ ~reload
    /\ reload' = TRUE
    /\ UNCHANGED <<cloud, disk, handoff, configured, mode, running, dialog, promised, touched>>

(* async_unload_entry, then setup.                                         *)
Unload ==
    /\ mode = "loaded" /\ reload
    /\ handoff' = StagedAgain
    /\ Stop("loading")
    /\ reload' = FALSE
    /\ UNCHANGED <<cloud, disk, configured, dialog, promised, touched>>

SetupAgain ==
    /\ mode \in {"waiting", "failed", "error"}
    /\ mode' = "loading" /\ reload' = FALSE
    /\ UNCHANGED <<cloud, disk, handoff, configured, running, dialog, promised, touched>>

(* The entry is unloaded if it runs, and its private state deleted.        *)
Remove ==
    /\ mode \in {"loaded", "waiting", "failed", "error"}
    /\ handoff' = StagedAgain
    /\ \/ disk' = [disk EXCEPT ![configured.account] = NoRecord]
       \/ Faults /\ UNCHANGED disk
    /\ Stop("absent")
    /\ configured' = NoContext /\ reload' = FALSE
    /\ flow' = "idle" /\ asked' = NoContext /\ found' = NoState /\ leaving' = NoContext
    /\ promised' = NoState /\ touched' = FALSE
    /\ UNCHANGED cloud

(* The five minutes of a staged session are over.                          *)
Expire(a) ==
    /\ handoff[a] # NoState
    /\ handoff' = [handoff EXCEPT ![a] = NoState]
    /\ promised' = NoState
    /\ UNCHANGED <<cloud, disk, entry, running, dialog, touched>>

Restart ==
    /\ Faults
    /\ handoff' = [a \in Accounts |-> NoState]
    /\ Stop(IF configured = NoContext THEN "absent" ELSE "loading")
    /\ reload' = FALSE
    /\ flow' = "idle" /\ asked' = NoContext /\ found' = NoState /\ leaving' = NoContext
    /\ promised' = NoState
    /\ UNCHANGED <<cloud, disk, configured, touched>>

(* The account signs in elsewhere, or the session ends.                    *)
Revoke(r) ==
    /\ r \in honoured
    /\ honoured' = honoured \ {r}
    /\ UNCHANGED <<issued, disk, handoff, entry, running, dialog, promised, touched>>

-----------------------------------------------------------------------------
(* The config flow: user, reauth and reconfigure.                          *)

Mine(c) == configured # NoContext /\ c.account = configured.account

Submit(c) ==
    /\ flow = "idle"
    /\ flow' = "restoring" /\ asked' = c
    /\ UNCHANGED <<cloud, disk, handoff, entry, running, found, leaving, promised, touched>>

(* _async_restore_cloud_state, before anything is authenticated.           *)
Restore ==
    /\ flow = "restoring"
    /\ disk' = AfterLoad(asked)
    /\ found' = Found(asked)
    /\ touched' = (touched \/ (Mine(asked) /\ disk' # disk))
    /\ flow' = "authenticating"
    /\ UNCHANGED <<cloud, handoff, entry, running, asked, leaving, promised>>

(* The restored session is still accepted, or renewed, or the user logs    *)
(* in, which ends other sessions of the account where only one is allowed. *)
Authenticated ==
    /\ flow = "authenticating"
    /\ \/ found \in honoured /\ UNCHANGED <<cloud, found>>
       \/ /\ Issue(asked, {r \in honoured : issued[r].account = asked.account})
             \/ Issue(asked, {found})
          /\ found' = Len(issued) + 1
    /\ flow' = "publishing"
    /\ UNCHANGED <<disk, handoff, entry, running, asked, leaving, promised, touched>>

(* A verification or a confirmation is needed: the incomplete state is     *)
(* saved, with which no setup authenticates.                               *)
Continue ==
    /\ flow = "authenticating"
    /\ disk' = Holding(asked, NoState)
    /\ found' = NoState
    /\ touched' = (touched \/ Mine(asked))
    /\ UNCHANGED <<cloud, handoff, entry, running, flow, asked, leaving, promised>>

Publish ==
    /\ flow = "publishing"
    /\ disk' = Holding(asked, found)
    /\ touched' = (touched \/ Mine(asked))
    /\ flow' = "finishing"
    /\ UNCHANGED <<cloud, handoff, entry, running, asked, found, leaving, promised>>

EndFlow(stage) == flow' = stage /\ asked' = NoContext /\ found' = NoState

(* Refused, failed, aborted or given up.                                   *)
Abandon ==
    /\ flow \in {"restoring", "authenticating", "publishing"}
    /\ EndFlow("idle")
    /\ UNCHANGED <<cloud, disk, handoff, entry, running, leaving, promised, touched>>

(* The rest of _async_finish_cloud up to its next await: the session is    *)
(* staged, the entry updated and its setup or reload scheduled.            *)
Finish ==
    /\ flow = "finishing" /\ mode \in {"absent", "loaded", "waiting", "failed", "error"}
    /\ handoff' = [handoff EXCEPT ![asked.account] = found]
    /\ promised' = found
    /\ configured' = asked
    /\ IF mode = "loaded" THEN reload' = TRUE /\ UNCHANGED mode
       ELSE mode' = "loading" /\ reload' = FALSE
    /\ IF configured # NoContext /\ configured.account # asked.account
       THEN leaving' = configured.account /\ EndFlow("removing")
       ELSE EndFlow("idle") /\ UNCHANGED leaving
    /\ UNCHANGED <<cloud, disk, running, touched>>

RemoveOld ==
    /\ flow = "removing"
    /\ \/ disk' = [disk EXCEPT ![leaving] = NoRecord]
       \/ Faults /\ UNCHANGED disk
    /\ leaving' = NoContext /\ flow' = "idle"
    /\ UNCHANGED <<cloud, handoff, entry, running, asked, found, promised, touched>>

Next ==
    \/ Consume \/ LoadStored \/ LoadFails \/ Validated \/ ValidationRefused \/ ValidationFails
    \/ SaveSession \/ SaveSessionFails \/ Refreshed \/ RefreshFails
    \/ Renew \/ Rejected
    \/ ReloadScheduled \/ Unload \/ SetupAgain \/ Remove \/ Restart
    \/ \E a \in Accounts : Expire(a)
    \/ \E r \in Revision : Revoke(r)
    \/ \E c \in Contexts : Submit(c)
    \/ Restore \/ Authenticated \/ Continue \/ Publish \/ Abandon \/ Finish \/ RemoveOld

Spec == Init /\ [][Next]_vars

-----------------------------------------------------------------------------
(* A session is used and stored only under the account and country it was  *)
(* issued to, although the unload of an entry that moved to another        *)
(* account stages the old session under the new one's name.                *)
SessionOfItsAccount ==
    /\ client # NoState => Fits(client, served)
    /\ \A a \in Accounts :
          disk[a] # NoRecord /\ disk[a].auth # NoState => Fits(disk[a].auth, disk[a].context)

(* A staged session is consumed exactly once: a running entry with no      *)
(* reload pending has none left, so that a session it retires later is not *)
(* found by a later setup.                                                 *)
NoStaleHandoff ==
    mode = "loaded" /\ ~reload => handoff[configured.account] = NoState

(* What a running entry uses is what a restart finds under the entry's own *)
(* data, through any series of renewals, failed saves, reloads, moves to   *)
(* other accounts and restarts; unless its last renewal still waits to be  *)
(* saved, or a sign-in that was not finished changed the record.           *)
RestartFindsRunning ==
    mode = "loaded" /\ ~reload /\ client # NoState /\ ~unsaved /\ ~touched =>
        disk[configured.account] = [context |-> configured, auth |-> client]

(* "A successful config, reauth, or reconfigure flow stages one validated  *)
(* regional session for immediate entry setup": the setup that follows a   *)
(* finished flow uses that session.                                        *)
FlowSessionUsed ==
    [][mode = "loading" /\ mode' # mode /\ promised # NoState /\ configured' = configured =>
          client' = promised]_vars
=============================================================================
