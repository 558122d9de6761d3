# Formal models of the GWM ORA integration

`gwm_ora` connects Home Assistant to the GWM vehicle cloud (EU, ANZ, Russia and
China). Its Python is a few thousand lines of asyncio control around four things
that must not be lost or repeated: an authentication state whose refresh token
is spent by every use, a journal of remote commands, a record of the charging
plans the integration owns, and the entry that ties them to one account. The
modules here model that control in TLA+. TLC checks them on small instances and
TLAPS proves the results listed under *What is proved* for every instance.

Paths below are relative to `src/custom_components/gwm_ora/`.

## 1. The system

| Part | Code | State it keeps | Operations | Talks to |
|---|---|---|---|---|
| Private durable store | `cloud_storage.py` | one record per account (context, authentication, journal of 100 commands, owned plans), its memory copy, a lock | load/save/clear authentication, record/update command, set/remove/read plans, remove | Home Assistant's `Store`, the file system |
| Session renewal | `cloud_runtime.py` `GwmCloudClient` | `_bootstrap`, `_pending_auth_state`, `_session_renewal_lock` | every operation through `_async_with_session_renewal`, `async_authentication_rejected`, `_async_publish_auth_state` | protocol client, store, coordinator |
| Overseas protocol client | `gwm_client/client.py` | `_session`, `_session_revision`, `_request_lock` | requests, refresh, close | the cloud |
| Regional authentication | `gwm_client/{eu,anz,russia}_auth.py`, `cloud_auth.py` | a login or refresh in progress | resume, refresh, read the profile, enrol a certificate, log in, ask for and verify a code, claim an ANZ session | the cloud |
| China authentication and client | `gwm_client/china_client.py`, `cloud_runtime.py` | a G-App pair, the sessions of two platforms, the partial state, a plan cache | SMS sign-in, exchange, initialise the platforms, discover, resume, vehicle operations | the cloud |
| China transports | `gwm_client/china_transport.py`, `china_gtsp.py` | connections | route policies, signing, framing | the cloud |
| Command journal and polling | `cloud_commands.py` `GwmCommandApi`, `coordinator.py` | `_commands`, polling tasks | send, record, poll, time out, restore, cancel | cloud client, store |
| Climate settings | `cloud_commands.py`, `climate.py` | `_climate_defaults`, the requested target, China's remembered setting | start, stop, preset, temperature, run time | cloud client, GWM's stored setting, the official app |
| Charging plans | `cloud_commands.py`, `gwm_client/charging.py` | owned plans in the store, the NavInfo cache | set, confirm, clear, clean up after opt-out | cloud client, store, the official app (same plan) |
| BeanTech charging | `beantech_charging.py`, numbers, selects, switches, times | what each entity read last, confirmed limits and departures, locks and generations | read, edit, post, callback, cancel | cloud client, the car, the official app |
| Config entry lifecycle | `__init__.py`, handoff of `cloud_runtime.py` | entry data, runtime data, staged bootstraps with a five minute expiry | setup, unload, reload, remove | all of the above |
| Config, reauth, reconfigure, options flows | `config_flow.py`, `cloud_auth.py` | a dialog | restore, authenticate, verify, reclaim, initialise, publish, finish | store, cloud, handoff, entry |
| Coordinator | `coordinator.py` | last snapshot, command tasks | poll, track command, cancel tasks | cloud client |
| Values and views | `gwm_client/{snapshots,china_status,commands}.py`, entities, `diagnostics.py` | none or a view | mapping | coordinator |

What is hard here is never one function. It is two coroutines between two
awaits (a poll that renews while a command is refused, an unload while an
acceptance is being recorded, a plan of the official app between the look of the
clean-up and its clear), a write that reached the disk although its caller was
told otherwise, an answer that is lost after GWM has acted, a cancellation while
a lock is held, a process that ends anywhere, and a flow that changes the record
of an entry which is still running.

Correct means, part by part:

* **Store.** What an operation reported done is what a restart finds; no
  operation computes its record from a stale one; a result that was reported is
  not undone; one context's plans and commands are never found under another;
  every call returns.
* **Session renewal.** A refresh token is sent once; the rotated pair is on disk
  before it is used; a command is sent at most once, a read at most twice; only
  a session the cloud refused is retired; the user is asked to sign in exactly
  then; nobody waits for ever.
* **Authentication.** Codes are not asked for again within the interval; nobody
  is signed in unasked; a session is dropped only when GWM refused it; one whose
  refresh token is spent is not taken for good; a certificate is used only for the
  gwId it was issued to.
* **China.** A rotated G-App pair is held from the moment it is received, though
  the platforms fail; it is presented once; platform sessions of one pair are never
  kept with another.
* **Commands.** What a user saw of a command a restart finds; a result is true
  and there is one; every polling task ends, and ends before its transport; a
  request passes the route policy, and its result is asked for where it is.
* **Climate.** A start uses what the user was told is saved, and a setting that
  was saved can be sent.
* **Charging plans.** A plan of the integration is recorded so that the clean-up
  recognises it; a plan of the official app is not cleared but by the race nobody
  can exclude; the clean-up ends.
* **BeanTech charging.** Editing one field of the setting leaves the others; what
  is shown as confirmed is in effect; in the end every entity shows what the car
  has.
* **Entry and flows.** A session is used only under the account it belongs to; a
  staged session is consumed once; a restart finds what the entry uses; the
  session a flow obtained is the one the next setup uses.

`PROJECT.json` lists every hazard of this code at its line, with the property
that covers it or the reason none does.

## 2. The modules

| Module | Models | Role |
|---|---|---|
| `CloudRecord` | the record and what each operation makes of it | pure operators, used by the next three |
| `CloudStateContract` | what the store promises: a committed and a durable record | abstract specification |
| `CloudStorage` | `GwmCloudStateStore` with its lock, file, confirmation, cancellation and restart | detailed specification |
| `SessionRenewal` | `GwmCloudClient` and the overseas client under concurrent operations | component |
| `CommandJournal` | `GwmCommandApi`, the coordinator's polling tasks, unload and setup | component over the store's contract |
| `EntryLifecycle` | `__init__.py`, the handoff, the config flows | composition of entry, flow and store |
| `AuthAttempt` | one overseas authentication attempt: its state, its answers, its ends | shared operators |
| `EuAuth`, `AnzAuth`, `RussiaAuth` | the steps of a region | actions, used by the next |
| `RegionalAuth` | flows, setup and renewal that start attempts and keep their results | composition of the regions and their callers |
| `ChinaAuth` | one China attempt: pair, platforms, SMS | actions, used by the next |
| `ChinaSession` | flows, setup and the running entry of a China account | composition of attempt, runtime and store |
| `ChargingPlan` | the plan at GWM, its record, the clean-up, the NavInfo cache | component |
| `ClimateControl` | the A/C setting and the commands that use it | component |
| `BeanTechCharging` | the charging entities, the client's lock, the car | component |
| `ChinaCommands` | the controls of a China vehicle from entity to result | pure operators and a short protocol |
| `VehicleServices` | `GwmCommandApi` of one vehicle | composition of the last four: plan, climate, charging entities, remote controls |
| `ServicesProofs` | | TLAPS proofs about `ClimateControl`, `BeanTechCharging` and `ChinaCommands` |
| other `*Proofs` | | TLAPS proofs about the module they are named for |
| `MC*` | | small instances for TLC; `MCOverseas` puts several components side by side, `MCServices` runs each of `VehicleServices` |

An operator whose comment calls it a *mutant* is a plausible bug kept beside the
operator it would replace; no specification uses one. With it in place the
property named for it in `PROJECT.json` fails.

### CloudStorage
One caller is one coroutine inside a method of the store. Its stages are the
points where that coroutine can be suspended or fail: waiting for the lock,
loading, saving, confirming, unlinking. `disk` is the file, `record`, `loaded`
and `invalid` the fields of the object. `Write` is the moment the new bytes
reach the file, `Confirm` the read-back that `_async_save_confirmed` requires,
`ConfirmFails` the `OSError`. `Cancel` follows `_async_save`: before the lock is
held a cancelled caller leaves at once, during a save it is marked and leaves
after the save with the lock. What each method computes is `Saved(rec, invalid,
req)` of `CloudRecord`; an illegal call is `Rejected`. `Restart` forgets the
object and keeps the file. The history variables `known` and `owner` remember
what any caller was told of an entry and which context wrote it.

The contract has two variables. `Attempt` is a record that reached the disk,
`Settle` the moment it is acknowledged, or found by a restart, `Erase` a
deletion. The refinement reads `committed` as the memory copy, or the decoded
file when none is loaded.

### SessionRenewal
A revision is one access and refresh token pair. An operation runs through the
stages of `_async_with_session_renewal`: take the renewal lock, flush the pending
state, observe the state, release, send; on expiry take the lock again, flush,
and decide between the session another operation renewed meanwhile and a refresh;
save, release, repeat a read. Both locks are held over awaits exactly where the
code does. Store calls queue; a failed save leaves the old or the new revision.
The stage `reporting` is the coordinator's second call of
`async_authentication_rejected` before its `ConfigEntryAuthFailed`, which sets
`asked`. `ClearsSession` is the region: in ANZ
and Russia the client drops its session on the first refusal.

### CommandJournal
A service call is sent, recorded and followed; a follower sleeps, marks the
command as polling, reads the provider and settles it. `memory` is what an API
object shows, `committed` and `durable` are the contract's. `CancelTasks`,
`Close` and `Load` are the unload and the next setup; `Crash` the end of the
process. A follower cancelled during a save ends after it (`leavingMark`,
`leavingSettle`) if the save succeeds; if it fails, the error is raised in place of
the cancellation (`cloud_commands.py:568`), the loop of the task catches it, and the
task sleeps and polls on (`NotUpdated`). `awaited` are the tasks the unload joins:
`Close` waits for them, for such a task up to its deadline, and for no task that
started meanwhile.

### EntryLifecycle
Here the store answers in one step and a renewal is one step; what is left
are the interleavings of a setup (consume or load, validate, save, first
refresh), the running client, a reload, removal, restart, and a flow that restores,
authenticates, publishes and finishes. A context is account, terms and password.
The store compares all three, the state's own binding only the first two.

### AuthAttempt, EuAuth, AnzAuth, RussiaAuth, RegionalAuth
A stage of `att` is the request an attempt waits for; each action answers one
request with every class of answer the decoders tell apart (status and code), and
ends the attempt in a result or an error, or goes on to the next request after the
region's route policy let it out. GWM is kept honest in two respects only: an
access token that was refused stays refused, a refresh token is exchanged once.
An answer may be lost after GWM acted. `RegionalAuth` adds the callers: the
account, verification and reclaim steps of a flow with what each does with a
result, `_async_load_cloud_bootstrap`, a renewal; and the clock, which may be set
back. `history.excused` says that the client cannot know when a code was last asked
for, or that the last one is no use any more: its answer or its save was lost, it
was rejected, the clock was set back, or a setup or a renewal replaced or dropped
what the store held, a continuation included. ANZ is modelled in both of its
protocols.

### ChinaAuth, ChinaSession
The same for mainland China, where a pair is exchanged first and the two
platforms are opened from it. `Platform` retries as `_MAX_INIT_ATTEMPTS` allows;
two platforms may fail at once. `Publish` is the callback that hands a rotated
pair to the runtime before any platform is asked; `partial`, `pending` and `boot`
are the runtime's three places for a state. The poll and one command share the
client's request lock (`queue`, first come first served) and the renewal lock.
The tokens of the platforms are one field named by the pair they were opened
with, which is what the code's consistency depends on.

### ChargingPlan
A call is at the request, at the save, at the confirming read or at the second
save; each can fail, and the request can be applied with its answer lost. The
clean-up looks, clears and forgets in three steps. Overseas GWM keeps the plan
as sent, with an id; NavInfo keeps clock times, which the client reads as a plan
of the day of reading and caches until it wrote one itself. `history.excused`
says that the plan at GWM could not be recorded (answer lost, save failed, memory
lost, another call in progress); `cleanup.raced` that a plan was set after the look.
The services leave the week days out, so a record of ours has none, while the
NavInfo client names the day of what it sets and reads (`RepeatTimes`): on NavInfo
`Matches` never holds, a call finds no id to confirm and the clean-up clears
nothing.

### ClimateControl
`async_set_climate` reads, resolves and saves the setting and sends the command.
Everything between the last read and the next request is one step. GWM's read
model (`answer`) lags behind the stored setting; `saved` overlays it. The checks
of `ClimateCommand` and of the two China transports are operators, and
`WireRange` compares them with what the resolution can produce.

### BeanTechCharging
Each entity has a read and a write in progress at most. An answer is dropped
if the generation (`gen`) changed, that is a write began, since it was asked for. A write of one field reads and posts the whole setting under the
client's lock. GWM queues writes, the car applies them later, results are polled
and may be reported in any order.

### ChinaCommands
The request tables of the client, the route policies of the transport and the
tables of the result query as operators on one vocabulary of controls; a short
protocol builds, journals, asks and takes an answer.

## 3. What TLC checks

| Run | Question | Instance |
|---|---|---|
| `storage_journal` | Does the store implement its contract with failing writes, cancellation and restarts, and does the journal lose or undo anything? | 2 callers, 3 commands, journal of 2 |
| `storage_context` | Can a context find another one's commands or plans, and does every call return? | 2 callers, 2 contexts, 1 command, 1 plan, fair |
| `entry_safety` | Are sessions used under their own account, handoffs consumed once, and does a restart find what runs? | 3 contexts, 2 revisions |
| `overseas_client` | `SessionRenewal`: the session in use durable, refreshed once, saved before use, only a refused one retired, every operation ends. `CommandJournal`: every polling task and every unload ends | a poll and a command over 3 revisions, ANZ/Russia; 1 command, 3 setups; fair |
| `command_results` | Are results durable, unique and true? | 2 commands in a journal of 1, 2 setups |
| `regional_auth` | Codes, sign-ins, spent sessions, certificates and dropped sessions of every overseas region | 2 gwIds, 3 pairs, a clock of 3 ticks, an interval of 2 |
| `china_session` | Is a rotated pair held, presented once, dropped only when refused, and does every call end? | 2 platforms, 2 pairs, 2 tries, a poll and a command, fair |
| `services` | `VehicleServices`, one service per behaviour | 2 plan calls, 1 hour, 2 days, 2 plans, overseas and NavInfo; 2 climate calls of 3 begun on ANZ, BeanTech and NavInfo; the charging window and the limit with 2 edits, failing reads, reloads or changes by the app, the departure time (one of 2) and heating with 3; every control with at most 2 messages; fair |
| `session_direct_reauth`, `session_unreported`, `command_orphan`, `entry_handoff` | the four disagreements of section 5 | |

`overseas_client` and `services` hold components that abstract from each other:
a selector chosen at first says which of them runs, the others stand still, so a
run is the union of the separate checks and each property speaks of its own part.

**Bounds.** Two callers are enough for the store: the lock admits one, and a
third only waits behind the second. A journal of two with three commands reaches
a full journal and the loss of its oldest entry; 100 is the same code. Three
revisions are one renewal more than one operation can cause, so an operation
meets a session renewed since it looked; a third operation (413 000 states,
without liveness) and an EU client gave the same result, and the proofs hold for
any number. Two commands over a journal of one give
the eviction of an entry that is still polled; two setups give the old
coordinator beside the new one, three a restored poll that is restored again.
Two accounts, one of them under two passwords, give every way a flow can differ
from the entry it changes; two revisions are the running session and the new one
(with three, 8.0 million states, the result was the same). Three overseas token
pairs are a login, a refresh and a login after it; two gwIds are the identity a
state was made for and another; an interval of two ticks over a clock of three
has a code that is too early, in time and from before the clock was set back. Two
China pairs are a pair and its successor, two tries a retry and the last failure
(the code has three); the safety properties were also run with three pairs, 3.0
million states, with the same result. Two plan calls give two services that interleave, two days a repeated plan
that is read on another day, two plans ours and the app's in either order.
Events of others are bounded in BeanTech so that the car comes to rest at all;
two are an edit
of the app and a read that failed, in any order. `Faults` switches failures,
cancellations and restarts off where a disagreement needs none.

**Deadlock** is checked for the store and the client of `overseas_client`. It is allowed
where everything may be over: commands that ended, revisions, pairs, plans, days
or setups that are used up.

**Fairness.** `asyncio.Lock` wakes its waiters in the order they came, so a
waiter is not overtaken for ever: strong fairness of the acquisition. Every other
await of a served coroutine completes with a result or an error: weak fairness of
its steps (executor jobs end, requests have timeouts and a deadline). The
coordinator polls periodically: weak fairness of `Begin` of polls, of `Poll` and
of the entities' updates. A polling task compares its deadline after every
interval: strong fairness of `GiveUp`. The unload goes on when the tasks it joins
have ended: weak fairness of `Close`. The charging clean-up is repeated by every
poll; that it ends needs more, namely that its read, its clear and its save
succeed now and then: strong fairness of their successful outcomes, and only
`CleanupEnds` uses it. That a BeanTech car gets to its orders is weak fairness of
`Apply`. Elsewhere success, the user, the vehicle's answer and renewals at the
cloud are never assumed.

## 4. What is proved

All for every value of the constants under the named assumptions of the modules
(`MaxCommandsAssumption`, `RevisionAssumption`, `ContextAssumption`, `PlanBounds`,
`ServiceBounds`, ...), which say that bounds are positive, that sentinels are no
ordinary values and what the user can choose from.

`CloudStorageProofs`
* `TypeCorrect`: `Spec => []TypeOK`. The work is in the operators: carrying a
  record to a context, pushing and updating a journal entry return records.
* `MutualExclusion`: a caller past the acquisition holds the lock, and it is the
  only one, cancelled callers included.
* `StorageImplementsContract`: `Spec => ContractHolds`. While a caller holds the
  lock nobody else changes the memory copy, so the record it computed before its
  write is still computed from the committed one when the write lands; each
  step then is an `Attempt`, a `Settle`, an `Erase` or a stutter.
* `ContextsStayApart`, `JournalOnlyAdvances`, `KnownEntriesKept`: the three
  properties of records. What the store computes from a record keeps the record's
  context, moves no state back and drops an entry only from a full journal; the
  lock invariant makes it the committed record it is computed from.

`EntryLifecycleProofs` proves the four invariants of the entry in
`entry_safety` from one inductive invariant, `IInv`. `SessionOfItsAccount`
alone is not inductive: a handoff may legitimately hold a session of another
account (the unload stages the old session under the new name), so the invariant
needs that everything outside the handoff is bound to the context beside it
(`Bound`, `Records`), that no revision is mentioned before it was issued
(`Known`; later issues must not change its context), which context variables mean
something in which mode (`Shape`), that the entry's handoff is spent once its
setup has left `loading` (`Clean`) and that the record holds what is used from
the save on (`Same`). Theorems: `TypeCorrect`, `SessionsBound`, `HandoffSpent`,
`RestartResumes`.

`ChargingPlanProofs` proves the three safety properties of the charging plan, for
any number of calls, hours, days and plans. `OwnPlanRecorded` speaks of the
moments when no call is in progress; in between a plan of ours is *on its way*
into the record (`OnItsWay`): a call at its save carries it, or the record already
matches it, and no other call will overwrite or remove it. That last part holds
because a plan set while another call or the clean-up was in progress is excused,
and because nothing can begin while the clean-up works: it runs after an opt-out
only, and the reload that opts out closes the client of every call
(`OptedOut`, `Undisturbed`). `RecordOutlivesPlan` follows from `Gone`: what the
clean-up reads overseas is the plan GWM holds, so it goes to remove a record only
if that plan does not match. `ForeignPlanKept` needs that what the clean-up goes to
clear overseas is what it saw there (`Sure`), and that on NavInfo neither the cache
nor GWM ever has a plan without week days, nor a record one with them (`Unlike`),
so that the clean-up goes to clear nothing. Theorems: `TypeCorrect`, `OwnPlanIsRecorded`,
`RecordsOutlivePlans`, `ForeignPlansAreKept`.

`ChinaSessionProofs` proves the two invariants of the China session. Neither is
inductive. `RotatedPairHeld` needs to know that what waits to be written is of the
pair in use (else a late write would bring the older pair back, `Held`), that a
stopped entry keeps nothing in memory and that flows and setup authenticate only
then, while only a running entry renews (`Apart`). `NoMixedSession` needs that an
attempt at a stage has what the stage uses: both parts of a session where it checks
or exchanges one, the pair where it opens platforms (`StageOf`); the lemmas
`WaysToEnd`, `WaysToGoOn` and `AttemptKept` carry this through every answer of GWM.
Theorems: `Invariant` (the inductive invariant), `SessionsUnmixed` (type
correctness included), `PairHeld`.

It proves the two action properties of the session as well, which speak of what
happened before: which tokens were spent, which answers were lost,
what was refused and when a code was sent. The invariant, `HInv`, ties that history
to memory, attempt and store. A pair still held was not spent, or its successor was
lost (`SpentInv`); what a call would renew from is what the client works with, or
the call will see that it is not (`Working`, `Observed`), because at most two calls
stand in line for the client and one renews (`InLine`); what was refused is known
to the attempt that may drop it (`Refusals`, `Turned`, `Excluded`); a code sent
within the interval is remembered by the store or the attempt, or is excused because
nothing told the client that it was sent (`AskedInv`). What an answer leaves is
described once, by `Led`. The parts of the invariant held on the `china_session`
instance before they were proved. Theorems: `HistoryInvariant`, `UsedOnce`,
`DropsRefusedOnly`.

`SessionRenewalProofs` proves the three safety properties of the renewal and the
bounds on repetition. One operation at a time is between the two passes of the
renewal lock and one waits for the cloud, so what an operation decided to renew is
what is in use until it is renewed or retired (`SessionInv`, `PendingOf`). The
store's lock is a queue; the lemmas about it (`AppendLists`, `TailLists`) show that
a waiting retirement is never behind the save of the revision in use, which is why
it can not erase it. Theorems: `TypeCorrect`, `WhatIsUsedIsDurable`,
`TokensSentOnce`, `SavedBeforeRequests`, `RetiresWhatWasRefused`.

`CommandJournalProofs` proves what a user sees of commands. What a restart would
take from the record (`Restored`) covers what every runtime shows, on disk as in
memory (`Covers`): a state only moves along the transitions of the code, an entry
only leaves a full journal, a command is new to all of them until it is recorded.
The lemmas about `Restored` say what adding and updating an entry make of it. Two
runtimes that poll one command agree for the same reason: a result cannot be
changed in the record. Theorems: `TypeCorrect`, `ShownIsDurable`, `ResultsAreTrue`.

`RegionalAuthProofs` proves the three invariants and the three action properties
of an overseas attempt and its callers. What an answer leaves is described once for
all regions, by `Follows` (one lemma per request, from `EuUserInfoFollows` to
`RussiaLoginInfoFollows`, and `InterruptedFollows` for an attempt that is cut off),
and what a start leaves by `Starts`; the invariants are kept by those two and by
what the callers store. None is inductive. `NoSpentSession` needs that only a pair
whose access token GWM refused is ever exchanged, so that a session GWM still
serves has its refresh token (`SpentInv`); `CodesSpaced` that what is stored, held
by the flow and worked on remembers the last code unless it is excused
(`SpacedInv`); `DroppedOnlyIfRefused` that a continuation is stored without a
session (`FlowInv`) and that an attempt knows what was refused (`RefusedInv`);
`NoUnaskedLogin` that the consent of the user reaches as far as the attempt
(`ConsentInv`). Theorems: `AttemptsAreWellFormed`,
`CertificatesStayWithTheirAccount`, `ResumedSessionsCanRenew`, `CodesAreSpaced`,
`LoginsAreAskedFor`, `SessionsAreDroppedWhenRefused`.

`ServicesProofs` proves the safety properties of `VehicleServices`, which puts the
services of a vehicle side by side: the charging plan as it is, `ClimateControl` as
`C`, `BeanTechCharging` as `B` and `ChinaCommands` as `P`. The run `services` checks
the same definitions. What the models assume of their constants is `ServiceBounds`
(`Bounds` of `C` and of `B`): that the user's choices are in the ranges of the
entities, that what GWM or the car holds has its types, that there is a departure
time where heating is armed.

* Climate (`CInv`). A resolved setting can be sent (`Outgoing`): what is remembered
  is in the range of the platform already, what GWM holds is brought into it
  (`KnownFits`, `ResolvedFits`). For `SavedSettingsUsed` the invariant says what the
  user was told is what is saved as long as no call that saves is past its update or
  overlaps another (`Told`), and what a call that is alone goes on with
  (`Brought`); a call that is alone is the only one (`Single`). Theorems:
  `ClimateInvariant`, `SettingsCanBeSent`, `StartsUseWhatWasTold`.
* BeanTech (`BInv`). `OthersKept` needs that one write at a time is between its read
  and its post (`OneWrites`: the client's lock), that what such a write read is still
  the setting in effect unless something is pending (`FreshPost`), and that an order
  made from it is the next of the queue to change the setting (`FreshOrder`).
  `ConfirmedShown` needs the order of edits, orders and results of one value
  (`Numbered`), that the newest result is of what is in effect (`Confirming`), that a
  confirmed value has no order behind it (`HasConfirmed`), and that heating is not
  armed behind the order of another departure (`Behind`); all of it as long as the
  value is not in doubt, which is when another hand wrote it or a result was given
  up. Theorems: `ChargingInvariant`, `ConfirmedIsInEffect`, `OtherFieldsKept`.
* Remote controls (`PInv`). A control is looked up by the name the journal kept, so
  the proof goes through all that is offered, group by group (`Routed`): the route
  its request takes is the one its name tells. `StateTaken` says that what is read of
  a list of messages, of any length, is said of the command. `EveryRequestFits` walks
  the same groups through the validators of the transport, operation by operation,
  with every body the client builds (`ByOperation`, `BuiltFits`). Theorems:
  `EndsWithItsAnswer`, `EveryRequestFits`.
* All of them: `ServicesAreWellFormed`, `Services => []WellFormed`, from the theorems
  above and `TypeCorrect` of `ChargingPlanProofs`. `Services` lets the services
  interleave as they like, where `services` runs one per behaviour: they share no
  variable.

So the safety of every component a passing run checks is proved as well.

Only model-checked: liveness (`EveryCallReturns`, `EveryOperationEnds`, `FollowersEnd`,
`EveryCallEnds`, `CleanupEnds`, `ShownCatchesUp`) and whatever else needs `ENABLED`, both
out of this prover's reach, and the four disagreements of the next section, which are
counterexamples.

## 5. Where code and documentation disagree

Four runs expect a violation:

1. `session_direct_reauth`. `CHANGELOG.md` promises that a rejected access token
   triggers one refresh and that the user is asked to sign in only when the
   refresh is refused. In ANZ and Russia the client drops its session at the
   first refusal (`gwm_client/client.py:1450`), so the refresh is never sent.
2. `session_unreported`. The README promises a reauthentication request when a
   renewal is refused. When the renewal of a read that is no poll, or its retry with
   the renewed session, is rejected, the state is retired and the caller keeps the
   error to itself; the polls after it find no state, fail with the expiry code,
   which asks nobody, and do so for ever.
3. `command_orphan`. Decision D-058 requires that unload joins every polling task
   before the transport closes. A call whose acceptance is being recorded during
   the unload starts its polling task afterwards.
4. `entry_handoff`. A flow stages its new session and schedules a reload; the
   unload of the running entry stages the old session over it. The next setup
   resumes the old one, or fails if the account changed.

Others are stated in the modules as properties that fail; TLC shows a trace when
one of them is put into the `.cfg` of its run:

* `RotationKept` (`ChinaSession`). The README of the repository (line 290) says an
  interrupted initialization keeps the completed G-App session. When the deadline
  of a setup passes after the pair was rotated (`gwm_client/china_client.py:577`),
  the error carries no state and nothing is saved; the next start finds a spent
  pair and the user needs a new code.
* `ExactPlanCleared` (`ChargingPlan`, NavInfo). The README (line 183) says the
  clean-up is retried only while that exact plan is still present. On NavInfo the
  record has no week days and what is read always names some
  (`gwm_client/china_client.py:1483`), and on a later day the start differs too: the
  record never matches, not even on the day it was written, and the first clean-up
  forgets it with the plan in force.
* `NoSettingLost` (`ClimateControl`). The README (line 146) says a saved value
  applies to the next start. Two saves that overlap, one of the temperature and
  one of the run time, each store the pair they resolved from what they read; the
  second undoes the first.
* `TargetShown` (`ClimateControl`). The target of the climate entity
  (`climate.py:81`) stays at what was requested there after another entity saved
  a different temperature.

Seen while modelling, and part of the models without a property: a polling task
whose save fails as the unload cancels it goes on to its result or its deadline
(130 or 310 seconds), the unload waits for it, and its callback is called although
`coordinator.py:250` says never after cancellation; a removal of the store that is
cancelled after the unlink is undone by the next save; the coordinator's second
retirement wipes a session that another operation renewed in between; an operation
that waits for the request lock while a save fails is sent with the pair that is not
yet on disk (`SavedBeforeUse` speaks of operations that start); the official app's
plan is lost if it comes between the clean-up's look and its clear; a setting that
was saved overlays GWM's for as long as the process lives, also after the official
app changed it; China's remembered setting is lost on a reload; a second edit of
the BeanTech window before the car applied the first one posts the old value of
the first field again; heating can be armed with a departure that was chosen
before another one.

## 6. Left out

* Cryptography, signing, certificates, TLS, GTSP framing and field mappings:
  conversions whose correctness is a matter of bytes, not of control.
* Snapshots and `china_status.py`: pure tables from provider fields to values; a
  model would repeat them.
* Diagnostics (reads and redacts) and the command line probes (developer tools).
* The battery-heating switches and the comfort select: the pattern of reads,
  writes, callbacks and generations is the one of `BeanTechCharging`.
* The table of vehicles that a failed discovery empties: the poll reports the
  error and the next one fills it again.
* The rule of the options flow that keeps or requires the PIN, and the overlay of
  command states on a snapshot: single expressions without state.
* A flow that stays open while the entry of a China account is loaded: the meeting
  of flow and entry is `EntryLifecycle`, which knows no regions.

Next would be: `OverseasClient` with deadlines and closing, refining the one-step
requests of `SessionRenewal`.
