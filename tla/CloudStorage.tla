----------------------------- MODULE CloudStorage ----------------------------
(***************************************************************************)
(* GwmCloudStateStore of cloud_storage.py: the owner of one account's      *)
(* record, its asyncio lock, the lazily loaded memory copy and the write   *)
(* that is confirmed against the disk before it is published in memory.    *)
(*                                                                         *)
(* A caller is one asyncio task inside one method of the store.  Steps     *)
(* that do not await are one action; every await is a place where another  *)
(* caller, a cancellation or the end of the process may come between.      *)
(***************************************************************************)
EXTENDS CloudRecord

CONSTANTS Callers,
          Offered,   \* bound: the methods called in this instance
          Damaged,   \* a file whose data does not decode
          Nobody,    \* the lock is free
          NoRequest  \* the caller is in no method

ASSUME CallerAssumption == Nobody \notin Callers
ASSUME ContextAssumption == NoRecord \notin Contexts
ASSUME DamagedAssumption == Damaged \notin Record \cup {NoRecord}

VARIABLES disk,      \* the file's content
          record,    \* self._record
          loaded,    \* self._loaded
          invalid,   \* self._invalid_loaded_data
          lock,      \* holder of self._lock
          stage,     \* where each caller is
          request,   \* what it asked for
          pending,   \* the record its save task writes
          cancelled, \* it was cancelled while its save task runs
          known,     \* history: last state of an entry some caller was told
          owner      \* history: the context an entry or a plan was written in

memory == <<record, loaded, invalid>>
history == <<known, owner>>
vars == <<disk, memory, lock, stage, request, pending, cancelled, history>>

Stages == {"idle", "waiting", "locked", "writing", "confirming", "unlinked"}
Unknown == "unknown"

RemoveRequest == [op : {"remove"}, ctx : Contexts]
AnyRequest == Request \cup RemoveRequest

Decoded(content) == IF content = Damaged THEN NoRecord ELSE content

-----------------------------------------------------------------------------

TypeOK ==
    /\ disk \in Record \cup {NoRecord, Damaged}
    /\ record \in Record \cup {NoRecord}
    /\ loaded \in BOOLEAN /\ invalid \in BOOLEAN
    /\ lock \in Callers \cup {Nobody}
    /\ stage \in [Callers -> Stages]
    /\ request \in [Callers -> AnyRequest \cup {NoRequest}]
    /\ pending \in [Callers -> Record \cup {NoRecord}]
    /\ cancelled \in [Callers -> BOOLEAN]
    /\ known \in [JournalIds -> CommandStates \cup {Unknown}]
    /\ owner \in [JournalIds \cup Plans -> Contexts \cup {NoRecord}]

Init ==
    /\ disk \in {NoRecord, Damaged}
    /\ record = NoRecord /\ loaded = FALSE /\ invalid = FALSE
    /\ lock = Nobody
    /\ stage = [c \in Callers |-> "idle"]
    /\ request = [c \in Callers |-> NoRequest]
    /\ pending = [c \in Callers |-> NoRecord]
    /\ cancelled = [c \in Callers |-> FALSE]
    /\ known = [j \in JournalIds |-> Unknown]
    /\ owner = [x \in JournalIds \cup Plans |-> NoRecord]

-----------------------------------------------------------------------------
(* A caller enters a method and queues for the lock.  Journal identifiers  *)
(* are random, so every entry is recorded at most once; a plan belongs to  *)
(* the context that wrote it.                                              *)
Issue(r) ==
    CASE r.op = "record"  -> /\ owner[r.id] = NoRecord
                             /\ owner' = [owner EXCEPT ![r.id] = r.ctx]
      [] r.op = "setPlan" -> /\ owner[r.plan] \in {NoRecord, r.ctx}
                             /\ owner' = [owner EXCEPT ![r.plan] = r.ctx]
      [] OTHER            -> UNCHANGED owner

Call(c, r) ==
    /\ stage[c] = "idle"
    /\ r.op \in Offered
    /\ Issue(r)
    /\ request' = [request EXCEPT ![c] = r]
    /\ stage' = [stage EXCEPT ![c] = "waiting"]
    /\ UNCHANGED <<disk, memory, lock, pending, cancelled, known>>

Acquire(c) ==
    /\ stage[c] = "waiting"
    /\ lock = Nobody
    /\ lock' = c
    /\ stage' = [stage EXCEPT ![c] = "locked"]
    /\ UNCHANGED <<disk, memory, request, pending, cancelled, history>>

(* The method returns or raises.                                           *)
Leave(c) ==
    /\ stage' = [stage EXCEPT ![c] = "idle"]
    /\ request' = [request EXCEPT ![c] = NoRequest]
    /\ pending' = [pending EXCEPT ![c] = NoRecord]
    /\ cancelled' = [cancelled EXCEPT ![c] = FALSE]

(* It ends holding the lock, which "async with" releases on every path.    *)
Return(c) == Leave(c) /\ lock' = Nobody

(* What callers can now learn about the entries of a published record.     *)
Learned(rec) ==
    [j \in JournalIds |->
        IF rec # NoRecord /\ Holds(rec, j) THEN StateOf(rec, j) ELSE known[j]]

(* Mutant of Load: the data is taken without decoding it.                  *)
LoadRaw(c) ==
    /\ stage[c] = "locked" /\ ~loaded /\ request[c].op # "remove"
    /\ record' = disk
    /\ invalid' = FALSE
    /\ loaded' = TRUE
    /\ UNCHANGED <<disk, lock, stage, request, pending, cancelled, history>>

(* _async_ensure_loaded: undecodable data leaves no record but is noted.   *)
Load(c) ==
    /\ stage[c] = "locked" /\ ~loaded /\ request[c].op # "remove"
    /\ record' = Decoded(disk)
    /\ invalid' = (disk = Damaged)
    /\ loaded' = TRUE
    /\ known' = Learned(Decoded(disk))
    /\ UNCHANGED <<disk, lock, stage, request, pending, cancelled, owner>>

(* Reading the file failed, or the caller was cancelled while it was read. *)
LoadFails(c) ==
    /\ stage[c] = "locked" /\ ~loaded /\ request[c].op # "remove"
    /\ Return(c)
    /\ UNCHANGED <<disk, memory, history>>

Ready(c) == stage[c] = "locked" /\ loaded /\ request[c].op # "remove"

Reject(c) ==
    /\ Ready(c)
    /\ Rejected(record, request[c])
    /\ Return(c)
    /\ UNCHANGED <<disk, memory, history>>

(* The answer needs no write.                                              *)
Answer(c) ==
    /\ Ready(c)
    /\ ~Rejected(record, request[c])
    /\ ~Saves(record, invalid, request[c])
    /\ Return(c)
    /\ UNCHANGED <<disk, memory, history>>

(* _async_save starts its task; the caller keeps the lock and waits.       *)
BeginSave(c) ==
    /\ Ready(c)
    /\ ~Rejected(record, request[c])
    /\ Saves(record, invalid, request[c])
    /\ pending' = [pending EXCEPT ![c] = Saved(record, invalid, request[c])]
    /\ stage' = [stage EXCEPT ![c] = "writing"]
    /\ UNCHANGED <<disk, memory, lock, request, cancelled, history>>

(* Store.async_save returns whether or not the writer succeeded; a failed  *)
(* atomic write leaves the old file.                                       *)
Write(c) ==
    /\ stage[c] = "writing"
    /\ disk' \in {disk, pending[c]}
    /\ stage' = [stage EXCEPT ![c] = "confirming"]
    /\ UNCHANGED <<memory, lock, request, pending, cancelled, history>>

(* Mutant of Confirm: a save is believed without reading the file back.    *)
ConfirmUnchecked(c) ==
    /\ stage[c] = "confirming"
    /\ record' = pending[c]
    /\ invalid' = FALSE
    /\ known' = Learned(pending[c])
    /\ Return(c)
    /\ UNCHANGED <<disk, loaded, owner>>

(* The file was read back and is the record: publish it in memory.         *)
Confirm(c) ==
    /\ stage[c] = "confirming"
    /\ disk = pending[c]
    /\ record' = pending[c]
    /\ invalid' = FALSE
    /\ known' = Learned(pending[c])
    /\ Return(c)
    /\ UNCHANGED <<disk, loaded, owner>>

(* Mutant of ConfirmFails: the error leaves the lock held.                 *)
ConfirmFailsHolding(c) ==
    /\ stage[c] = "confirming"
    /\ Leave(c)
    /\ UNCHANGED <<disk, memory, lock, history>>

(* The file holds something else, or could not be read back: OSError.      *)
ConfirmFails(c) ==
    /\ stage[c] = "confirming"
    /\ Return(c)
    /\ UNCHANGED <<disk, memory, history>>

(* Mutant of Cancel: the save is not shielded from losing its lock.        *)
CancelUnlocking(c) ==
    /\ stage[c] \in {"writing", "confirming"}
    /\ lock' = Nobody
    /\ cancelled' = [cancelled EXCEPT ![c] = TRUE]
    /\ UNCHANGED <<disk, memory, stage, request, pending, history>>

(* The caller is cancelled.  Waiting for the lock it leaves; while its     *)
(* save task runs it stays until the task is done, holding the lock.       *)
Cancel(c) ==
    \/ /\ stage[c] = "waiting"
       /\ Leave(c)
       /\ UNCHANGED <<disk, memory, lock, history>>
    \/ /\ stage[c] \in {"writing", "confirming"}
       /\ ~cancelled[c]
       /\ cancelled' = [cancelled EXCEPT ![c] = TRUE]
       /\ UNCHANGED <<disk, memory, lock, stage, request, pending, history>>

(* async_remove: the file goes first, then the memory copy.                *)
Unlink(c) ==
    /\ stage[c] = "locked" /\ request[c].op = "remove"
    /\ disk' = NoRecord
    /\ stage' = [stage EXCEPT ![c] = "unlinked"]
    /\ UNCHANGED <<memory, lock, request, pending, cancelled, history>>

FinishRemove(c) ==
    /\ stage[c] = "unlinked"
    /\ record' = NoRecord /\ invalid' = FALSE /\ loaded' = TRUE
    /\ Return(c)
    /\ UNCHANGED <<disk, history>>

(* Unlinking failed, or the caller was cancelled before or after it: the   *)
(* memory copy stays.                                                      *)
RemoveFails(c) ==
    /\ \/ stage[c] = "locked" /\ request[c].op = "remove"
       \/ stage[c] = "unlinked"
    /\ Return(c)
    /\ UNCHANGED <<disk, memory, history>>

(* The process ends and starts again with the file it finds.               *)
Restart ==
    /\ record' = NoRecord /\ loaded' = FALSE /\ invalid' = FALSE
    /\ lock' = Nobody
    /\ stage' = [c \in Callers |-> "idle"]
    /\ request' = [c \in Callers |-> NoRequest]
    /\ pending' = [c \in Callers |-> NoRecord]
    /\ cancelled' = [c \in Callers |-> FALSE]
    /\ UNCHANGED <<disk, history>>

(* The steps by which the store serves a caller it already accepted.       *)
Serve(c) ==
    \/ Acquire(c) \/ Load(c) \/ LoadFails(c)
    \/ Reject(c) \/ Answer(c) \/ BeginSave(c)
    \/ Write(c) \/ Confirm(c) \/ ConfirmFails(c)
    \/ Unlink(c) \/ FinishRemove(c) \/ RemoveFails(c)

Next ==
    \/ \E c \in Callers :
        \/ \E r \in AnyRequest : Call(c, r)
        \/ Serve(c)
        \/ Cancel(c)
    \/ Restart

Spec == Init /\ [][Next]_vars

(* asyncio.Lock wakes its waiters in the order they came, so a waiter that *)
(* is not cancelled gets the lock although others keep coming; every other *)
(* await of a served caller completes.                                     *)
Fairness == \A c \in Callers : WF_vars(Serve(c)) /\ SF_vars(Acquire(c))

FairSpec == Spec /\ Fairness

-----------------------------------------------------------------------------
(* Whatever an operation reported done is what a restart finds, and every  *)
(* record that is written was computed from the last one reported done:    *)
(* the lock, the confirmation and the shielded save together implement the *)
(* contract.                                                               *)
Contract == INSTANCE CloudStateContract WITH
    committed <- IF loaded THEN record ELSE Decoded(disk),
    durable <- Decoded(disk)

ContractHolds == Contract!Spec

(* Once any caller was told the state of a journal entry, neither memory   *)
(* nor the file holds an earlier one: a terminal result is never polled    *)
(* again, not even by a process that restarts between the write and its    *)
(* confirmation.                                                           *)
NeverRegresses(rec) ==
    rec # NoRecord =>
        \A i \in 1..Len(rec.commands) :
            LET e == rec.commands[i] IN
            known[e.id] # Unknown => e.state \in Transitions[known[e.id]]

JournalNeverRegresses ==
    NeverRegresses(record) /\ NeverRegresses(Decoded(disk))

(* What one context wrote is never stored in a record of another one: a    *)
(* changed password, country or account discards the whole revision.       *)
Isolated(rec) ==
    rec # NoRecord =>
        /\ \A i \in 1..Len(rec.commands) : owner[rec.commands[i].id] = rec.context
        /\ \A v \in Vehicles : rec.plans[v] # NoPlan => owner[rec.plans[v]] = rec.context

ContextIsolation == Isolated(record) /\ Isolated(Decoded(disk))

(* An entry some caller knows of leaves the file only with its context,    *)
(* with the account, or as the oldest of a full journal when a new one is  *)
(* accepted.                                                               *)
Pushed(old, new) ==
    /\ Len(old.commands) = MaxCommands /\ Len(new.commands) = MaxCommands
    /\ \A i \in 1..MaxCommands - 1 : new.commands[i].id = old.commands[i + 1].id

LossJustified(old, new) ==
    \/ old = NoRecord \/ new = NoRecord \/ new.context # old.context
    \/ \A j \in JournalIds :
          Holds(old, j) /\ ~Holds(new, j) /\ known[j] # Unknown =>
            Pushed(old, new) /\ old.commands[1].id = j

EntriesKept == [][LossJustified(Decoded(disk), Decoded(disk'))]_disk

(* Every caller that is in a method of the store leaves it, whatever       *)
(* failed or was cancelled before.                                         *)
EveryCallReturns == \A c \in Callers : stage[c] # "idle" ~> stage[c] = "idle"

=============================================================================
