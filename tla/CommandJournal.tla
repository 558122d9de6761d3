---------------------------- MODULE CommandJournal ---------------------------
(***************************************************************************)
(* Remote commands from the service call to the vehicle's result:          *)
(* GwmCommandApi of cloud_commands.py, the polling tasks of coordinator.py *)
(* and the unload, setup and restart of the entry that owns both.          *)
(*                                                                         *)
(* A command is one service call; its journal identifier is the command    *)
(* itself.  A runtime is one setup of the entry: its GwmCommandApi and its  *)
(* coordinator; reloading replaces it while the store stays.  The store    *)
(* keeps what CloudStateContract promises, so "committed" and "durable"    *)
(* are that module's.  Sending includes the session renewal; the provider  *)
(* and the vehicle are outside src/.                                       *)
(***************************************************************************)
EXTENDS CloudRecord

CONSTANTS Account,      \* the context of this entry
          Token,        \* its authentication state
          MaxRuntimes,  \* bound: setups of the entry
          Faults        \* bound: store failures and restarts occur

Commands == JournalIds
Runtimes == 1..MaxRuntimes

ASSUME RuntimesAssumption == MaxRuntimes \in Nat \ {0}
ASSUME AccountAssumption == Account \in Contexts /\ Token \in Tokens

VARIABLES committed, durable, \* the account's record, as in CloudStateContract
          call,      \* where the service call is
          home,      \* the runtime it was made in
          cancelled, \* it was cancelled while its acceptance is recorded
          outcome,   \* what became of the command at the provider
          late,      \* its result timeout has passed
          memory,    \* GwmCommandApi._commands of each runtime
          follower,  \* the polling task of each runtime and command
          target,    \* the terminal state it is about to record
          runtime,   \* the current runtime
          mode,      \* whether it runs, is being unloaded, or is closed
          awaited    \* the commands whose tasks the unload joins

store == <<committed, durable>>
calls == <<call, home, cancelled>>
tasks == <<memory, follower, target>>
vars == <<store, calls, outcome, late, tasks, runtime, mode, awaited>>

Unknown == "unknown"
Leaving == {"leavingMark", "leavingSettle"}
FollowerStages == {"none", "sleeping", "marking", "reading", "settling"} \cup Leaving

TypeOK ==
    /\ committed \in Record /\ durable \in Record
    /\ call \in [Commands -> {"new", "sending", "recording", "ended"}]
    /\ home \in [Commands -> Runtimes] /\ cancelled \in [Commands -> BOOLEAN]
    /\ outcome \in [Commands -> {Unknown, "pending", "success", "failure"}]
    /\ late \in [Commands -> BOOLEAN]
    /\ memory \in [Runtimes -> [Commands -> CommandStates \cup {Unknown}]]
    /\ follower \in [Runtimes -> [Commands -> FollowerStages]]
    /\ target \in [Runtimes -> [Commands -> Terminal \cup {Unknown}]]
    /\ runtime \in Runtimes /\ mode \in {"running", "closing", "closed"}
    /\ awaited \subseteq Commands

Nothing(x) == [g \in Runtimes |-> [c \in Commands |-> x]]

Init ==
    /\ committed = [EmptyRecord(Account) EXCEPT !.auth = Token]
    /\ durable = committed
    /\ call = [c \in Commands |-> "new"] /\ home = [c \in Commands |-> 1]
    /\ cancelled = [c \in Commands |-> FALSE]
    /\ outcome = [c \in Commands |-> Unknown] /\ late = [c \in Commands |-> FALSE]
    /\ memory = Nothing(Unknown) /\ follower = Nothing("none") /\ target = Nothing(Unknown)
    /\ runtime = 1 /\ mode = "running" /\ awaited = {}

Closed(g) == g < runtime \/ mode = "closed"

-----------------------------------------------------------------------------
(* The store's answers: it does what was asked, or it refuses, or it fails *)
(* with the old or the new record on disk.                                 *)

Done(req) ==
    /\ ~Rejected(committed, req)
    /\ committed' = Saved(committed, FALSE, req)
    /\ durable' = committed'

Undone(req) ==
    /\ \/ Rejected(committed, req) /\ UNCHANGED durable
       \/ /\ Faults /\ ~Rejected(committed, req)
          /\ durable' \in {durable, Saved(committed, FALSE, req)}
    /\ UNCHANGED committed

RecordRequest(c) == [op |-> "record", ctx |-> Account, id |-> c]
UpdateRequest(c, s) ==
    [op |-> "update", ctx |-> Account, id |-> c, state |-> s, late |-> FALSE]

(* The session runtime retires or replaces the authentication state.       *)
AuthChanges ==
    /\ \E req \in {[op |-> "clear", ctx |-> Account],
                   [op |-> "save", ctx |-> Account, auth |-> Token]} :
          Done(req) \/ Undone(req)
    /\ UNCHANGED <<calls, outcome, late, tasks, runtime, mode, awaited>>

-----------------------------------------------------------------------------
(* The service call.                                                       *)

Start(c) ==
    /\ call[c] = "new" /\ mode = "running"
    /\ call' = [call EXCEPT ![c] = "sending"]
    /\ home' = [home EXCEPT ![c] = runtime]
    /\ UNCHANGED <<store, cancelled, outcome, late, tasks, runtime, mode, awaited>>

(* The provider accepts and the caller learns its identifier.              *)
Accept(c) ==
    /\ call[c] = "sending" /\ ~Closed(home[c])
    /\ outcome' = [outcome EXCEPT ![c] = "pending"]
    /\ call' = [call EXCEPT ![c] = "recording"]
    /\ UNCHANGED <<store, home, cancelled, late, tasks, runtime, mode, awaited>>

(* It is refused, or fails, or is cancelled; the provider may have         *)
(* accepted it all the same.  It is not sent again.                        *)
SendFails(c) ==
    /\ call[c] = "sending"
    /\ call' = [call EXCEPT ![c] = "ended"]
    /\ outcome' \in {outcome} \cup
          IF Closed(home[c]) THEN {} ELSE {[outcome EXCEPT ![c] = "pending"]}
    /\ UNCHANGED <<store, home, cancelled, late, tasks, runtime, mode, awaited>>

(* A cancelled caller waits for the record and then ends.                  *)
CancelCall(c) ==
    /\ call[c] = "recording" /\ ~cancelled[c]
    /\ cancelled' = [cancelled EXCEPT ![c] = TRUE]
    /\ UNCHANGED <<store, call, home, outcome, late, tasks, runtime, mode, awaited>>

(* Mutant of Recorded: polling starts whether or not the record was saved. *)
RecordedUnsaved(c) ==
    /\ call[c] = "recording"
    /\ Done(RecordRequest(c)) \/ Undone(RecordRequest(c))
    /\ call' = [call EXCEPT ![c] = "ended"]
    /\ cancelled' = [cancelled EXCEPT ![c] = FALSE]
    /\ memory' = [memory EXCEPT ![home[c]][c] = "accepted"]
    /\ follower' = [follower EXCEPT ![home[c]][c] = "sleeping"]
    /\ UNCHANGED <<home, outcome, late, target, runtime, mode, awaited>>

(* _record_acceptance: the entry is durable before anything follows it.    *)
(* A call that was not cancelled has its coordinator poll the command,     *)
(* also a coordinator that was unloaded meanwhile.                         *)
Recorded(c) ==
    /\ call[c] = "recording"
    /\ Done(RecordRequest(c))
    /\ call' = [call EXCEPT ![c] = "ended"]
    /\ cancelled' = [cancelled EXCEPT ![c] = FALSE]
    /\ memory' = [memory EXCEPT ![home[c]][c] = "accepted"]
    /\ follower' = IF cancelled[c] THEN follower
                   ELSE [follower EXCEPT ![home[c]][c] = "sleeping"]
    /\ UNCHANGED <<home, outcome, late, target, runtime, mode, awaited>>

(* "its recovery journal could not be saved; do not retry"                 *)
NotRecorded(c) ==
    /\ call[c] = "recording"
    /\ Undone(RecordRequest(c))
    /\ call' = [call EXCEPT ![c] = "ended"]
    /\ cancelled' = [cancelled EXCEPT ![c] = FALSE]
    /\ UNCHANGED <<home, outcome, late, tasks, runtime, mode, awaited>>

-----------------------------------------------------------------------------
(* The polling task g, c: async_get_command once per interval.             *)

Goto(g, c, s) == follower' = [follower EXCEPT ![g][c] = s]

Settle(g, c, s) ==
    /\ Goto(g, c, "settling")
    /\ target' = [target EXCEPT ![g][c] = s]

Wake(g, c) ==
    /\ follower[g][c] = "sleeping"
    /\ \/ /\ memory[g][c] \in Terminal
          /\ Goto(g, c, "none") /\ UNCHANGED target
       \/ /\ memory[g][c] \notin Terminal /\ late[c]
          /\ Settle(g, c, "failed")
       \/ /\ memory[g][c] = "accepted" /\ ~late[c]
          /\ Goto(g, c, "marking") /\ UNCHANGED target
       \/ /\ memory[g][c] = "polling" /\ ~late[c]
          /\ Goto(g, c, "reading") /\ UNCHANGED target
    /\ UNCHANGED <<store, calls, outcome, late, memory, runtime, mode, awaited>>

Marked(g, c) ==
    /\ follower[g][c] \in {"marking", "leavingMark"}
    /\ Done(UpdateRequest(c, "polling"))
    /\ memory' = [memory EXCEPT ![g][c] = "polling"]
    /\ Goto(g, c, IF follower[g][c] = "marking" THEN "reading" ELSE "none")
    /\ UNCHANGED <<calls, outcome, late, target, runtime, mode, awaited>>

(* Mutant of Read: a result that is not there yet counts as a failure.     *)
ReadHasty(g, c) ==
    /\ follower[g][c] = "reading" /\ ~Closed(g)
    /\ Settle(g, c, IF outcome[c] = "success" THEN "completed" ELSE "failed")
    /\ UNCHANGED <<store, calls, outcome, late, memory, runtime, mode, awaited>>

(* The provider's answer, by the journal entry's identifier.               *)
Read(g, c) ==
    /\ follower[g][c] = "reading" /\ ~Closed(g)
    /\ \/ /\ outcome[c] = "pending" /\ ~late[c]
          /\ Goto(g, c, "sleeping") /\ UNCHANGED target
       \/ outcome[c] = "pending" /\ late[c] /\ Settle(g, c, "failed")
       \/ outcome[c] = "success" /\ Settle(g, c, "completed")
       \/ outcome[c] = "failure" /\ Settle(g, c, "failed")
    /\ UNCHANGED <<store, calls, outcome, late, memory, runtime, mode, awaited>>

ReadFails(g, c) ==
    /\ follower[g][c] = "reading"
    /\ Goto(g, c, "sleeping")
    /\ UNCHANGED <<store, calls, outcome, late, memory, target, runtime, mode, awaited>>

(* Mutant of Settled: the result is shown before it is durable.            *)
SettledUnsaved(g, c) ==
    /\ follower[g][c] \in {"settling", "leavingSettle"}
    /\ Done(UpdateRequest(c, target[g][c])) \/ Undone(UpdateRequest(c, target[g][c]))
    /\ memory' = [memory EXCEPT ![g][c] = target[g][c]]
    /\ target' = [target EXCEPT ![g][c] = Unknown]
    /\ Goto(g, c, "none")
    /\ UNCHANGED <<calls, outcome, late, runtime, mode, awaited>>

(* _durably_update_command and _mark_timeout: the result is durable before *)
(* it is shown, and the task ends.                                         *)
Settled(g, c) ==
    /\ follower[g][c] \in {"settling", "leavingSettle"}
    /\ Done(UpdateRequest(c, target[g][c]))
    /\ memory' = [memory EXCEPT ![g][c] = target[g][c]]
    /\ target' = [target EXCEPT ![g][c] = Unknown]
    /\ Goto(g, c, "none")
    /\ UNCHANGED <<calls, outcome, late, runtime, mode, awaited>>

(* The save failed: the task tries again after its interval.  A cancelled  *)
(* one does so too: the failure is raised in place of its cancellation.    *)
NotUpdated(g, c) ==
    /\ \/ /\ follower[g][c] \in {"marking", "leavingMark"}
          /\ Undone(UpdateRequest(c, "polling"))
       \/ /\ follower[g][c] \in {"settling", "leavingSettle"}
          /\ Undone(UpdateRequest(c, target[g][c]))
    /\ target' = [target EXCEPT ![g][c] = Unknown]
    /\ Goto(g, c, "sleeping")
    /\ UNCHANGED <<calls, outcome, late, memory, runtime, mode, awaited>>

(* Mutant of GiveUp: the task has no deadline of its own.                  *)
GiveUpNever(g, c) ==
    /\ follower[g][c] = "sleeping" /\ late[c] /\ memory[g][c] \in Terminal
    /\ Goto(g, c, "none")
    /\ UNCHANGED <<store, calls, outcome, late, memory, target, runtime, mode, awaited>>

(* The task's own deadline, longer than the result timeout, has passed.    *)
GiveUp(g, c) ==
    /\ follower[g][c] = "sleeping" /\ late[c]
    /\ Goto(g, c, "none")
    /\ UNCHANGED <<store, calls, outcome, late, memory, target, runtime, mode, awaited>>

-----------------------------------------------------------------------------
(* The entry.                                                              *)

(* async_cancel_command_tasks: the tasks there are end, those in a save    *)
(* after it, and the unload waits for them.                                *)
CancelTasks ==
    /\ mode = "running"
    /\ mode' = "closing"
    /\ awaited' = {c \in Commands : follower[runtime][c] # "none"}
    /\ follower' = [follower EXCEPT ![runtime] = [c \in Commands |->
          CASE @[c] = "marking"  -> "leavingMark"
            [] @[c] = "settling" -> "leavingSettle"
            [] OTHER             -> "none"]]
    /\ UNCHANGED <<store, calls, outcome, late, memory, target, runtime>>

(* All of those joined, one that lost its cancellation at its deadline:    *)
(* the client is closed.  A task that started meanwhile is not waited for. *)
Close ==
    /\ mode = "closing"
    /\ \A c \in awaited : follower[runtime][c] = "none"
    /\ mode' = "closed" /\ awaited' = {}
    /\ UNCHANGED <<store, calls, outcome, late, tasks, runtime>>

(* Mutant of Restored: a command that is not in the journal gets a state   *)
(* that no command has.                                                    *)
RestoredAbsent(rec) == [c \in Commands |-> IF Holds(rec, c) THEN StateOf(rec, c) ELSE "none"]

(* What async_restore takes from a journal.                                *)
Restored(rec) == [c \in Commands |-> IF Holds(rec, c) THEN StateOf(rec, c) ELSE Unknown]

(* The entry is set up again, with an authenticated record: every open     *)
(* entry of the journal is polled, none is sent.                           *)
Load ==
    /\ mode = "closed" /\ runtime < MaxRuntimes
    /\ committed.auth # NoAuth
    /\ runtime' = runtime + 1 /\ mode' = "running"
    /\ memory' = [memory EXCEPT ![runtime + 1] = Restored(committed)]
    /\ follower' = [follower EXCEPT ![runtime + 1] = [c \in Commands |->
          IF Restored(committed)[c] \in {"accepted", "polling"} THEN "sleeping" ELSE "none"]]
    /\ UNCHANGED <<store, calls, outcome, late, target, awaited>>

(* The process ends; what a restart finds is what is on disk.              *)
Crash ==
    /\ Faults /\ runtime < MaxRuntimes
    /\ committed' = durable /\ UNCHANGED durable
    /\ call' = [c \in Commands |-> IF call[c] = "new" THEN "new" ELSE "ended"]
    /\ cancelled' = [c \in Commands |-> FALSE]
    /\ mode' = "closed" /\ awaited' = {}
    /\ memory' = Nothing(Unknown) /\ follower' = Nothing("none") /\ target' = Nothing(Unknown)
    /\ UNCHANGED <<home, outcome, late, runtime>>

(* Outside: the vehicle answers; time passes.                              *)
VehicleAnswers(c) ==
    /\ outcome[c] = "pending"
    /\ \E result \in {"success", "failure"} : outcome' = [outcome EXCEPT ![c] = result]
    /\ UNCHANGED <<store, calls, late, tasks, runtime, mode, awaited>>

TimePasses(c) ==
    /\ call[c] = "ended" /\ outcome[c] # Unknown /\ ~late[c]
    /\ late' = [late EXCEPT ![c] = TRUE]
    /\ UNCHANGED <<store, calls, outcome, tasks, runtime, mode, awaited>>

Serve(c) == Accept(c) \/ SendFails(c) \/ Recorded(c) \/ NotRecorded(c)

Poll(g, c) ==
    \/ Wake(g, c) \/ Marked(g, c) \/ Read(g, c) \/ ReadFails(g, c)
    \/ Settled(g, c) \/ NotUpdated(g, c)

Next ==
    \/ \E c \in Commands : \/ Start(c) \/ Serve(c) \/ CancelCall(c)
                           \/ VehicleAnswers(c) \/ TimePasses(c)
    \/ \E g \in Runtimes, c \in Commands : Poll(g, c) \/ GiveUp(g, c)
    \/ AuthChanges \/ CancelTasks \/ Close \/ Load \/ Crash

Spec == Init /\ [][Next]_vars

(* Time passes and every await of a polling task ends; its deadline is     *)
(* compared after every interval, so a task that sleeps again and again    *)
(* past it ends.  An unload goes on when the tasks it waits for have ended. *)
Fairness ==
    /\ WF_vars(Close) /\ \A c \in Commands : WF_vars(TimePasses(c))
    /\ \A g \in Runtimes, c \in Commands : WF_vars(Poll(g, c)) /\ SF_vars(GiveUp(g, c))

FairSpec == Spec /\ Fairness

-----------------------------------------------------------------------------
(* The journal was full when an entry is not in it any more.               *)
Kept(rec, c) == Holds(rec, c) \/ Len(rec.commands) = MaxCommands

(* A restart finds every command at least as far as any runtime showed it: *)
(* a result a user saw is not polled, shown as open or reported otherwise  *)
(* afterwards.                                                             *)
RestartFindsShown ==
    \A g \in Runtimes, c \in Commands : memory[g][c] # Unknown =>
        /\ Kept(durable, c)
        /\ Holds(durable, c) => StateOf(durable, c) \in Transitions[memory[g][c]]

(* Two runtimes that follow one command, because a call outlived the       *)
(* reload, never show different results.                                   *)
OneResult ==
    \A g, h \in Runtimes, c \in Commands :
        memory[g][c] \in Terminal /\ memory[h][c] \in Terminal => memory[g][c] = memory[h][c]

(* A command has one result: "completed" means the vehicle reported        *)
(* success for it; "failed" that it reported a failure or the timeout had  *)
(* passed.                                                                 *)
TruthfulResult ==
    /\ OneResult
    /\ \A g \in Runtimes, c \in Commands :
        /\ memory[g][c] = "completed" => outcome[c] = "success"
        /\ memory[g][c] = "failed" => outcome[c] = "failure" \/ late[c]

(* Every polling task ends, and with them every unload: also when a save   *)
(* that fails makes a task go on after its cancellation, as often as it    *)
(* may.                                                                    *)
FollowersEnd ==
    /\ \A g \in Runtimes, c \in Commands : follower[g][c] # "none" ~> follower[g][c] = "none"
    /\ mode = "closing" ~> mode # "closing"

(* "Entry unload must join every polling task before closing the           *)
(* transport" (D-058).                                                     *)
NoPollingAfterClose ==
    \A g \in Runtimes, c \in Commands : Closed(g) => follower[g][c] = "none"
=============================================================================
