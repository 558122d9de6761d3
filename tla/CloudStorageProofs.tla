-------------------------- MODULE CloudStorageProofs -------------------------
(***************************************************************************)
(* CloudStorage implements CloudStateContract, for every set of callers,   *)
(* contexts, tokens, journal identifiers and plans and every bound.        *)
(*                                                                         *)
(* The argument: only the holder of the lock is past the acquisition, so   *)
(* the memory record a pending save was computed from is still the memory  *)
(* record when the save is written and confirmed.                          *)
(*                                                                         *)
(* The journal rests on a second invariant: an entry that is being         *)
(* recorded is new to memory, file and callers, what a call stores belongs *)
(* to its context, and the file holds the record in memory or what one     *)
(* operation made of it.                                                   *)
(***************************************************************************)
EXTENDS CloudStorage, TLAPS

-----------------------------------------------------------------------------
(* What the operations compute from records are records.                   *)

LEMMA EmptyRecordType ==
    ASSUME NEW ctx \in Contexts
    PROVE  EmptyRecord(ctx) \in Record
BY DEF EmptyRecord, Record, Ownership

LEMMA PushType ==
    ASSUME NEW S, NEW s \in Seq(S), NEW x \in S, NEW n \in Nat \ {0}
    PROVE  Push(s, x, n) \in Seq(S)
<1>1. CASE Len(s) < n
  BY <1>1 DEF Push
<1>2. CASE ~(Len(s) < n)
  <2>1. s # <<>>
    BY <1>2
  <2>2. Tail(s) \in Seq(S)
    BY <2>1
  <2> QED BY <1>2, <2>2 DEF Push
<1> QED BY <1>1, <1>2

LEMMA CarriedType ==
    ASSUME NEW rec \in Record \cup {NoRecord}, NEW ctx \in Contexts
    PROVE  Carried(rec, ctx) \in Record
BY EmptyRecordType DEF Carried, Matches

LEMMA WithCommandType ==
    ASSUME NEW rec \in Record, NEW id \in JournalIds
    PROVE  WithCommand(rec, id) \in Record
<1> DEFINE entry == [id |-> id, state |-> "accepted"]
<1>1. entry \in Command
  BY DEF Command, CommandStates
<1>2. rec.commands \in Seq(Command)
  BY DEF Record
<1>3. Push(rec.commands, entry, MaxCommands) \in Seq(Command)
  BY <1>1, <1>2, PushType, MaxCommandsAssumption
<1> QED BY <1>3 DEF WithCommand, Record

LEMMA WithStateType ==
    ASSUME NEW rec \in Record, NEW id \in JournalIds, NEW state \in CommandStates
    PROVE  WithState(rec, id, state) \in Record
<1> DEFINE cs == rec.commands
           new == [i \in 1..Len(cs) |->
                     IF cs[i].id = id THEN [cs[i] EXCEPT !.state = state] ELSE cs[i]]
<1>1. cs \in Seq(Command)
  BY DEF Record
<1>2. \A i \in 1..Len(cs) : new[i] \in Command
  <2>1. ASSUME NEW i \in 1..Len(cs)
        PROVE  new[i] \in Command
    <3>1. cs[i] \in Command
      <4> HIDE DEF cs
      <4> QED BY <1>1
    <3>2. new[i] = IF cs[i].id = id THEN [cs[i] EXCEPT !.state = state] ELSE cs[i]
      OBVIOUS
    <3> HIDE DEF cs, new
    <3> QED BY <3>1, <3>2 DEF Command
  <2> HIDE DEF new
  <2> QED BY <2>1
<1>3. new \in Seq(Command)
  <2>1. Len(cs) \in Nat
    BY <1>1
  <2> HIDE DEF cs
  <2> QED BY <1>2, <2>1
<1>4. WithState(rec, id, state) = [rec EXCEPT !.commands = new]
  BY DEF WithState
<1> HIDE DEF new
<1> QED BY <1>3, <1>4 DEF Record

LEMMA WithPlanType ==
    ASSUME NEW rec \in Record, NEW v \in Vehicles, NEW p \in Plans \cup {NoPlan}
    PROVE  WithPlan(rec, v, p) \in Record
BY DEF WithPlan, Record, Ownership

(* An operation that is not rejected saves a record, or keeps what it read. *)
LEMMA SavedType ==
    ASSUME NEW rec \in Record \cup {NoRecord}, NEW invalid_ \in BOOLEAN,
           NEW req \in Request, ~Rejected(rec, req)
    PROVE  /\ Saved(rec, invalid_, req) \in Record \cup {NoRecord}
           /\ Saves(rec, invalid_, req) => Saved(rec, invalid_, req) \in Record
<1>1. CASE req.op \in {"load", "journal", "plans"}
  <2>1. req.ctx \in Contexts
    BY DEF Request
  <2> QED BY <1>1, <2>1, EmptyRecordType DEF Saved, Saves
<1>2. CASE req.op = "save"
  <2>1. req.ctx \in Contexts /\ req.auth \in Tokens
    BY <1>2 DEF Request
  <2>2. Carried(rec, req.ctx) \in Record
    BY <2>1, CarriedType
  <2> QED BY <1>2, <2>1, <2>2 DEF Saved, Record
<1>3. CASE req.op = "clear"
  <2>1. req.ctx \in Contexts
    BY <1>3 DEF Request
  <2>2. Carried(rec, req.ctx) \in Record
    BY <2>1, CarriedType
  <2> QED BY <1>3, <2>1, <2>2 DEF Saved, Record
<1>4. CASE req.op = "record"
  <2>1. req.id \in JournalIds
    BY <1>4 DEF Request
  <2>2. rec \in Record
    BY <1>4 DEF Rejected, Matches
  <2> QED BY <1>4, <2>1, <2>2, WithCommandType DEF Saved
<1>5. CASE req.op = "update"
  <2>1. req.id \in JournalIds /\ req.state \in CommandStates
    BY <1>5 DEF Request
  <2>2. rec \in Record
    BY <1>5 DEF Rejected, Matches
  <2> QED BY <1>5, <2>1, <2>2, WithStateType DEF Saved
<1>6. CASE req.op = "setPlan"
  <2>1. req.vehicle \in Vehicles /\ req.plan \in Plans
    BY <1>6 DEF Request
  <2>2. rec \in Record
    BY <1>6 DEF Rejected, Matches
  <2> QED BY <1>6, <2>1, <2>2, WithPlanType DEF Saved
<1>7. CASE req.op = "removePlan"
  <2>1. req.vehicle \in Vehicles
    BY <1>7 DEF Request
  <2>2. rec \in Record
    BY <1>7 DEF Rejected, Matches
  <2> QED BY <1>7, <2>1, <2>2, WithPlanType DEF Saved
<1> QED BY <1>1, <1>2, <1>3, <1>4, <1>5, <1>6, <1>7 DEF Request

-----------------------------------------------------------------------------
(* What every step finds: who holds the lock, and, while a save runs, that *)
(* its record is the one its method computes from the memory record.       *)

Critical == {"locked", "writing", "confirming", "unlinked"}

LockInv == \A c \in Callers : stage[c] \in Critical <=> lock = c

SaveInv ==
    \A c \in Callers : stage[c] \in {"writing", "confirming"} =>
        /\ loaded
        /\ request[c] \in Request
        /\ ~Rejected(record, request[c])
        /\ Saves(record, invalid, request[c])
        /\ pending[c] = Saved(record, invalid, request[c])

(* After the file is unlinked nothing is written before the memory copy is *)
(* dropped.                                                                *)
RemoveInv == \A c \in Callers : stage[c] = "unlinked" => disk = NoRecord

(* A caller that is in a method asked for something.                       *)
BusyInv == \A c \in Callers : stage[c] # "idle" => request[c] \in AnyRequest

IInv == TypeOK /\ LockInv /\ SaveInv /\ RemoveInv /\ BusyInv

LEMMA InitIInv == Init => IInv
<1> SUFFICES ASSUME Init PROVE IInv
  OBVIOUS
<1>1. TypeOK
  BY DEF Init, TypeOK, Stages
<1>2. LockInv
  BY CallerAssumption DEF Init, LockInv, Critical
<1>3. SaveInv /\ RemoveInv /\ BusyInv
  BY DEF Init, SaveInv, RemoveInv, BusyInv
<1> QED BY <1>1, <1>2, <1>3 DEF IInv

(* An answer that is a request of the store, not the removal.              *)
LEMMA ReadyRequest ==
    ASSUME NEW c \in Callers, IInv, Ready(c)
    PROVE  request[c] \in Request
BY DEF IInv, BusyInv, Ready, AnyRequest, RemoveRequest

LEMMA LearnedType ==
    ASSUME NEW rec \in Record \cup {NoRecord}, TypeOK
    PROVE  Learned(rec) \in [JournalIds -> CommandStates \cup {Unknown}]
<1> SUFFICES ASSUME NEW j \in JournalIds, rec # NoRecord, Holds(rec, j)
             PROVE  StateOf(rec, j) \in CommandStates
  BY DEF Learned, TypeOK
<1> DEFINE n == CHOOSE i \in 1..Len(rec.commands) : rec.commands[i].id = j
<1>1. rec.commands \in Seq(Command)
  BY DEF Record
<1>2. n \in 1..Len(rec.commands)
  BY DEF Holds
<1>3. rec.commands[n] \in Command
  <2> HIDE DEF n
  <2> QED BY <1>1, <1>2
<1>4. StateOf(rec, j) = rec.commands[n].state
  BY DEF StateOf
<1> HIDE DEF n
<1> QED BY <1>3, <1>4 DEF Command

-----------------------------------------------------------------------------
(* Every step preserves the invariant.                                     *)

LEMMA CallStep ==
    ASSUME NEW c \in Callers, NEW r \in AnyRequest, IInv, Call(c, r)
    PROVE  IInv'
<1> USE DEF IInv
<1>1. TypeOK'
  <2>1. owner' \in [JournalIds \cup Plans -> Contexts \cup {NoRecord}]
    <3>1. CASE r.op = "record"
      <4>1. r.id \in JournalIds /\ r.ctx \in Contexts
        BY <3>1 DEF AnyRequest, Request, RemoveRequest
      <4> QED BY <3>1, <4>1 DEF TypeOK, Call, Issue
    <3>2. CASE r.op = "setPlan"
      <4>1. r.plan \in Plans /\ r.ctx \in Contexts
        BY <3>2 DEF AnyRequest, Request, RemoveRequest
      <4> QED BY <3>2, <4>1 DEF TypeOK, Call, Issue
    <3>3. CASE r.op \notin {"record", "setPlan"}
      BY <3>3 DEF TypeOK, Call, Issue
    <3> QED BY <3>1, <3>2, <3>3
  <2> QED BY <2>1 DEF TypeOK, Stages, Call, memory, history
<1>2. LockInv'
  BY CallerAssumption DEF TypeOK, LockInv, Critical, Call, Issue, memory, history
<1>3. SaveInv'
  BY DEF TypeOK, LockInv, Critical, SaveInv, Call, Issue, memory, history
<1>4. BusyInv'
  BY DEF TypeOK, BusyInv, Call, Issue, memory, history
<1>5. RemoveInv'
  BY DEF TypeOK, LockInv, Critical, RemoveInv, Call, Issue, memory, history
<1> QED BY <1>1, <1>2, <1>3, <1>4, <1>5

LEMMA AcquireStep ==
    ASSUME NEW c \in Callers, IInv, Acquire(c)
    PROVE  IInv'
<1> USE DEF IInv
<1>1. TypeOK'
  BY DEF TypeOK, Stages, Acquire, memory, history
<1>2. LockInv'
  BY CallerAssumption DEF TypeOK, LockInv, Critical, Acquire, memory, history
<1>3. SaveInv'
  BY DEF TypeOK, LockInv, Critical, SaveInv, Acquire, memory, history
<1>4. BusyInv'
  BY DEF TypeOK, BusyInv, Acquire, memory, history
<1>5. RemoveInv'
  BY DEF TypeOK, LockInv, Critical, RemoveInv, Acquire, memory, history
<1> QED BY <1>1, <1>2, <1>3, <1>4, <1>5

LEMMA LoadStep ==
    ASSUME NEW c \in Callers, IInv, Load(c)
    PROVE  IInv'
<1> USE DEF IInv
<1>1. TypeOK'
  <2>1. Decoded(disk) \in Record \cup {NoRecord}
    BY DEF TypeOK, Decoded
  <2>2. known' \in [JournalIds -> CommandStates \cup {Unknown}]
    BY <2>1, LearnedType DEF Load
  <2> QED BY <2>1, <2>2 DEF TypeOK, Load, memory, history
<1>2. LockInv'
  BY CallerAssumption DEF TypeOK, LockInv, Critical, Load, Decoded, memory, history
<1>3. SaveInv'
  BY DEF TypeOK, LockInv, Critical, SaveInv, Load, Decoded, memory, history
<1>4. BusyInv'
  BY DEF TypeOK, BusyInv, Load, Decoded, memory, history
<1>5. RemoveInv'
  BY DEF TypeOK, LockInv, Critical, RemoveInv, Load, Decoded, memory, history
<1> QED BY <1>1, <1>2, <1>3, <1>4, <1>5

LEMMA LoadFailsStep ==
    ASSUME NEW c \in Callers, IInv, LoadFails(c)
    PROVE  IInv'
<1> USE DEF IInv
<1>1. TypeOK'
  BY DEF TypeOK, Stages, LoadFails, Return, Leave, memory, history
<1>2. LockInv'
  BY CallerAssumption DEF TypeOK, LockInv, Critical, LoadFails, Return, Leave, memory, history
<1>3. SaveInv'
  BY DEF TypeOK, LockInv, Critical, SaveInv, LoadFails, Return, Leave, memory, history
<1>4. BusyInv'
  BY DEF TypeOK, BusyInv, LoadFails, Return, Leave, memory, history
<1>5. RemoveInv'
  BY DEF TypeOK, LockInv, Critical, RemoveInv, LoadFails, Return, Leave, memory, history
<1> QED BY <1>1, <1>2, <1>3, <1>4, <1>5

LEMMA RejectStep ==
    ASSUME NEW c \in Callers, IInv, Reject(c)
    PROVE  IInv'
<1> USE DEF IInv
<1>1. TypeOK'
  BY DEF TypeOK, Stages, Reject, Ready, Return, Leave, memory, history
<1>2. LockInv'
  BY CallerAssumption DEF TypeOK, LockInv, Critical, Reject, Ready, Return, Leave, memory, history
<1>3. SaveInv'
  BY DEF TypeOK, LockInv, Critical, SaveInv, Reject, Ready, Return, Leave, memory, history
<1>4. BusyInv'
  BY DEF TypeOK, BusyInv, Reject, Ready, Return, Leave, memory, history
<1>5. RemoveInv'
  BY DEF TypeOK, LockInv, Critical, RemoveInv, Reject, Ready, Return, Leave, memory, history
<1> QED BY <1>1, <1>2, <1>3, <1>4, <1>5

LEMMA AnswerStep ==
    ASSUME NEW c \in Callers, IInv, Answer(c)
    PROVE  IInv'
<1> USE DEF IInv
<1>1. TypeOK'
  BY DEF TypeOK, Stages, Answer, Ready, Return, Leave, memory, history
<1>2. LockInv'
  BY CallerAssumption DEF TypeOK, LockInv, Critical, Answer, Ready, Return, Leave, memory, history
<1>3. SaveInv'
  BY DEF TypeOK, LockInv, Critical, SaveInv, Answer, Ready, Return, Leave, memory, history
<1>4. BusyInv'
  BY DEF TypeOK, BusyInv, Answer, Ready, Return, Leave, memory, history
<1>5. RemoveInv'
  BY DEF TypeOK, LockInv, Critical, RemoveInv, Answer, Ready, Return, Leave, memory, history
<1> QED BY <1>1, <1>2, <1>3, <1>4, <1>5

LEMMA BeginSaveStep ==
    ASSUME NEW c \in Callers, IInv, BeginSave(c)
    PROVE  IInv'
<1> USE DEF IInv
<1>1. TypeOK'
  <2>1. Saved(record, invalid, request[c]) \in Record
    BY ReadyRequest, SavedType DEF TypeOK, BeginSave
  <2> QED BY <2>1 DEF TypeOK, Stages, BeginSave, memory, history
<1>2. LockInv'
  BY CallerAssumption DEF TypeOK, LockInv, Critical, BeginSave, Ready, memory, history
<1>3. SaveInv'
  <2>1. request[c] \in Request
    BY ReadyRequest DEF BeginSave
  <2> QED BY <2>1 DEF TypeOK, LockInv, Critical, SaveInv, BeginSave, Ready, memory, history
<1>4. BusyInv'
  BY DEF TypeOK, BusyInv, BeginSave, Ready, memory, history
<1>5. RemoveInv'
  BY DEF TypeOK, LockInv, Critical, RemoveInv, BeginSave, Ready, memory, history
<1> QED BY <1>1, <1>2, <1>3, <1>4, <1>5

LEMMA WriteStep ==
    ASSUME NEW c \in Callers, IInv, Write(c)
    PROVE  IInv'
<1> USE DEF IInv
<1>1. TypeOK'
  BY DEF TypeOK, Stages, Write, memory, history
<1>2. LockInv'
  BY CallerAssumption DEF TypeOK, LockInv, Critical, Write, memory, history
<1>3. SaveInv'
  BY DEF TypeOK, LockInv, Critical, SaveInv, Write, memory, history
<1>4. BusyInv'
  BY DEF TypeOK, BusyInv, Write, memory, history
<1>5. RemoveInv'
  BY DEF TypeOK, LockInv, Critical, RemoveInv, Write, memory, history
<1> QED BY <1>1, <1>2, <1>3, <1>4, <1>5

LEMMA ConfirmStep ==
    ASSUME NEW c \in Callers, IInv, Confirm(c)
    PROVE  IInv'
<1> USE DEF IInv
<1>1. TypeOK'
  <2>1. pending[c] \in Record \cup {NoRecord}
    BY DEF TypeOK
  <2>2. known' \in [JournalIds -> CommandStates \cup {Unknown}]
    BY <2>1, LearnedType DEF Confirm
  <2> QED BY <2>1, <2>2 DEF TypeOK, Stages, Confirm, Return, Leave, memory, history
<1>2. LockInv'
  BY CallerAssumption DEF TypeOK, LockInv, Critical, Confirm, Return, Leave, memory, history
<1>3. SaveInv'
  BY DEF TypeOK, LockInv, Critical, SaveInv, Confirm, Return, Leave, memory, history
<1>4. BusyInv'
  BY DEF TypeOK, BusyInv, Confirm, Return, Leave, memory, history
<1>5. RemoveInv'
  BY DEF TypeOK, LockInv, Critical, RemoveInv, Confirm, Return, Leave, memory, history
<1> QED BY <1>1, <1>2, <1>3, <1>4, <1>5

LEMMA ConfirmFailsStep ==
    ASSUME NEW c \in Callers, IInv, ConfirmFails(c)
    PROVE  IInv'
<1> USE DEF IInv
<1>1. TypeOK'
  BY DEF TypeOK, Stages, ConfirmFails, Return, Leave, memory, history
<1>2. LockInv'
  BY CallerAssumption DEF TypeOK, LockInv, Critical, ConfirmFails, Return, Leave, memory, history
<1>3. SaveInv'
  BY DEF TypeOK, LockInv, Critical, SaveInv, ConfirmFails, Return, Leave, memory, history
<1>4. BusyInv'
  BY DEF TypeOK, BusyInv, ConfirmFails, Return, Leave, memory, history
<1>5. RemoveInv'
  BY DEF TypeOK, LockInv, Critical, RemoveInv, ConfirmFails, Return, Leave, memory, history
<1> QED BY <1>1, <1>2, <1>3, <1>4, <1>5

LEMMA CancelStep ==
    ASSUME NEW c \in Callers, IInv, Cancel(c)
    PROVE  IInv'
<1> USE DEF IInv
<1>1. TypeOK'
  BY DEF TypeOK, Stages, Cancel, Leave, memory, history
<1>2. LockInv'
  BY CallerAssumption DEF TypeOK, LockInv, Critical, Cancel, Leave, memory, history
<1>3. SaveInv'
  BY DEF TypeOK, LockInv, Critical, SaveInv, Cancel, Leave, memory, history
<1>4. BusyInv'
  BY DEF TypeOK, BusyInv, Cancel, Leave, memory, history
<1>5. RemoveInv'
  BY DEF TypeOK, LockInv, Critical, RemoveInv, Cancel, Leave, memory, history
<1> QED BY <1>1, <1>2, <1>3, <1>4, <1>5

LEMMA UnlinkStep ==
    ASSUME NEW c \in Callers, IInv, Unlink(c)
    PROVE  IInv'
<1> USE DEF IInv
<1>1. TypeOK'
  BY DEF TypeOK, Stages, Unlink, memory, history
<1>2. LockInv'
  BY CallerAssumption DEF TypeOK, LockInv, Critical, Unlink, memory, history
<1>3. SaveInv'
  BY DEF TypeOK, LockInv, Critical, SaveInv, Unlink, memory, history
<1>4. BusyInv'
  BY DEF TypeOK, BusyInv, Unlink, memory, history
<1>5. RemoveInv'
  BY DEF TypeOK, LockInv, Critical, RemoveInv, Unlink, memory, history
<1> QED BY <1>1, <1>2, <1>3, <1>4, <1>5

LEMMA FinishRemoveStep ==
    ASSUME NEW c \in Callers, IInv, FinishRemove(c)
    PROVE  IInv'
<1> USE DEF IInv
<1>1. TypeOK'
  BY DEF TypeOK, Stages, FinishRemove, Return, Leave, memory, history
<1>2. LockInv'
  BY CallerAssumption DEF TypeOK, LockInv, Critical, FinishRemove, Return, Leave, memory, history
<1>3. SaveInv'
  BY DEF TypeOK, LockInv, Critical, SaveInv, FinishRemove, Return, Leave, memory, history
<1>4. BusyInv'
  BY DEF TypeOK, BusyInv, FinishRemove, Return, Leave, memory, history
<1>5. RemoveInv'
  BY DEF TypeOK, LockInv, Critical, RemoveInv, FinishRemove, Return, Leave, memory, history
<1> QED BY <1>1, <1>2, <1>3, <1>4, <1>5

LEMMA RemoveFailsStep ==
    ASSUME NEW c \in Callers, IInv, RemoveFails(c)
    PROVE  IInv'
<1> USE DEF IInv
<1>1. TypeOK'
  BY DEF TypeOK, Stages, RemoveFails, Return, Leave, memory, history
<1>2. LockInv'
  BY CallerAssumption DEF TypeOK, LockInv, Critical, RemoveFails, Return, Leave, memory, history
<1>3. SaveInv'
  BY DEF TypeOK, LockInv, Critical, SaveInv, RemoveFails, Return, Leave, memory, history
<1>4. BusyInv'
  BY DEF TypeOK, BusyInv, RemoveFails, Return, Leave, memory, history
<1>5. RemoveInv'
  BY DEF TypeOK, LockInv, Critical, RemoveInv, RemoveFails, Return, Leave, memory, history
<1> QED BY <1>1, <1>2, <1>3, <1>4, <1>5

LEMMA RestartStep ==
    ASSUME IInv, Restart
    PROVE  IInv'
<1> USE DEF IInv
<1>1. TypeOK'
  BY DEF TypeOK, Stages, Restart, memory, history
<1>2. LockInv'
  BY CallerAssumption DEF TypeOK, LockInv, Critical, Restart, memory, history
<1>3. SaveInv'
  BY DEF TypeOK, LockInv, Critical, SaveInv, Restart, memory, history
<1>4. BusyInv'
  BY DEF TypeOK, BusyInv, Restart, memory, history
<1>5. RemoveInv'
  BY DEF TypeOK, LockInv, Critical, RemoveInv, Restart, memory, history
<1> QED BY <1>1, <1>2, <1>3, <1>4, <1>5

LEMMA StepIInv == IInv /\ [Next]_vars => IInv'
<1> SUFFICES ASSUME IInv, [Next]_vars PROVE IInv'
  OBVIOUS
<1>1. ASSUME NEW c \in Callers, NEW r \in AnyRequest, Call(c, r) PROVE IInv'
  BY <1>1, CallStep
<1>2. ASSUME NEW c \in Callers, Serve(c) PROVE IInv'
  BY <1>2, AcquireStep, LoadStep, LoadFailsStep, RejectStep, AnswerStep,
     BeginSaveStep, WriteStep, ConfirmStep, ConfirmFailsStep, UnlinkStep,
     FinishRemoveStep, RemoveFailsStep DEF Serve
<1>3. ASSUME NEW c \in Callers, Cancel(c) PROVE IInv'
  BY <1>3, CancelStep
<1>4. CASE Restart
  BY <1>4, RestartStep
<1>5. CASE UNCHANGED vars
  <2>1. TypeOK'
    BY <1>5 DEF IInv, TypeOK, vars, memory, history
  <2>2. LockInv' /\ SaveInv' /\ RemoveInv' /\ BusyInv'
    BY <1>5 DEF IInv, LockInv, SaveInv, RemoveInv, BusyInv, vars, memory, history
  <2> QED BY <2>1, <2>2 DEF IInv
<1> QED BY <1>1, <1>2, <1>3, <1>4, <1>5 DEF Next

LEMMA InvariantHolds == Spec => []IInv
<1> QED BY InitIInv, StepIInv, PTL DEF Spec

(* The store's variables keep their types: what is loaded, computed and    *)
(* published is always a record of the account or nothing, although the    *)
(* file may hold data that does not decode.                                *)
THEOREM TypeCorrect == Spec => []TypeOK
<1>1. IInv => TypeOK
  BY DEF IInv
<1> QED BY <1>1, InvariantHolds, PTL

(* Two callers are never both past the acquisition of the lock, not even   *)
(* when one of them is cancelled while its save task still runs.           *)
OneWriter ==
    \A c, d \in Callers :
        stage[c] \in Critical /\ stage[d] \in Critical => c = d

THEOREM MutualExclusion == Spec => []OneWriter
<1>1. IInv => OneWriter
  BY DEF IInv, LockInv, OneWriter
<1> QED BY <1>1, InvariantHolds, PTL

-----------------------------------------------------------------------------
(* The refinement: each step of the store is one of the contract's or      *)
(* leaves committed and durable alone.                                     *)

Committed == IF loaded THEN record ELSE Decoded(disk)
Durable == Decoded(disk)

(* The contract's operators are those of the record.                       *)
LEMMA SameRequests == Contract!Request = Request
BY DEF Request, CommandStates, Contract!Request, Contract!CommandStates

LEMMA SameState ==
    ASSUME NEW rec, NEW id
    PROVE  Contract!StateOf(rec, id) = StateOf(rec, id)
BY Zenon DEF StateOf, Contract!StateOf

LEMMA SameRejections ==
    ASSUME NEW rec, NEW req
    PROVE  Contract!Rejected(rec, req) <=> Rejected(rec, req)
<1>1. Contract!Transitions = Transitions
  BY DEF Transitions, CommandStates, Contract!Transitions, Contract!CommandStates
<1> QED BY <1>1, SameState, Zenon
        DEF Rejected, Matches, Holds,
            Contract!Rejected, Contract!Matches, Contract!Holds

LEMMA SameSaves ==
    ASSUME NEW rec, NEW damaged, NEW req
    PROVE  Contract!Saved(rec, damaged, req) = Saved(rec, damaged, req)
BY Zenon
   DEF Saved, Carried, EmptyRecord, Matches, WithCommand, WithState, WithPlan, Push,
       Contract!Saved, Contract!Carried, Contract!EmptyRecord, Contract!Matches,
       Contract!WithCommand, Contract!WithState, Contract!WithPlan, Contract!Push

LEMMA InitRefines == Init => Contract!Init
<1> SUFFICES ASSUME Init PROVE Contract!Init
  OBVIOUS
<1> QED BY DEF Init, Contract!Init, Decoded

LEMMA WriteRefines ==
    ASSUME NEW c \in Callers, IInv, Write(c)
    PROVE  [Contract!Next]_<<Committed, Durable>>
<1>1. CASE disk' = disk
  BY <1>1 DEF Write, Committed, Durable, memory
<1>2. CASE disk' = pending[c]
  <2>1. /\ loaded /\ request[c] \in Request /\ ~Rejected(record, request[c])
        /\ pending[c] = Saved(record, invalid, request[c])
    BY DEF IInv, SaveInv, Write
  <2>2. invalid \in BOOLEAN /\ pending[c] \in Record \cup {NoRecord}
    BY DEF IInv, TypeOK
  <2>3. Durable' = Saved(record, invalid, request[c]) /\ Committed' = record
    BY <1>2, <2>1, <2>2, DamagedAssumption DEF Write, Durable, Committed, Decoded, memory
  <2>4. Contract!Attempt(request[c])
    BY <2>1, <2>2, <2>3, SameRejections, SameSaves
       DEF Contract!Attempt, Durable, Committed
  <2> QED BY <2>1, <2>4, SameRequests DEF Contract!Next
<1> QED BY <1>1, <1>2 DEF Write

LEMMA ConfirmRefines ==
    ASSUME NEW c \in Callers, IInv, Confirm(c)
    PROVE  [Contract!Next]_<<Committed, Durable>>
<1>1. loaded /\ pending[c] \in Record \cup {NoRecord}
  BY DEF IInv, SaveInv, TypeOK, Confirm
<1>2. Committed' = Durable /\ Durable' = Durable
  BY <1>1, DamagedAssumption DEF Confirm, Committed, Durable, Decoded
<1>3. Contract!Settle
  BY <1>2 DEF Contract!Settle, Committed, Durable
<1> QED BY <1>3 DEF Contract!Next

LEMMA RestartRefines ==
    ASSUME Restart
    PROVE  [Contract!Next]_<<Committed, Durable>>
<1>1. Contract!Settle
  BY DEF Restart, Contract!Settle, Committed, Durable, Decoded
<1> QED BY <1>1 DEF Contract!Next

LEMMA RemovalRefines ==
    ASSUME NEW c \in Callers, IInv, Unlink(c) \/ FinishRemove(c)
    PROVE  [Contract!Next]_<<Committed, Durable>>
<1> USE DEF Committed, Durable, Decoded
<1>1. CASE Unlink(c)
  <2>1. Contract!Erase
    BY <1>1, DamagedAssumption DEF Unlink, Contract!Erase, memory
  <2> QED BY <2>1 DEF Contract!Next
<1>2. CASE FinishRemove(c)
  <2>1. disk = NoRecord
    BY <1>2 DEF IInv, RemoveInv, FinishRemove
  <2>2. Contract!Settle
    BY <1>2, <2>1, DamagedAssumption DEF FinishRemove, Contract!Settle
  <2> QED BY <2>2 DEF Contract!Next
<1> QED BY <1>1, <1>2

(* Loading brings into memory what Committed already was.                  *)
LEMMA QuietRefines ==
    ASSUME NEW c \in Callers,
           \/ \E r \in AnyRequest : Call(c, r)
           \/ Acquire(c) \/ Load(c) \/ LoadFails(c) \/ Reject(c) \/ Answer(c)
           \/ BeginSave(c) \/ ConfirmFails(c) \/ RemoveFails(c) \/ Cancel(c)
    PROVE  UNCHANGED <<Committed, Durable>>
<1> USE DEF Committed, Durable, memory
<1>1. CASE Load(c)
  BY <1>1 DEF Load, Decoded
<1>2. CASE \E r \in AnyRequest : Call(c, r)
  BY <1>2 DEF Call
<1>3. CASE Acquire(c) \/ LoadFails(c) \/ Reject(c) \/ Answer(c)
  BY <1>3 DEF Acquire, LoadFails, Reject, Answer
<1>4. CASE BeginSave(c) \/ ConfirmFails(c) \/ RemoveFails(c) \/ Cancel(c)
  BY <1>4 DEF BeginSave, ConfirmFails, RemoveFails, Cancel
<1> QED BY <1>1, <1>2, <1>3, <1>4

LEMMA StepRefines == IInv /\ [Next]_vars => [Contract!Next]_<<Committed, Durable>>
<1> SUFFICES ASSUME IInv, [Next]_vars
             PROVE  [Contract!Next]_<<Committed, Durable>>
  OBVIOUS
<1>1. ASSUME NEW c \in Callers, NEW r \in AnyRequest, Call(c, r)
      PROVE  [Contract!Next]_<<Committed, Durable>>
  BY <1>1, QuietRefines
<1>2. ASSUME NEW c \in Callers, Serve(c)
      PROVE  [Contract!Next]_<<Committed, Durable>>
  BY <1>2, QuietRefines, WriteRefines, ConfirmRefines, RemovalRefines DEF Serve
<1>3. ASSUME NEW c \in Callers, Cancel(c)
      PROVE  [Contract!Next]_<<Committed, Durable>>
  BY <1>3, QuietRefines
<1>4. CASE Restart
  BY <1>4, RestartRefines
<1>5. CASE UNCHANGED vars
  BY <1>5 DEF vars, memory, Committed, Durable
<1> QED BY <1>1, <1>2, <1>3, <1>4, <1>5 DEF Next

(* The store implements its contract: what an operation reported done is   *)
(* what a restart finds, every record written is computed from the last    *)
(* one reported done, and only a record found on the disk is published.    *)
THEOREM StorageImplementsContract == Spec => ContractHolds
<1>1. IInv /\ [Next]_vars => [Contract!Next]_Contract!vars
  BY StepRefines DEF Contract!vars, Committed, Durable
<1> QED BY InitRefines, <1>1, InvariantHolds, PTL
        DEF Spec, ContractHolds, Contract!Spec
-----------------------------------------------------------------------------
(* The journal: what one operation changes in the record it starts from.   *)

(* t is s with an entry added at the end, the oldest one gone if s is full. *)
Moved(s, t, e) ==
    \/ /\ Len(s) < MaxCommands /\ Len(t) = Len(s) + 1
       /\ \A i \in 1..Len(s) : t[i] = s[i]
       /\ t[Len(t)] = e
    \/ /\ Len(s) = MaxCommands /\ Len(t) = MaxCommands
       /\ \A i \in 1..MaxCommands - 1 : t[i] = s[i + 1]
       /\ t[MaxCommands] = e

(* t is s with the state of the entry called id replaced.                  *)
Restated(s, t, id, state) ==
    /\ Len(t) = Len(s)
    /\ \A i \in 1..Len(s) :
          /\ t[i].id = s[i].id
          /\ t[i].state = IF s[i].id = id THEN state ELSE s[i].state

Accepted(id) == [id |-> id, state |-> "accepted"]

(* A push onto a journal within its bound adds at the end and drops at     *)
(* most the first entry.                                                   *)
LEMMA PushMoves ==
    ASSUME NEW S, NEW s \in Seq(S), NEW e \in S, Len(s) <= MaxCommands
    PROVE  Moved(s, Push(s, e, MaxCommands), e)
<1> USE MaxCommandsAssumption
<1>1. CASE Len(s) < MaxCommands
  BY <1>1 DEF Push, Moved
<1>2. CASE Len(s) = MaxCommands
  <2> DEFINE r == Tail(s)
  <2>1. s # <<>>
    BY <1>2
  <2>2. r \in Seq(S) /\ Len(r) = MaxCommands - 1
    BY <1>2, <2>1
  <2>3. \A i \in 1..MaxCommands - 1 : r[i] = s[i + 1]
    BY <1>2, <2>1
  <2>4. Push(s, e, MaxCommands) = Append(r, e)
    BY <1>2 DEF Push
  <2> HIDE DEF r
  <2>5. /\ Len(Append(r, e)) = MaxCommands
        /\ \A i \in 1..MaxCommands - 1 : Append(r, e)[i] = r[i]
        /\ Append(r, e)[MaxCommands] = e
    BY <2>2
  <2> QED BY <1>2, <2>3, <2>4, <2>5 DEF Moved
<1>3. Len(s) \in Nat
  OBVIOUS
<1> QED BY <1>1, <1>2, <1>3

LEMMA WithStateRestates ==
    ASSUME NEW rec \in Record, NEW id, NEW state
    PROVE  Restated(rec.commands, WithState(rec, id, state).commands, id, state)
<1> DEFINE cs == rec.commands
           new == [i \in 1..Len(cs) |->
                     IF cs[i].id = id THEN [cs[i] EXCEPT !.state = state] ELSE cs[i]]
<1>1. cs \in Seq(Command)
  BY DEF Record
<1>2. WithState(rec, id, state).commands = new
  BY DEF WithState, Record
<1>3. Len(cs) \in Nat
  BY <1>1
<1>4. Len(new) = Len(cs)
  <2> HIDE DEF cs
  <2> QED BY <1>3
<1>5. ASSUME NEW i \in 1..Len(cs)
      PROVE  /\ new[i].id = cs[i].id
             /\ new[i].state = IF cs[i].id = id THEN state ELSE cs[i].state
  <2>1. cs[i] \in Command
    <3> HIDE DEF cs
    <3> QED BY <1>1
  <2>2. new[i] = IF cs[i].id = id THEN [cs[i] EXCEPT !.state = state] ELSE cs[i]
    OBVIOUS
  <2> HIDE DEF cs, new
  <2> QED BY <2>1, <2>2 DEF Command
<1> HIDE DEF new
<1> QED BY <1>2, <1>4, <1>5 DEF Restated

(* What an operation that reaches the disk saves: an empty record of       *)
(* another context, or the record it read with one thing changed.          *)
Outcome(rec, new, req) ==
    /\ new.context = req.ctx
    /\ \/ /\ ~Matches(rec, req.ctx)
          /\ new.commands = <<>>
          /\ \A v \in Vehicles : new.plans[v] = NoPlan
       \/ /\ Matches(rec, req.ctx)
          /\ new.commands = rec.commands
          /\ \A v \in Vehicles :
                \/ new.plans[v] \in {rec.plans[v], NoPlan}
                \/ req.op = "setPlan" /\ new.plans[v] = req.plan
       \/ /\ Matches(rec, req.ctx) /\ req.op = "record"
          /\ new.commands = Push(rec.commands, Accepted(req.id), MaxCommands)
          /\ new.plans = rec.plans
       \/ /\ Matches(rec, req.ctx) /\ req.op = "update"
          /\ Holds(rec, req.id)
          /\ req.state \in Transitions[StateOf(rec, req.id)]
          /\ Restated(rec.commands, new.commands, req.id, req.state)
          /\ new.plans = rec.plans

LEMMA SavedOutcome ==
    ASSUME NEW rec \in Record \cup {NoRecord}, NEW invalid_ \in BOOLEAN,
           NEW req \in Request, ~Rejected(rec, req), Saves(rec, invalid_, req)
    PROVE  Outcome(rec, Saved(rec, invalid_, req), req)
<1> DEFINE new == Saved(rec, invalid_, req)
<1>0. req.ctx \in Contexts
  BY DEF Request
<1>1. CASE req.op \in {"load", "journal", "plans"}
  BY <1>1 DEF Saved, Saves, Outcome, EmptyRecord
<1>2. CASE req.op \in {"save", "clear"}
  <2>1. CASE Matches(rec, req.ctx)
    <3>1. rec \in Record /\ rec.context = req.ctx
      BY <2>1 DEF Matches
    <3> QED BY <1>2, <2>1, <3>1 DEF Saved, Carried, Outcome, Record
  <2>2. CASE ~Matches(rec, req.ctx)
    BY <1>2, <2>2 DEF Saved, Carried, EmptyRecord, Outcome
  <2> QED BY <2>1, <2>2
<1>3. CASE req.op \in {"record", "update", "setPlan", "removePlan"}
  <2>1. Matches(rec, req.ctx) /\ rec \in Record /\ rec.context = req.ctx
    BY <1>3 DEF Rejected, Matches
  <2>2. CASE req.op = "record"
    BY <2>1, <2>2 DEF Saved, WithCommand, Accepted, Outcome, Record
  <2>3. CASE req.op = "update"
    <3>1. Holds(rec, req.id) /\ req.state \in Transitions[StateOf(rec, req.id)]
      BY <2>1, <2>3 DEF Rejected
    <3>2. new = WithState(rec, req.id, req.state)
      BY <2>3 DEF Saved
    <3>3. Restated(rec.commands, new.commands, req.id, req.state)
      BY <2>1, <3>2, WithStateRestates
    <3>4. new.context = rec.context /\ new.plans = rec.plans
      BY <2>1, <3>2 DEF WithState, Record
    <3>5. Outcome(rec, new, req)
      <4> HIDE DEF new
      <4> QED BY <2>1, <2>3, <3>1, <3>3, <3>4 DEF Outcome
    <3> QED BY <3>5
  <2>4. CASE req.op = "setPlan"
    BY <2>1, <2>4 DEF Saved, WithPlan, Outcome, Record, Ownership
  <2>5. CASE req.op = "removePlan"
    BY <2>1, <2>5 DEF Saved, WithPlan, Outcome, Record, Ownership
  <2> QED BY <1>3, <2>2, <2>3, <2>4, <2>5
<1> QED BY <1>1, <1>2, <1>3 DEF Request

-----------------------------------------------------------------------------
(* What has to hold between the journal in memory, the one on the disk,    *)
(* the calls that are running and what callers have been told.             *)

Has(rec, j) == rec # NoRecord /\ Holds(rec, j)

(* A journal keeps its bound and names no entry twice.                     *)
Shaped(rec) ==
    rec # NoRecord =>
        /\ Len(rec.commands) <= MaxCommands
        /\ \A i, k \in 1..Len(rec.commands) :
              rec.commands[i].id = rec.commands[k].id => i = k

ShapeInv == Shaped(record) /\ Shaped(Decoded(disk))

Recording(c) == stage[c] # "idle" /\ request[c].op = "record"
Planning(c) == stage[c] # "idle" /\ request[c].op = "setPlan"

(* What a running call is about to store belongs to its context.           *)
OwnerInv ==
    /\ \A c \in Callers : Recording(c) => owner[request[c].id] = request[c].ctx
    /\ \A c \in Callers : Planning(c) => owner[request[c].plan] = request[c].ctx
    /\ \A j \in JournalIds : known[j] # Unknown => owner[j] # NoRecord

(* An entry that is being recorded is new: nobody was told of it, and no   *)
(* record names it until its own save has been written.                    *)
FreshInv ==
    /\ \A c \in Callers : Recording(c) =>
          /\ known[request[c].id] = Unknown
          /\ ~Has(record, request[c].id)
          /\ stage[c] # "confirming" => ~Has(Decoded(disk), request[c].id)
    /\ \A c, d \in Callers :
          Recording(c) /\ Recording(d) /\ request[c].id = request[d].id => c = d

SameIds(s, t) == Len(t) = Len(s) /\ \A i \in 1..Len(s) : t[i].id = s[i].id

PushedId(s, t, j) ==
    \/ /\ Len(s) < MaxCommands /\ Len(t) = Len(s) + 1
       /\ \A i \in 1..Len(s) : t[i].id = s[i].id
       /\ t[Len(t)].id = j
    \/ /\ Len(s) = MaxCommands /\ Len(t) = MaxCommands
       /\ \A i \in 1..MaxCommands - 1 : t[i].id = s[i + 1].id
       /\ t[MaxCommands].id = j

(* While a record is in memory the file holds it, or what one operation    *)
(* made of it whose save was not confirmed.                                *)
Follows(rec, new) ==
    new # NoRecord =>
        IF Matches(rec, new.context)
        THEN \/ SameIds(rec.commands, new.commands)
             \/ \E j \in JournalIds :
                   known[j] = Unknown /\ PushedId(rec.commands, new.commands, j)
        ELSE new.commands = <<>>

DiskInv == loaded => Follows(record, Decoded(disk))

JournalInv ==
    /\ ShapeInv /\ OwnerInv /\ FreshInv /\ DiskInv
    /\ ContextIsolation /\ JournalNeverRegresses

LEMMA DecodedType ==
    ASSUME TypeOK
    PROVE  Decoded(disk) \in Record \cup {NoRecord}
BY DEF TypeOK, Decoded

LEMMA DecodedRecord ==
    ASSUME NEW rec \in Record \cup {NoRecord}
    PROVE  Decoded(rec) = rec
BY DamagedAssumption DEF Decoded

(* What the entries of an outcome are: the old ones, or the recorded one.  *)
LEMMA OutcomeEntries ==
    ASSUME NEW rec \in Record \cup {NoRecord}, NEW new \in Record, NEW req \in Request,
           Shaped(rec), Outcome(rec, new, req),
           NEW i \in 1..Len(new.commands)
    PROVE  /\ Matches(rec, new.context) /\ rec \in Record
           /\ \/ \E k \in 1..Len(rec.commands) :
                    /\ new.commands[i].id = rec.commands[k].id
                    /\ \/ new.commands[i].state = rec.commands[k].state
                       \/ /\ req.op = "update" /\ rec.commands[k].id = req.id
                          /\ new.commands[i].state = req.state
                          /\ req.state \in Transitions[StateOf(rec, req.id)]
              \/ /\ req.op = "record" /\ new.commands[i].id = req.id
                 /\ new.commands[i].state = "accepted"
<1> DEFINE s == rec.commands
           t == new.commands
<1>0. ~(new.commands = <<>>)
  OBVIOUS
<1>1. Matches(rec, new.context) /\ rec \in Record
  BY <1>0 DEF Outcome, Matches
<1>2. s \in Seq(Command) /\ t \in Seq(Command) /\ Len(s) <= MaxCommands
  BY <1>1 DEF Record, Shaped, Matches
<1>2a. Len(s) \in Nat /\ Len(t) \in Nat /\ MaxCommands \in Nat
  BY <1>2, MaxCommandsAssumption
<1>3. CASE t = s
  BY <1>1, <1>3
<1>4. CASE req.op = "record" /\ t = Push(s, Accepted(req.id), MaxCommands)
  <2>1. Accepted(req.id) \in Command
    BY <1>4 DEF Accepted, Command, CommandStates, Request
  <2>2. Moved(s, t, Accepted(req.id))
    <3> HIDE DEF s, t
    <3> QED BY <1>2, <1>4, <2>1, PushMoves
  <2>3. t[i] = Accepted(req.id) \/ \E k \in 1..Len(s) : t[i] = s[k]
    <3>1. CASE Len(s) < MaxCommands /\ Len(t) = Len(s) + 1
      <4> HIDE DEF s
      <4> QED BY <1>2a, <2>2, <3>1 DEF Moved
    <3>2. CASE Len(s) = MaxCommands /\ Len(t) = MaxCommands
      <4>1. CASE i = MaxCommands
        BY <1>2a, <2>2, <3>2, <4>1 DEF Moved
      <4>2. CASE i # MaxCommands
        <5>1. i \in 1..MaxCommands - 1 /\ i + 1 \in 1..Len(s)
          BY <1>2a, <3>2, <4>2
        <5>2. t[i] = s[i + 1]
          BY <1>2a, <2>2, <3>2, <5>1 DEF Moved
        <5> QED BY <5>1, <5>2
      <4> QED BY <4>1, <4>2
    <3> QED BY <2>2, <3>1, <3>2 DEF Moved
  <2> HIDE DEF s, t
  <2>4. CASE t[i] = Accepted(req.id)
    BY <1>1, <1>4, <2>4 DEF Accepted, s, t
  <2>5. CASE \E k \in 1..Len(s) : t[i] = s[k]
    BY <1>1, <2>5 DEF s, t
  <2> QED BY <2>3, <2>4, <2>5
<1>5. CASE /\ req.op = "update" /\ Restated(s, t, req.id, req.state)
           /\ req.state \in Transitions[StateOf(rec, req.id)]
  <2>1. /\ i \in 1..Len(s) /\ t[i].id = s[i].id
        /\ t[i].state = IF s[i].id = req.id THEN req.state ELSE s[i].state
    BY <1>5 DEF Restated
  <2> QED BY <1>1, <1>5, <2>1
<1> QED BY <1>0, <1>3, <1>4, <1>5 DEF Outcome

(* An outcome names no entry that its record does not, except the one it   *)
(* records.                                                                *)
LEMMA OutcomeHas ==
    ASSUME NEW rec \in Record \cup {NoRecord}, NEW new \in Record, NEW req \in Request,
           Shaped(rec), Outcome(rec, new, req),
           NEW j, Has(new, j)
    PROVE  Has(rec, j) \/ (req.op = "record" /\ j = req.id)
<1> PICK i \in 1..Len(new.commands) : new.commands[i].id = j
  BY DEF Has, Holds
<1> QED BY OutcomeEntries, NoRecordAssumption DEF Has, Holds

LEMMA OutcomeShaped ==
    ASSUME NEW rec \in Record \cup {NoRecord}, NEW new \in Record, NEW req \in Request,
           Shaped(rec), Outcome(rec, new, req),
           req.op = "record" => ~Has(rec, req.id)
    PROVE  Shaped(new)
<1> DEFINE s == rec.commands
           t == new.commands
<1>0. t \in Seq(Command)
  BY DEF Record
<1>1. CASE t = <<>>
  BY <1>1, MaxCommandsAssumption DEF Shaped
<1>2. CASE ~(t = <<>>)
  <2>1. Matches(rec, new.context) /\ rec \in Record
    BY <1>2 DEF Outcome, Matches
  <2>2. /\ s \in Seq(Command) /\ Len(s) <= MaxCommands
        /\ \A i, k \in 1..Len(s) : s[i].id = s[k].id => i = k
    BY <2>1, NoRecordAssumption DEF Record, Shaped
  <2>3. Len(s) \in Nat /\ Len(t) \in Nat /\ MaxCommands \in Nat \ {0}
    BY <1>0, <2>2, MaxCommandsAssumption
  <2>4. CASE t = s
    BY <2>2, <2>4 DEF Shaped
  <2>5. CASE req.op = "record" /\ t = Push(s, Accepted(req.id), MaxCommands)
    <3>1. Accepted(req.id) \in Command /\ Accepted(req.id).id = req.id
      BY <2>5 DEF Accepted, Command, CommandStates, Request
    <3>2. Moved(s, t, Accepted(req.id))
      <4> HIDE DEF s, t
      <4> QED BY <2>2, <2>5, <3>1, PushMoves
    <3>3. \A i \in 1..Len(s) : s[i].id # req.id
      BY <2>1, <2>5, NoRecordAssumption DEF Has, Holds
    <3> DEFINE e == Accepted(req.id)
    <3> HIDE DEF s, t, e
    <3>4. CASE /\ Len(s) < MaxCommands /\ Len(t) = Len(s) + 1
               /\ \A i \in 1..Len(s) : t[i] = s[i]
               /\ t[Len(t)] = e
      <4>1. \A i, k \in 1..Len(t) : t[i].id = t[k].id => i = k
        BY <2>2, <2>3, <3>1, <3>3, <3>4 DEF e
      <4> QED BY <2>3, <3>4, <4>1 DEF Shaped, t
    <3>5. CASE /\ Len(s) = MaxCommands /\ Len(t) = MaxCommands
               /\ \A i \in 1..MaxCommands - 1 : t[i] = s[i + 1]
               /\ t[MaxCommands] = e
      <4>1. \A i, k \in 1..Len(t) : t[i].id = t[k].id => i = k
        <5> SUFFICES ASSUME NEW i \in 1..Len(t), NEW k \in 1..Len(t), t[i].id = t[k].id
                     PROVE  i = k
          OBVIOUS
        <5>1. \A m \in 1..Len(t) : m # MaxCommands =>
                /\ m \in 1..MaxCommands - 1 /\ m + 1 \in 1..Len(s)
          BY <2>3, <3>5
        <5>2. \A m \in 1..Len(t) : m # MaxCommands =>
                m + 1 \in 1..Len(s) /\ t[m].id = s[m + 1].id /\ t[m].id # req.id
          BY <3>3, <3>5, <5>1
        <5>3. t[MaxCommands].id = req.id
          BY <3>1, <3>5 DEF e
        <5>4. CASE i # MaxCommands /\ k # MaxCommands
          <6>1. i + 1 = k + 1
            BY <2>2, <5>2, <5>4
          <6> QED BY <2>3, <6>1
        <5> QED BY <5>2, <5>3, <5>4
      <4> QED BY <2>3, <3>5, <4>1 DEF Shaped, t
    <3> QED BY <3>2, <3>4, <3>5 DEF Moved, e
  <2>6. CASE Restated(s, t, req.id, req.state)
    BY <2>2, <2>6 DEF Restated, Shaped
  <2> QED BY <1>2, <2>4, <2>5, <2>6 DEF Outcome
<1> QED BY <1>1, <1>2

(* An operation stores only what its own context owns.                     *)
LEMMA OutcomeIsolated ==
    ASSUME NEW rec \in Record \cup {NoRecord}, NEW new \in Record, NEW req \in Request,
           Shaped(rec), Outcome(rec, new, req), Isolated(rec),
           req.op = "record" => owner[req.id] = req.ctx,
           req.op = "setPlan" => owner[req.plan] = req.ctx
    PROVE  Isolated(new)
<1>1. ASSUME NEW i \in 1..Len(new.commands)
      PROVE  owner[new.commands[i].id] = new.context
  <2>1. /\ Matches(rec, new.context) /\ rec \in Record
        /\ \/ \E k \in 1..Len(rec.commands) : new.commands[i].id = rec.commands[k].id
           \/ req.op = "record" /\ new.commands[i].id = req.id
    BY OutcomeEntries
  <2>2. new.context = req.ctx /\ rec.context = req.ctx
    BY <2>1 DEF Outcome, Matches
  <2> QED BY <2>1, <2>2, NoRecordAssumption DEF Isolated
<1>2. ASSUME NEW v \in Vehicles, new.plans[v] # NoPlan
      PROVE  owner[new.plans[v]] = new.context
  <2>1. new.context = req.ctx
    BY DEF Outcome
  <2>2. /\ Matches(rec, req.ctx)
        /\ \/ new.plans[v] = rec.plans[v]
           \/ req.op = "setPlan" /\ new.plans[v] = req.plan
    BY <1>2 DEF Outcome
  <2> QED BY <1>2, <2>1, <2>2 DEF Isolated, Matches
<1> QED BY <1>1, <1>2 DEF Isolated

(* The state of an entry a journal names once is its state.                *)
LEMMA StateOfEntry ==
    ASSUME NEW rec \in Record, Shaped(rec), NEW k \in 1..Len(rec.commands)
    PROVE  StateOf(rec, rec.commands[k].id) = rec.commands[k].state
<1> DEFINE n == CHOOSE i \in 1..Len(rec.commands) : rec.commands[i].id = rec.commands[k].id
<1>1. n \in 1..Len(rec.commands) /\ rec.commands[n].id = rec.commands[k].id
  OBVIOUS
<1>2. StateOf(rec, rec.commands[k].id) = rec.commands[n].state
  BY DEF StateOf
<1> HIDE DEF n
<1>3. n = k
  BY <1>1, NoRecordAssumption DEF Shaped
<1> QED BY <1>2, <1>3

LEMMA TransitionsCompose ==
    ASSUME NEW a \in CommandStates, NEW b \in Transitions[a], NEW c \in Transitions[b]
    PROVE  b \in CommandStates /\ c \in Transitions[a]
BY DEF Transitions, CommandStates

LEMMA TransitionsReflexive ==
    ASSUME NEW a \in CommandStates
    PROVE  a \in Transitions[a]
BY DEF Transitions, CommandStates

(* No operation takes an entry back before the state callers know.         *)
LEMMA OutcomeNeverRegresses ==
    ASSUME NEW rec \in Record \cup {NoRecord}, NEW new \in Record, NEW req \in Request,
           TypeOK, Shaped(rec), Outcome(rec, new, req), NeverRegresses(rec),
           req.op = "record" => known[req.id] = Unknown
    PROVE  NeverRegresses(new)
<1> SUFFICES ASSUME NEW i \in 1..Len(new.commands), known[new.commands[i].id] # Unknown
             PROVE  new.commands[i].state \in Transitions[known[new.commands[i].id]]
  BY DEF NeverRegresses
<1>1. /\ rec \in Record
      /\ \E k \in 1..Len(rec.commands) :
            /\ new.commands[i].id = rec.commands[k].id
            /\ \/ new.commands[i].state = rec.commands[k].state
               \/ /\ req.op = "update" /\ rec.commands[k].id = req.id
                  /\ new.commands[i].state = req.state
                  /\ req.state \in Transitions[StateOf(rec, req.id)]
  BY OutcomeEntries
<1>2. PICK k \in 1..Len(rec.commands) :
            /\ new.commands[i].id = rec.commands[k].id
            /\ \/ new.commands[i].state = rec.commands[k].state
               \/ /\ req.op = "update" /\ rec.commands[k].id = req.id
                  /\ new.commands[i].state = req.state
                  /\ req.state \in Transitions[StateOf(rec, req.id)]
  BY <1>1
<1>3. rec.commands[k].state \in Transitions[known[new.commands[i].id]]
  BY <1>1, <1>2, NoRecordAssumption DEF NeverRegresses
<1>4. known[new.commands[i].id] \in CommandStates
  <2>1. rec.commands \in Seq(Command)
    BY <1>1 DEF Record
  <2>2. rec.commands[k] \in Command
    BY <2>1
  <2> QED BY <1>2, <2>2 DEF Command, TypeOK
<1>5. CASE new.commands[i].state = rec.commands[k].state
  BY <1>3, <1>5
<1>6. CASE /\ rec.commands[k].id = req.id /\ new.commands[i].state = req.state
           /\ req.state \in Transitions[StateOf(rec, req.id)]
  <2>1. req.state \in Transitions[rec.commands[k].state]
    BY <1>1, <1>6, StateOfEntry
  <2> QED BY <1>3, <1>4, <1>6, <2>1, TransitionsCompose
<1> QED BY <1>2, <1>5, <1>6

(* An outcome follows the record it was computed from.                     *)
LEMMA OutcomeFollows ==
    ASSUME NEW rec \in Record \cup {NoRecord}, NEW new \in Record, NEW req \in Request,
           Shaped(rec), Outcome(rec, new, req),
           req.op = "record" => known[req.id] = Unknown
    PROVE  Follows(rec, new)
<1> DEFINE s == rec.commands
           t == new.commands
<1>1. new.context = req.ctx
  BY DEF Outcome
<1>2. CASE ~Matches(rec, req.ctx)
  BY <1>1, <1>2 DEF Outcome, Follows
<1>3. CASE Matches(rec, req.ctx)
  <2>1. rec \in Record /\ s \in Seq(Command) /\ Len(s) <= MaxCommands
    BY <1>3 DEF Matches, Record, Shaped
  <2>2. CASE t = s
    BY <1>1, <1>3, <2>2 DEF Follows, SameIds
  <2>3. CASE req.op = "record" /\ t = Push(s, Accepted(req.id), MaxCommands)
    <3>1. req.id \in JournalIds /\ Accepted(req.id) \in Command /\ Accepted(req.id).id = req.id
      BY <2>3 DEF Accepted, Command, CommandStates, Request
    <3>2. Moved(s, t, Accepted(req.id))
      <4> HIDE DEF s, t
      <4> QED BY <2>1, <2>3, <3>1, PushMoves
    <3>3. PushedId(s, t, req.id)
      <4> HIDE DEF s, t
      <4> QED BY <3>1, <3>2 DEF Moved, PushedId
    <3> QED BY <1>1, <1>3, <2>3, <3>1, <3>3 DEF Follows
  <2>4. CASE Restated(s, t, req.id, req.state)
    BY <1>1, <1>3, <2>4 DEF Follows, SameIds, Restated
  <2> QED BY <1>3, <2>2, <2>3, <2>4 DEF Outcome
<1> QED BY <1>2, <1>3

(* Two records that follow the same one differ, among the entries callers  *)
(* know of, by no more than the oldest of a full journal.                  *)
LEMMA FollowersKeep ==
    ASSUME NEW rec \in Record \cup {NoRecord}, NEW old \in Record \cup {NoRecord},
           NEW new \in Record \cup {NoRecord},
           Shaped(rec), Follows(rec, old), Follows(rec, new)
    PROVE  LossJustified(old, new)
<1> SUFFICES ASSUME old # NoRecord, new # NoRecord, new.context = old.context,
                    NEW j \in JournalIds, Holds(old, j), ~Holds(new, j), known[j] # Unknown
             PROVE  Pushed(old, new) /\ old.commands[1].id = j
  BY DEF LossJustified
<1> DEFINE r == rec.commands
           s == old.commands
           t == new.commands
<1>1. PICK i \in 1..Len(s) : s[i].id = j
  BY DEF Holds
<1>2. Matches(rec, old.context) /\ rec \in Record
  BY <1>1 DEF Follows, Matches
<1>3. /\ r \in Seq(Command) /\ s \in Seq(Command) /\ t \in Seq(Command)
      /\ Len(r) <= MaxCommands
  BY <1>2, NoRecordAssumption DEF Record, Shaped
<1>4. /\ Len(r) \in Nat /\ Len(s) \in Nat /\ Len(t) \in Nat
      /\ MaxCommands \in Nat \ {0}
  BY <1>3, MaxCommandsAssumption
<1>5. \A k \in 1..Len(t) : t[k].id # j
  BY DEF Holds
<1>6. SameIds(r, s) \/ \E x \in JournalIds : known[x] = Unknown /\ PushedId(r, s, x)
  BY <1>2 DEF Follows
<1>7. SameIds(r, t) \/ \E x \in JournalIds : known[x] = Unknown /\ PushedId(r, t, x)
  BY <1>2 DEF Follows
<1>8. Pushed(old, new) <=>
         /\ Len(s) = MaxCommands /\ Len(t) = MaxCommands
         /\ \A k \in 1..MaxCommands - 1 : t[k].id = s[k + 1].id
  BY DEF Pushed
<1> HIDE DEF r, s, t
<1>9. CASE SameIds(r, t)
  <2>1. \A k \in 1..Len(r) : r[k].id # j
    BY <1>5, <1>9 DEF SameIds
  <2>2. CASE SameIds(r, s)
    BY <1>1, <2>1, <2>2 DEF SameIds
  <2>3. ASSUME NEW x \in JournalIds, known[x] = Unknown, PushedId(r, s, x) PROVE FALSE
    <3>1. x # j
      BY <2>3
    <3>2. CASE Len(r) < MaxCommands
      <4>1. i \in 1..Len(r) \/ i = Len(s)
        BY <1>1, <1>4, <2>3, <3>2 DEF PushedId
      <4> QED BY <1>1, <1>4, <2>1, <2>3, <3>1, <3>2, <4>1 DEF PushedId
    <3>3. CASE Len(r) = MaxCommands
      <4>1. i = MaxCommands \/ (i \in 1..MaxCommands - 1 /\ i + 1 \in 1..Len(r))
        BY <1>1, <1>4, <2>3, <3>3 DEF PushedId
      <4> QED BY <1>1, <1>4, <2>1, <2>3, <3>1, <3>3, <4>1 DEF PushedId
    <3> QED BY <1>3, <1>4, <3>2, <3>3
  <2> QED BY <1>6, <2>2, <2>3
<1>10. ASSUME NEW y \in JournalIds, known[y] = Unknown, PushedId(r, t, y)
       PROVE  Pushed(old, new) /\ s[1].id = j
  <2>1. CASE Len(r) < MaxCommands
    <3>1. \A k \in 1..Len(r) : r[k].id # j
      BY <1>4, <1>5, <1>10, <2>1 DEF PushedId
    <3>2. CASE SameIds(r, s)
      BY <1>1, <3>1, <3>2 DEF SameIds
    <3>3. ASSUME NEW x \in JournalIds, known[x] = Unknown, PushedId(r, s, x) PROVE FALSE
      <4>1. i \in 1..Len(r) \/ i = Len(s)
        BY <1>1, <1>4, <2>1, <3>3 DEF PushedId
      <4> QED BY <1>1, <1>4, <2>1, <3>1, <3>3, <4>1 DEF PushedId
    <3> QED BY <1>6, <3>2, <3>3
  <2>2. CASE Len(r) = MaxCommands
    <3>1. \A k \in 1..MaxCommands : k # 1 => r[k].id # j
      <4> SUFFICES ASSUME NEW k \in 1..MaxCommands, k # 1 PROVE r[k].id # j
        OBVIOUS
      <4>1. k - 1 \in 1..MaxCommands - 1 /\ k - 1 \in 1..Len(t) /\ (k - 1) + 1 = k
        BY <1>4, <1>10, <2>2 DEF PushedId
      <4>2. t[k - 1].id = r[k].id
        BY <1>4, <1>10, <2>2, <4>1 DEF PushedId
      <4> QED BY <1>5, <4>1, <4>2
    <3>2. CASE SameIds(r, s)
      <4>1. s[1].id = j
        BY <1>1, <1>4, <2>2, <3>1, <3>2 DEF SameIds
      <4>2. Len(s) = MaxCommands /\ Len(t) = MaxCommands
        BY <1>4, <1>10, <2>2, <3>2 DEF SameIds, PushedId
      <4>3. \A k \in 1..MaxCommands - 1 : t[k].id = r[k + 1].id
        BY <1>4, <1>10, <2>2 DEF PushedId
      <4>4. \A k \in 1..MaxCommands - 1 : s[k + 1].id = r[k + 1].id
        BY <1>4, <2>2, <3>2 DEF SameIds
      <4> QED BY <1>8, <4>1, <4>2, <4>3, <4>4
    <3>3. ASSUME NEW x \in JournalIds, known[x] = Unknown, PushedId(r, s, x) PROVE FALSE
      <4>1. i = MaxCommands \/ (i \in 1..MaxCommands - 1 /\ i + 1 \in 1..MaxCommands /\ i + 1 # 1)
        BY <1>1, <1>4, <2>2, <3>3 DEF PushedId
      <4> QED BY <1>1, <1>4, <2>2, <3>1, <3>3, <4>1 DEF PushedId
    <3> QED BY <1>6, <3>2, <3>3
  <2> QED BY <1>4, <1>3, <2>1, <2>2
<1> QED BY <1>7, <1>9, <1>10 DEF s

LEMMA FollowsItself ==
    ASSUME NEW rec \in Record \cup {NoRecord}
    PROVE  Follows(rec, rec)
BY DEF Follows, Matches, SameIds

-----------------------------------------------------------------------------
(* The invariant of the journal, step by step.                             *)

LEMMA InitJournal == Init => JournalInv
<1> SUFFICES ASSUME Init PROVE JournalInv
  OBVIOUS
<1>1. record = NoRecord /\ Decoded(disk) = NoRecord /\ loaded = FALSE
  BY DEF Init, Decoded
<1>2. ShapeInv /\ DiskInv /\ ContextIsolation /\ JournalNeverRegresses
  BY <1>1 DEF ShapeInv, Shaped, DiskInv, ContextIsolation, Isolated,
              JournalNeverRegresses, NeverRegresses
<1>3. OwnerInv /\ FreshInv
  BY DEF Init, OwnerInv, FreshInv, Recording, Planning
<1> QED BY <1>2, <1>3 DEF JournalInv

(* The calls that run after a step ran before it, unchanged, and none of   *)
(* them left the confirmation of its save.                                 *)
CallsRemain ==
    \A c \in Callers : stage'[c] # "idle" =>
        /\ stage[c] # "idle" /\ request'[c] = request[c]
        /\ stage[c] = "confirming" => stage'[c] = "confirming"

(* A step that publishes nothing new, and at most forgets.                 *)
LEMMA ForgettingKeeps ==
    ASSUME JournalInv, CallsRemain, UNCHANGED history,
           disk' \in {disk, NoRecord}, record' \in {record, NoRecord},
           loaded' => (loaded /\ record' = record) \/ disk' = NoRecord
    PROVE  JournalInv'
<1> DEFINE D == Decoded(disk)
           E == Decoded(disk')
<1>1. E \in {D, NoRecord} /\ (disk' = NoRecord => E = NoRecord)
  BY DEF Decoded
<1> HIDE DEF D, E
<1>2. ShapeInv'
  BY <1>1 DEF JournalInv, ShapeInv, Shaped, D, E
<1>3. OwnerInv'
  BY DEF JournalInv, OwnerInv, CallsRemain, Recording, Planning, history
<1>4. FreshInv'
  <2>1. \A c \in Callers : Recording(c)' =>
           Recording(c) /\ request'[c] = request[c]
             /\ (stage'[c] # "confirming" => stage[c] # "confirming")
    BY DEF CallsRemain, Recording
  <2>2. \A j : Has(record', j) => Has(record, j)
    BY DEF Has
  <2>3. \A j : Has(E, j) => Has(D, j)
    BY <1>1 DEF Has
  <2> QED BY <2>1, <2>2, <2>3 DEF JournalInv, FreshInv, history, D, E
<1>5. DiskInv'
  <2>1. CASE disk' = NoRecord
    BY <1>1, <2>1 DEF DiskInv, Follows, E
  <2>2. CASE disk' = disk /\ loaded' = FALSE
    BY <2>2 DEF DiskInv
  <2>3. CASE disk' = disk /\ record' = record /\ loaded
    BY <2>3, Zenon DEF JournalInv, DiskInv, Follows, history, Matches, Decoded
  <2> QED BY <2>1, <2>2, <2>3, SMT DEF DiskInv
<1>6. ContextIsolation'
  BY <1>1 DEF JournalInv, ContextIsolation, Isolated, history, D, E
<1>7. JournalNeverRegresses'
  BY <1>1 DEF JournalInv, JournalNeverRegresses, NeverRegresses, history, D, E
<1> QED BY <1>2, <1>3, <1>4, <1>5, <1>6, <1>7 DEF JournalInv

(* Learning from a record leaves what was known of the entries it does not *)
(* name, and makes known the state of those it names.                      *)
LEMMA LearnedOf ==
    ASSUME NEW rec \in Record \cup {NoRecord}, NEW j \in JournalIds
    PROVE  Learned(rec)[j] = IF Has(rec, j) THEN StateOf(rec, j) ELSE known[j]
BY DEF Learned, Has

(* What the calls that record or plan were asked.                          *)
LEMMA RecordingRequest ==
    ASSUME IInv, NEW c \in Callers, Recording(c)
    PROVE  request[c] \in Request /\ request[c].id \in JournalIds /\ request[c].ctx \in Contexts
<1>1. request[c] \in AnyRequest
  BY DEF IInv, BusyInv, Recording
<1> QED BY <1>1 DEF Recording, AnyRequest, Request, RemoveRequest

(* A step that publishes the record the file holds.                        *)
LEMMA PublishingKeeps ==
    ASSUME IInv, JournalInv, CallsRemain,
           disk' = disk, record' = Decoded(disk), known' = Learned(Decoded(disk)),
           owner' = owner,
           \A c \in Callers : stage'[c] # "confirming"
    PROVE  JournalInv'
<1> DEFINE D == Decoded(disk)
<1>1. D \in Record \cup {NoRecord} /\ Decoded(disk') = D /\ record' = D
  BY DecodedType DEF IInv
<1>2. \A j \in JournalIds : known'[j] = IF Has(D, j) THEN StateOf(D, j) ELSE known[j]
  BY <1>1, LearnedOf
<1>3. Shaped(D) /\ Isolated(D) /\ NeverRegresses(D)
  BY DEF JournalInv, ShapeInv, ContextIsolation, JournalNeverRegresses
<1> HIDE DEF D
<1>4. ShapeInv'
  BY <1>1, <1>3 DEF ShapeInv, Shaped
<1>5. \A c \in Callers : Recording(c)' =>
         /\ Recording(c) /\ request'[c] = request[c]
         /\ stage[c] # "confirming"
  BY DEF CallsRemain, Recording
<1>6. OwnerInv'
  <2>1. ASSUME NEW j \in JournalIds, known'[j] # Unknown
        PROVE  owner[j] # NoRecord
    <3>1. CASE Has(D, j)
      <4>1. D \in Record /\ \E i \in 1..Len(D.commands) : D.commands[i].id = j
        BY <1>1, <3>1 DEF Has, Holds
      <4>2. owner[j] = D.context /\ D.context \in Contexts
        BY <1>3, <4>1, NoRecordAssumption DEF Isolated, Record
      <4> QED BY <4>2, ContextAssumption
    <3>2. CASE ~Has(D, j)
      BY <1>2, <2>1, <3>2 DEF JournalInv, OwnerInv
    <3> QED BY <3>1, <3>2
  <2>2. \A c \in Callers : Planning(c)' => Planning(c) /\ request'[c] = request[c]
    BY DEF CallsRemain, Planning
  <2> QED BY <1>5, <2>1, <2>2 DEF JournalInv, OwnerInv
<1>7. FreshInv'
  <2>1. ASSUME NEW c \in Callers, Recording(c)'
        PROVE  /\ known'[request'[c].id] = Unknown
               /\ ~Has(D, request'[c].id)
    <3>1. /\ Recording(c) /\ request'[c] = request[c]
          /\ ~Has(D, request[c].id) /\ known[request[c].id] = Unknown
      BY <1>5, <2>1 DEF JournalInv, FreshInv, D
    <3>2. request[c].id \in JournalIds
      BY <3>1, RecordingRequest
    <3> QED BY <1>2, <3>1, <3>2
  <2>2. \A c, d \in Callers :
          Recording(c)' /\ Recording(d)' /\ request'[c].id = request'[d].id => c = d
    BY <1>5 DEF JournalInv, FreshInv
  <2> QED BY <1>1, <2>1, <2>2 DEF FreshInv
<1>8. DiskInv'
  <2>1. ASSUME D # NoRecord PROVE Matches(D, D.context)
    BY <2>1 DEF Matches
  <2> QED BY <1>1, <2>1, Zenon DEF DiskInv, Follows, SameIds
<1>9. ContextIsolation'
  BY <1>1, <1>3 DEF ContextIsolation, Isolated
<1>10. JournalNeverRegresses'
  <2>1. ASSUME D # NoRecord, NEW i \in 1..Len(D.commands),
               known'[D.commands[i].id] # Unknown
        PROVE  D.commands[i].state \in Transitions[known'[D.commands[i].id]]
    <3>1. D \in Record /\ D.commands \in Seq(Command)
      BY <1>1, <2>1 DEF Record
    <3>2. D.commands[i] \in Command
      BY <3>1
    <3>3. known'[D.commands[i].id] = D.commands[i].state
      BY <1>2, <1>3, <2>1, <3>1, <3>2, StateOfEntry DEF Has, Holds, Command
    <3> QED BY <3>2, <3>3, TransitionsReflexive DEF Command
  <2> QED BY <1>1, <2>1 DEF JournalNeverRegresses, NeverRegresses
<1> QED BY <1>4, <1>6, <1>7, <1>8, <1>9, <1>10 DEF JournalInv

LEMMA CallKeeps ==
    ASSUME NEW c \in Callers, NEW r \in AnyRequest, IInv, JournalInv, Call(c, r)
    PROVE  JournalInv'
<1>1. /\ UNCHANGED <<disk, record, loaded, known>>
      /\ stage' = [stage EXCEPT ![c] = "waiting"]
      /\ request' = [request EXCEPT ![c] = r]
      /\ stage[c] = "idle"
  BY DEF Call, memory
<1>2. stage \in [Callers -> Stages] /\ request \in [Callers -> AnyRequest \cup {NoRequest}]
  BY DEF IInv, TypeOK
<1>3. /\ r.op = "record" => r.id \in JournalIds /\ r.ctx \in Contexts
      /\ r.op = "setPlan" => r.plan \in Plans /\ r.ctx \in Contexts
  BY DEF AnyRequest, Request, RemoveRequest
<1>4. /\ r.op = "record" => owner[r.id] = NoRecord /\ owner'[r.id] = r.ctx
      /\ r.op = "setPlan" => owner'[r.plan] = r.ctx
      /\ \A x \in JournalIds \cup Plans : owner'[x] = owner[x] \/ owner[x] = NoRecord
  <2>1. owner \in [JournalIds \cup Plans -> Contexts \cup {NoRecord}]
    BY DEF IInv, TypeOK
  <2>2. CASE r.op = "record"
    BY <1>3, <2>1, <2>2 DEF Call, Issue
  <2>3. CASE r.op = "setPlan"
    BY <1>3, <2>1, <2>3 DEF Call, Issue
  <2>4. CASE r.op \notin {"record", "setPlan"}
    BY <2>4 DEF Call, Issue
  <2> QED BY <2>2, <2>3, <2>4
<1>5. \A x \in JournalIds \cup Plans : owner[x] # NoRecord => owner'[x] = owner[x]
  BY <1>4
<1>6. ShapeInv' /\ DiskInv' /\ JournalNeverRegresses'
  BY <1>1, Zenon DEF JournalInv, ShapeInv, Shaped, DiskInv, Follows, Decoded, Matches,
              JournalNeverRegresses, NeverRegresses
<1>7. ContextIsolation'
  <2>1. ASSUME NEW rec \in Record \cup {NoRecord}, Isolated(rec)
        PROVE  Isolated(rec)'
    <3> SUFFICES ASSUME rec # NoRecord PROVE Isolated(rec)'
      BY DEF Isolated
    <3>1. rec.context # NoRecord /\ rec.commands \in Seq(Command) /\ rec.plans \in Ownership
      BY ContextAssumption DEF Record
    <3>2. ASSUME NEW i \in 1..Len(rec.commands)
          PROVE  owner'[rec.commands[i].id] = rec.context
      <4>1. rec.commands[i] \in Command
        BY <3>1
      <4> QED BY <1>5, <2>1, <3>1, <4>1 DEF Isolated, Command
    <3>3. ASSUME NEW v \in Vehicles, rec.plans[v] # NoPlan
          PROVE  owner'[rec.plans[v]] = rec.context
      BY <1>5, <2>1, <3>1, <3>3 DEF Isolated, Ownership
    <3> QED BY <3>2, <3>3 DEF Isolated
  <2>2. record \in Record \cup {NoRecord} /\ Decoded(disk) \in Record \cup {NoRecord}
    BY DecodedType DEF IInv, TypeOK
  <2> QED BY <1>1, <2>1, <2>2 DEF JournalInv, ContextIsolation, Isolated
<1>8. ASSUME NEW d \in Callers
      PROVE  /\ d # c => /\ Recording(d)' <=> Recording(d)
                         /\ Planning(d)' <=> Planning(d)
                         /\ request'[d] = request[d] /\ stage'[d] = stage[d]
             /\ d = c => /\ Recording(d)' => r.op = "record"
                         /\ Planning(d)' => r.op = "setPlan"
                         /\ request'[d] = r /\ stage'[d] = "waiting"
  BY <1>1, <1>2 DEF Recording, Planning
<1>9. ASSUME NEW d \in Callers, Planning(d)
      PROVE  request[d].plan \in Plans /\ owner[request[d].plan] # NoRecord
  <2>1. request[d] \in AnyRequest
    BY <1>9 DEF IInv, BusyInv, Planning
  <2>2. request[d].ctx \in Contexts /\ request[d].plan \in Plans
    BY <1>9, <2>1 DEF Planning, AnyRequest, Request, RemoveRequest
  <2> QED BY <1>9, <2>2, ContextAssumption DEF JournalInv, OwnerInv
<1>10. ASSUME NEW d \in Callers, Recording(d)
       PROVE  request[d].id \in JournalIds /\ owner[request[d].id] # NoRecord
  BY <1>10, RecordingRequest, ContextAssumption DEF JournalInv, OwnerInv
<1>11. OwnerInv'
  <2>1. \A d \in Callers : Recording(d)' => owner'[request'[d].id] = request'[d].ctx
    BY <1>4, <1>5, <1>8, <1>10 DEF JournalInv, OwnerInv
  <2>2. \A d \in Callers : Planning(d)' => owner'[request'[d].plan] = request'[d].ctx
    BY <1>4, <1>5, <1>8, <1>9 DEF JournalInv, OwnerInv
  <2>3. \A j \in JournalIds : known'[j] # Unknown => owner'[j] # NoRecord
    BY <1>1, <1>5 DEF JournalInv, OwnerInv
  <2> QED BY <2>1, <2>2, <2>3 DEF OwnerInv
<1>12. ASSUME NEW rec \in Record \cup {NoRecord}, Isolated(rec),
              NEW j, owner[j] = NoRecord
       PROVE  ~Has(rec, j)
  BY <1>12, ContextAssumption, NoRecordAssumption DEF Isolated, Has, Holds, Record
<1>13. FreshInv'
  <2>1. ASSUME NEW d \in Callers, Recording(d)'
        PROVE  /\ known'[request'[d].id] = Unknown
               /\ ~Has(record', request'[d].id)
               /\ stage'[d] # "confirming" => ~Has(Decoded(disk'), request'[d].id)
    <3>1. CASE d = c
      <4>1. r.op = "record" /\ request'[d] = r
        BY <1>8, <2>1, <3>1
      <4>2. owner[r.id] = NoRecord /\ r.id \in JournalIds
        BY <1>3, <1>4, <4>1
      <4>3. known[r.id] = Unknown
        BY <4>2 DEF JournalInv, OwnerInv
      <4>4. ~Has(record, r.id) /\ ~Has(Decoded(disk), r.id)
        BY <1>12, <4>2, DecodedType DEF IInv, TypeOK, JournalInv, ContextIsolation
      <4> QED BY <1>1, <4>1, <4>3, <4>4
    <3>2. CASE d # c
      BY <1>1, <1>8, <2>1, <3>2 DEF JournalInv, FreshInv
    <3> QED BY <3>1, <3>2
  <2>2. ASSUME NEW d \in Callers, NEW e \in Callers, Recording(d)', Recording(e)',
               request'[d].id = request'[e].id
        PROVE  d = e
    <3>1. CASE d # c /\ e # c
      BY <1>8, <2>2, <3>1 DEF JournalInv, FreshInv
    <3>2. CASE d = c /\ e # c
      BY <1>4, <1>8, <1>10, <2>2, <3>2
    <3>3. CASE d # c /\ e = c
      BY <1>4, <1>8, <1>10, <2>2, <3>3
    <3> QED BY <3>1, <3>2, <3>3
  <2> QED BY <2>1, <2>2 DEF FreshInv
<1> QED BY <1>6, <1>7, <1>11, <1>13 DEF JournalInv

LEMMA LoadKeeps ==
    ASSUME NEW c \in Callers, IInv, JournalInv, Load(c)
    PROVE  JournalInv'
<1>1. CallsRemain
  BY DEF Load, CallsRemain
<1>2. \A d \in Callers : stage'[d] # "confirming"
  BY DEF Load, IInv, LockInv, Critical
<1> QED BY <1>1, <1>2, PublishingKeeps DEF Load

LEMMA ConfirmKeeps ==
    ASSUME NEW c \in Callers, IInv, JournalInv, Confirm(c)
    PROVE  JournalInv'
<1>1. Decoded(disk) = pending[c]
  BY DecodedRecord DEF Confirm, IInv, TypeOK
<1>2. CallsRemain
  BY DEF Confirm, Return, Leave, CallsRemain, IInv, TypeOK
<1>3. \A d \in Callers : stage'[d] # "confirming"
  BY DEF Confirm, Return, Leave, IInv, TypeOK, LockInv, Critical
<1> QED BY <1>1, <1>2, <1>3, PublishingKeeps DEF Confirm

(* What the pending save of a caller makes of the record in memory.        *)
LEMMA PendingOutcome ==
    ASSUME NEW c \in Callers, IInv, JournalInv, stage[c] = "writing"
    PROVE  /\ loaded /\ pending[c] \in Record /\ request[c] \in Request
           /\ Outcome(record, pending[c], request[c])
           /\ Shaped(pending[c]) /\ Isolated(pending[c])
           /\ NeverRegresses(pending[c]) /\ Follows(record, pending[c])
<1>1. /\ loaded /\ request[c] \in Request /\ ~Rejected(record, request[c])
      /\ Saves(record, invalid, request[c])
      /\ pending[c] = Saved(record, invalid, request[c])
  BY DEF IInv, SaveInv
<1>2. record \in Record \cup {NoRecord} /\ invalid \in BOOLEAN /\ TypeOK
  BY DEF IInv, TypeOK
<1>3. pending[c] \in Record /\ Outcome(record, pending[c], request[c])
  BY <1>1, <1>2, SavedType, SavedOutcome
<1>4. /\ request[c].op = "record" =>
            /\ owner[request[c].id] = request[c].ctx
            /\ known[request[c].id] = Unknown
            /\ ~Has(record, request[c].id)
      /\ request[c].op = "setPlan" => owner[request[c].plan] = request[c].ctx
  BY DEF JournalInv, OwnerInv, FreshInv, Recording, Planning
<1>5. Shaped(record) /\ Isolated(record) /\ NeverRegresses(record)
  BY DEF JournalInv, ShapeInv, ContextIsolation, JournalNeverRegresses
<1> QED BY <1>1, <1>2, <1>3, <1>4, <1>5,
           OutcomeShaped, OutcomeIsolated, OutcomeNeverRegresses, OutcomeFollows

LEMMA WriteKeeps ==
    ASSUME NEW c \in Callers, IInv, JournalInv, Write(c)
    PROVE  JournalInv'
<1>1. CallsRemain
  BY DEF Write, CallsRemain, IInv, TypeOK
<1>2. CASE disk' = disk
  BY <1>1, <1>2, ForgettingKeeps DEF Write, memory
<1>3. CASE disk' = pending[c]
  <2> DEFINE new == pending[c]
  <2>1. /\ loaded /\ new \in Record /\ request[c] \in Request
        /\ Outcome(record, new, request[c])
        /\ Shaped(new) /\ Isolated(new)
        /\ NeverRegresses(new) /\ Follows(record, new)
    BY PendingOutcome DEF Write
  <2>2. Decoded(disk') = new
    BY <1>3, <2>1, DamagedAssumption DEF Decoded
  <2>3. /\ UNCHANGED <<record, loaded, known, owner, request>>
        /\ stage' = [stage EXCEPT ![c] = "confirming"] /\ stage[c] = "writing"
    BY DEF Write, memory, history
  <2>4. stage \in [Callers -> Stages]
    BY DEF IInv, TypeOK
  <2> HIDE DEF new
  <2>5. ShapeInv' /\ ContextIsolation'
    BY <2>1, <2>2, <2>3 DEF JournalInv, ShapeInv, Shaped, ContextIsolation, Isolated
  <2>6. JournalNeverRegresses'
    BY <2>1, <2>2, <2>3, Zenon DEF JournalInv, JournalNeverRegresses, NeverRegresses
  <2>7. DiskInv'
    BY <2>1, <2>2, <2>3, Zenon DEF DiskInv, Follows, Matches
  <2>8. \A d \in Callers : Recording(d)' => Recording(d)
    BY <1>1 DEF CallsRemain, Recording
  <2>9. \A d \in Callers : Planning(d)' => Planning(d)
    BY <1>1 DEF CallsRemain, Planning
  <2>10. OwnerInv'
    BY <2>3, <2>8, <2>9 DEF JournalInv, OwnerInv
  <2>11. FreshInv'
    <3>1. ASSUME NEW d \in Callers, Recording(d)', stage'[d] # "confirming"
          PROVE  ~Has(new, request[d].id)
      <4>1. d # c /\ stage'[d] = stage[d] /\ Recording(d)
        BY <2>3, <2>4, <2>8, <3>1
      <4>2. ~Has(record, request[d].id)
        BY <4>1 DEF JournalInv, FreshInv
      <4>3. request[c].op = "record" => request[d].id # request[c].id
        BY <2>3, <4>1 DEF JournalInv, FreshInv, Recording
      <4>4. Shaped(record) /\ record \in Record \cup {NoRecord}
        BY DEF JournalInv, ShapeInv, IInv, TypeOK
      <4> QED BY <2>1, <4>2, <4>3, <4>4, OutcomeHas
    <3> QED BY <2>2, <2>3, <2>8, <3>1 DEF JournalInv, FreshInv
  <2> QED BY <2>5, <2>6, <2>7, <2>10, <2>11 DEF JournalInv
<1> QED BY <1>2, <1>3 DEF Write

(* The other steps of the store publish nothing new.                       *)
LEMMA QuietKeeps ==
    ASSUME NEW c \in Callers, IInv, JournalInv,
           \/ Acquire(c) \/ LoadFails(c) \/ Reject(c) \/ Answer(c) \/ BeginSave(c)
           \/ ConfirmFails(c) \/ Cancel(c) \/ Unlink(c) \/ FinishRemove(c)
           \/ RemoveFails(c)
    PROVE  JournalInv'
<1> USE DEF CallsRemain, memory, history
<1>0. stage \in [Callers -> Stages]
  BY DEF IInv, TypeOK
<1>1. CASE Acquire(c)
  BY <1>0, <1>1, ForgettingKeeps DEF Acquire
<1>2. CASE LoadFails(c) \/ Reject(c) \/ Answer(c) \/ ConfirmFails(c) \/ RemoveFails(c)
  <2>1. Leave(c) /\ UNCHANGED <<disk, memory, history>>
    BY <1>2 DEF LoadFails, Reject, Answer, ConfirmFails, RemoveFails, Return
  <2>2. CallsRemain
    BY <1>0, <2>1 DEF Leave, IInv, TypeOK
  <2> QED BY <2>1, <2>2, ForgettingKeeps
<1>3. CASE BeginSave(c)
  BY <1>0, <1>3, ForgettingKeeps DEF BeginSave, Ready
<1>4. CASE Cancel(c)
  <2>1. CallsRemain
    BY <1>0, <1>4 DEF Cancel, Leave, IInv, TypeOK
  <2>2. UNCHANGED <<disk, memory, history>>
    BY <1>4 DEF Cancel
  <2> QED BY <2>1, <2>2, ForgettingKeeps
<1>5. CASE Unlink(c)
  BY <1>0, <1>5, ForgettingKeeps DEF Unlink
<1>6. CASE FinishRemove(c)
  <2>1. disk' = NoRecord /\ record' = NoRecord /\ UNCHANGED <<disk, history>>
    BY <1>6 DEF FinishRemove, IInv, RemoveInv
  <2>2. CallsRemain
    BY <1>0, <1>6 DEF FinishRemove, Return, Leave, IInv, TypeOK
  <2> QED BY <2>1, <2>2, ForgettingKeeps
<1> QED BY <1>1, <1>2, <1>3, <1>4, <1>5, <1>6

LEMMA StepJournal == IInv /\ JournalInv /\ [Next]_vars => JournalInv'
<1> SUFFICES ASSUME IInv, JournalInv, [Next]_vars PROVE JournalInv'
  OBVIOUS
<1>1. ASSUME NEW c \in Callers, NEW r \in AnyRequest, Call(c, r) PROVE JournalInv'
  BY <1>1, CallKeeps
<1>2. ASSUME NEW c \in Callers, Serve(c) \/ Cancel(c) PROVE JournalInv'
  BY <1>2, QuietKeeps, LoadKeeps, ConfirmKeeps, WriteKeeps DEF Serve
<1>3. CASE Restart
  <2>1. CallsRemain
    BY <1>3 DEF Restart, CallsRemain
  <2> QED BY <1>3, <2>1, ForgettingKeeps DEF Restart, history
<1>4. CASE UNCHANGED vars
  <2>1. CallsRemain
    BY <1>4 DEF vars, CallsRemain
  <2> QED BY <1>4, <2>1, ForgettingKeeps DEF vars, memory, history, JournalInv, DiskInv
<1> QED BY <1>1, <1>2, <1>3, <1>4 DEF Next

LEMMA JournalInvariantHolds == Spec => []JournalInv
<1> QED BY InitJournal, StepJournal, InvariantHolds, PTL DEF Spec

(* What one context wrote is never stored in a record of another, in       *)
(* memory or in the file, for any number of contexts, calls and failures.  *)
THEOREM ContextsStayApart == Spec => []ContextIsolation
<1>1. JournalInv => ContextIsolation
  BY DEF JournalInv
<1> QED BY <1>1, JournalInvariantHolds, PTL

(* No journal, in memory or in the file, holds an earlier state of an      *)
(* entry than one some caller was told, not even after a restart between   *)
(* the write of a save and its confirmation.                               *)
THEOREM JournalOnlyAdvances == Spec => []JournalNeverRegresses
<1>1. JournalInv => JournalNeverRegresses
  BY DEF JournalInv
<1> QED BY <1>1, JournalInvariantHolds, PTL

LEMMA StepKeepsEntries ==
    IInv /\ JournalInv /\ [Next]_vars => [LossJustified(Decoded(disk), Decoded(disk'))]_disk
<1> SUFFICES ASSUME IInv, JournalInv, [Next]_vars, disk' # disk
             PROVE  LossJustified(Decoded(disk), Decoded(disk'))
  OBVIOUS
<1>1. ASSUME NEW c \in Callers, Write(c)
      PROVE  LossJustified(Decoded(disk), Decoded(disk'))
  <2>1. disk' = pending[c] /\ stage[c] = "writing"
    BY <1>1 DEF Write
  <2>2. loaded /\ pending[c] \in Record /\ Follows(record, pending[c])
    BY <2>1, PendingOutcome
  <2>3. Decoded(disk') = pending[c]
    BY <2>1, <2>2, DecodedRecord
  <2>4. /\ record \in Record \cup {NoRecord} /\ Shaped(record)
        /\ Decoded(disk) \in Record \cup {NoRecord} /\ Follows(record, Decoded(disk))
    BY <2>2, DecodedType DEF IInv, TypeOK, JournalInv, ShapeInv, DiskInv
  <2> QED BY <2>2, <2>3, <2>4, FollowersKeep
<1>2. ASSUME NEW c \in Callers, Unlink(c)
      PROVE  LossJustified(Decoded(disk), Decoded(disk'))
  BY <1>2 DEF Unlink, Decoded, LossJustified
<1>3. \E c \in Callers : Write(c) \/ Unlink(c)
  BY DEF Next, vars, Call, Serve, Cancel, Restart, Acquire, Load, LoadFails, Reject, Answer,
         BeginSave, Confirm, ConfirmFails, FinishRemove, RemoveFails
<1> QED BY <1>1, <1>2, <1>3

(* An entry some caller knows of leaves the file only with its context,    *)
(* with the account, or as the oldest of a full journal, although saves    *)
(* fail half way and later ones start again from the memory record.        *)
THEOREM KnownEntriesKept == Spec => EntriesKept
<1> QED BY StepKeepsEntries, InvariantHolds, JournalInvariantHolds, PTL
        DEF Spec, EntriesKept
=============================================================================
