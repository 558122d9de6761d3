------------------------- MODULE EntryLifecycleProofs ------------------------
(***************************************************************************)
(* The safety invariants of EntryLifecycle, for every set of contexts and  *)
(* any number of revisions.                                                *)
(*                                                                         *)
(* The argument: a revision is written down only beside the context it was *)
(* issued to (Bound), except in the handoff, which Consume compares; the   *)
(* entry's own handoff is empty from the moment a setup has left "loading" *)
(* (Clean); and between a save and the next change of the record by        *)
(* somebody else the record holds what the client uses (Same).             *)
(***************************************************************************)
EXTENDS EntryLifecycle, TLAPS

Seen == 1..Len(issued) \cup {NoState}

(* No revision is used or staged that was not issued.                      *)
Known ==
    /\ client \in Seen /\ found \in Seen
    /\ \A a \in Accounts : handoff[a] \in Seen

(* What is used was issued to the context beside it.                       *)
Bound ==
    /\ client # NoState => served \in Contexts /\ Fits(client, served)
    /\ found # NoState => asked \in Contexts /\ Fits(found, asked)

(* And so was what is stored.                                              *)
Records ==
    \A a \in Accounts :
        disk[a] # NoRecord =>
            /\ disk[a].auth \in Seen
            /\ disk[a].auth # NoState => Fits(disk[a].auth, disk[a].context)

SettingUp == mode \in {"validating", "saving", "refreshing"}
Settled == mode = "loaded" /\ ~reload

(* Which variables mean something where.                                   *)
Shape ==
    /\ mode # "absent" => configured \in Contexts
    /\ reload => mode = "loaded"
    /\ SettingUp => client # NoState
    /\ SettingUp \/ Settled => served = configured
    /\ flow \in {"restoring", "authenticating", "publishing", "finishing"} => asked \in Contexts
    /\ flow \in {"idle", "restoring", "removing"} => found = NoState
    /\ flow = "removing" =>
          /\ leaving \in Accounts
          /\ configured # NoContext => leaving # configured.account

(* Past "loading" the entry's handoff is spent.                            *)
Clean == SettingUp \/ Settled => handoff[configured.account] = NoState

(* What was saved is still what is used.                                   *)
Same ==
    (mode = "refreshing" \/ Settled) /\ client # NoState /\ ~unsaved /\ ~touched =>
        disk[configured.account] = [context |-> configured, auth |-> client]

IInv == TypeOK /\ Known /\ Bound /\ Records /\ Shape /\ Clean /\ Same

IssuedTo(history, r, c) == history[r].account = c.account /\ history[r].terms = c.terms

(* The cloud's own history only grows.                                     *)
Longer ==
    /\ issued' \in Seq(Contexts) /\ Len(issued') >= Len(issued)
    /\ \A r \in 1..Len(issued) : issued'[r] = issued[r]

-----------------------------------------------------------------------------
(* What the fragments return.                                              *)

LEMMA HoldingType ==
    ASSUME TypeOK, NEW c \in Contexts, NEW r \in Maybe
    PROVE  Holding(c, r) \in [Accounts -> Stored \cup {NoRecord}]
BY DEF TypeOK, Holding, Stored, Accounts

LEMMA AfterLoadType ==
    ASSUME TypeOK, NEW c \in Contexts
    PROVE  AfterLoad(c) \in [Accounts -> Stored \cup {NoRecord}]
BY HoldingType DEF TypeOK, AfterLoad, Maybe

LEMMA FoundType ==
    ASSUME IInv, NEW c \in Contexts
    PROVE  /\ Found(c) \in Maybe /\ Found(c) \in Seen
           /\ Found(c) # NoState => Fits(Found(c), c)
<1>1. c.account \in Accounts
  BY DEF Accounts
<1>2. CASE disk[c.account] # NoRecord /\ disk[c.account].context = c
  <2>1. Found(c) = disk[c.account].auth /\ disk[c.account] \in Stored
    BY <1>1, <1>2 DEF Found, IInv, TypeOK
  <2>2. disk[c.account].auth \in Maybe
    BY <2>1 DEF Stored
  <2> QED BY <1>1, <1>2, <2>1, <2>2 DEF IInv, Records
<1>3. CASE ~(disk[c.account] # NoRecord /\ disk[c.account].context = c)
  BY <1>3 DEF Found, Maybe, Seen
<1> QED BY <1>2, <1>3

(* The cloud issues the next revision and says nothing else of the others. *)
LEMMA IssueFacts ==
    ASSUME TypeOK, NEW c \in Contexts, NEW spent, Issue(c, spent)
    PROVE  /\ Longer
           /\ Len(issued') = Len(issued) + 1 /\ Len(issued') <= MaxRevision
           /\ honoured' \subseteq 1..Len(issued')
           /\ issued'[Len(issued) + 1] = c
           /\ Len(issued) + 1 \in Maybe /\ Len(issued) + 1 # NoState
<1>1. /\ issued \in Seq(Contexts) /\ Len(issued) \in Nat
      /\ \A r \in honoured : r \in Nat /\ 1 <= r /\ r <= Len(issued)
  BY DEF TypeOK
<1>2. Len(issued) + 1 <= MaxRevision /\ issued' = Append(issued, c)
      /\ honoured' = (honoured \ spent) \cup {Len(issued) + 1}
  BY <1>1, RevisionAssumption DEF Issue
<1>3. /\ issued' \in Seq(Contexts) /\ Len(issued') = Len(issued) + 1
      /\ issued'[Len(issued) + 1] = c
      /\ \A r \in 1..Len(issued) : issued'[r] = issued[r]
  BY <1>1, <1>2
<1>4. honoured' \subseteq 1..Len(issued')
  <2> SUFFICES ASSUME NEW r \in honoured'
               PROVE  r \in 1..Len(issued')
    OBVIOUS
  <2>1. r \in honoured \/ r = Len(issued) + 1
    BY <1>2
  <2> QED BY <1>1, <1>3, <2>1
<1>5. Len(issued) + 1 \in Maybe /\ Len(issued) + 1 # NoState
  BY <1>1, <1>2, RevisionAssumption DEF Maybe, Revision
<1> QED BY <1>1, <1>2, <1>3, <1>4, <1>5 DEF Longer

(* A record that is written keeps the records bound, if what it holds is.  *)
LEMMA HoldingRecords ==
    ASSUME IInv, Longer, NEW c \in Contexts, NEW r \in 1..Len(issued') \cup {NoState},
           r # NoState => IssuedTo(issued', r, c), disk' = Holding(c, r)
    PROVE  Records'
<1> SUFFICES ASSUME NEW a \in Accounts, (disk[a])' # NoRecord
             PROVE  /\ (disk[a].auth \in Seen)'
                    /\ (disk[a].auth # NoState => Fits(disk[a].auth, disk[a].context))'
  BY DEF Records
<1>1. CASE a = c.account
  <2>1. disk'[a] = [context |-> c, auth |-> r]
    BY <1>1 DEF IInv, TypeOK, Holding
  <2> QED BY <2>1 DEF Fits, IssuedTo, Seen
<1>2. CASE a # c.account
  <2>1. disk'[a] = disk[a]
    BY <1>2 DEF IInv, TypeOK, Holding
  <2>2. disk[a].auth \in Seen /\ (disk[a].auth # NoState => Fits(disk[a].auth, disk[a].context))
    BY <2>1 DEF IInv, Records
  <2> QED BY <2>1, <2>2 DEF Longer, Seen, Fits, IInv, TypeOK
<1> QED BY <1>1, <1>2

LEMMA KeptRecords ==
    ASSUME IInv, Longer, UNCHANGED disk
    PROVE  Records'
BY DEF IInv, TypeOK, Records, Longer, Seen, Fits

(* So is a record whose authentication is taken away.                      *)
LEMMA ClearedRecords ==
    ASSUME IInv, Longer, NEW c \in Contexts, disk' = Holding(c, NoState)
    PROVE  Records'
BY HoldingRecords DEF Seen

LEMMA LoadedRecords ==
    ASSUME IInv, Longer, NEW c \in Contexts, disk' = AfterLoad(c)
    PROVE  Records'
BY ClearedRecords, KeptRecords DEF AfterLoad

LEMMA UnchangedLonger ==
    ASSUME IInv, UNCHANGED issued
    PROVE  Longer
BY DEF IInv, TypeOK, Longer

-----------------------------------------------------------------------------
(* The setup.                                                              *)

LEMMA ConsumeStep ==
    ASSUME IInv, Consume
    PROVE  IInv'
<1>1. TypeOK'
  BY ContextAssumption DEF IInv, TypeOK, Shape, Modes, Flows, Maybe, Consume, Setup, Stop,
     cloud, entry, running, dialog
<1>2. (Known /\ Bound)'
  BY ContextAssumption DEF IInv, TypeOK, Known, Bound, Shape, Seen, Fits, Consume, Setup, Stop,
     cloud, entry, running, dialog
<1>3. Records'
  BY UnchangedLonger, KeptRecords DEF Consume, Setup, Stop, cloud, entry, running, dialog
<1>4. Shape'
  BY DEF IInv, Shape, SettingUp, Settled, Consume, Setup, Stop, cloud, entry, running, dialog
<1>5. (Clean /\ Same)'
  BY ContextAssumption DEF IInv, TypeOK, Shape, Clean, Same, SettingUp, Settled, Consume, Setup,
     Stop, cloud, entry, running, dialog
<1> QED BY <1>1, <1>2, <1>3, <1>4, <1>5 DEF IInv

LEMMA LoadStoredStep ==
    ASSUME IInv, LoadStored
    PROVE  IInv'
<1>1. TypeOK'
  BY FoundType, AfterLoadType DEF IInv, TypeOK, Shape, Modes, Flows, Maybe, LoadStored, Setup,
     Stop, cloud, entry, running, dialog
<1>2. (Known /\ Bound)'
  BY FoundType, AfterLoadType DEF IInv, TypeOK, Known, Bound, Shape, Seen, Fits, LoadStored,
     Setup, Stop, cloud, entry, running, dialog
<1>3. Records'
  BY UnchangedLonger, LoadedRecords DEF IInv, Shape, Bound, Known, Seen, Fits, IssuedTo,
     LoadStored, Setup, Stop, cloud, entry, running, dialog
<1>4. Shape'
  BY DEF IInv, Shape, SettingUp, Settled, LoadStored, Setup, Stop, cloud, entry, running, dialog
<1>5. (Clean /\ Same)'
  BY DEF IInv, Shape, Clean, Same, SettingUp, Settled, Holding, LoadStored, Setup, Stop, cloud,
     entry, running, dialog
<1> QED BY <1>1, <1>2, <1>3, <1>4, <1>5 DEF IInv

LEMMA LoadFailsStep ==
    ASSUME IInv, LoadFails
    PROVE  IInv'
<1>1. TypeOK'
  BY DEF IInv, TypeOK, Maybe, Modes, Flows, LoadFails, Stop, cloud, entry, running, dialog
<1>2. (Known /\ Bound)'
  BY DEF IInv, Known, Bound, Seen, Fits, LoadFails, Stop, cloud, entry, running, dialog
<1>3. Records'
  BY UnchangedLonger, KeptRecords DEF LoadFails, Stop, cloud, entry, running, dialog
<1>4. Shape'
  BY DEF IInv, Shape, SettingUp, Settled, LoadFails, Stop, cloud, entry, running, dialog
<1>5. (Clean /\ Same)'
  BY DEF IInv, Shape, Clean, Same, SettingUp, Settled, LoadFails, Stop, cloud, entry, running,
     dialog
<1> QED BY <1>1, <1>2, <1>3, <1>4, <1>5 DEF IInv

LEMMA ValidatedStep ==
    ASSUME IInv, Validated
    PROVE  IInv'
<1>1. configured \in Contexts /\ served = configured /\ TypeOK
  BY DEF IInv, Validated, Shape, SettingUp
<1>2. /\ Longer /\ honoured' \subseteq 1..Len(issued') /\ Len(issued') <= MaxRevision
      /\ client' \in Seen' /\ client' \in Maybe /\ client' # NoState
      /\ IssuedTo(issued', client', configured)
  <2>1. CASE UNCHANGED <<cloud, client>>
    BY <1>1, <2>1, UnchangedLonger, RevisionAssumption
    DEF IInv, TypeOK, Known, Bound, Seen, Fits, IssuedTo, Validated, Shape, SettingUp, cloud
  <2>2. CASE Issue(configured, {client}) /\ client' = Len(issued) + 1
    BY <1>1, <2>2, IssueFacts DEF Seen, IssuedTo, Validated
  <2> QED BY <2>1, <2>2 DEF Validated
<1>3. TypeOK'
  BY <1>1, <1>2 DEF TypeOK, Modes, Longer, Validated, dialog
<1>4. (Known /\ Bound)'
  BY <1>1, <1>2 DEF IInv, TypeOK, Known, Bound, Longer, Seen, Fits, IssuedTo, Validated, dialog
<1>5. Records'
  BY <1>2, KeptRecords DEF Validated
<1>6. Shape'
  BY <1>1, <1>2 DEF IInv, Shape, SettingUp, Settled, Validated, dialog
<1>7. (Clean /\ Same)'
  BY DEF IInv, Shape, Clean, Same, SettingUp, Settled, Validated
<1> QED BY <1>3, <1>4, <1>5, <1>6, <1>7 DEF IInv

LEMMA ValidationRefusedStep ==
    ASSUME IInv, ValidationRefused
    PROVE  IInv'
<1>1. configured \in Contexts /\ TypeOK /\ Longer
  BY UnchangedLonger DEF IInv, ValidationRefused, Shape, cloud
<1>2. /\ disk' \in [Accounts -> Stored \cup {NoRecord}] /\ Records'
      /\ mode' \in {"failed", "error"}
  BY <1>1, HoldingType, ClearedRecords, KeptRecords
  DEF TypeOK, Maybe, ValidationRefused, Stop
<1>3. TypeOK'
  BY <1>2 DEF IInv, TypeOK, Modes, Maybe, Stop, ValidationRefused, cloud, dialog
<1>4. (Known /\ Bound)'
  BY DEF IInv, Known, Bound, Seen, Fits, Stop, ValidationRefused, cloud, dialog
<1>5. (Shape /\ Clean /\ Same)'
  BY <1>1, <1>2 DEF IInv, Shape, Clean, Same, SettingUp, Settled, ValidationRefused, dialog
<1> QED BY <1>2, <1>3, <1>4, <1>5 DEF IInv

LEMMA ValidationFailsStep ==
    ASSUME IInv, ValidationFails
    PROVE  IInv'
<1>1. TypeOK'
  BY DEF IInv, TypeOK, Maybe, Modes, Flows, ValidationFails, Stop, cloud, entry, running, dialog
<1>2. (Known /\ Bound)'
  BY DEF IInv, Known, Bound, Seen, Fits, ValidationFails, Stop, cloud, entry, running, dialog
<1>3. Records'
  BY UnchangedLonger, KeptRecords DEF ValidationFails, Stop, cloud, entry, running, dialog
<1>4. Shape'
  BY DEF IInv, Shape, SettingUp, Settled, ValidationFails, Stop, cloud, entry, running, dialog
<1>5. (Clean /\ Same)'
  BY DEF IInv, Shape, Clean, Same, SettingUp, Settled, ValidationFails, Stop, cloud, entry,
     running, dialog
<1> QED BY <1>1, <1>2, <1>3, <1>4, <1>5 DEF IInv

LEMMA SaveSessionStep ==
    ASSUME IInv, SaveSession
    PROVE  IInv'
<1>1. /\ configured \in Contexts /\ served = configured /\ TypeOK /\ Longer
      /\ client # NoState /\ client \in Maybe /\ client \in Seen /\ Fits(client, configured)
      /\ disk' = Holding(configured, client)
  BY UnchangedLonger
  DEF IInv, TypeOK, Known, Bound, SaveSession, Shape, SettingUp, cloud
<1>2. TypeOK'
  BY <1>1, HoldingType DEF TypeOK, Modes, SaveSession, cloud, running, dialog
<1>3. (Known /\ Bound)'
  BY DEF IInv, Known, Bound, Seen, Fits, SaveSession, cloud, running, dialog
<1>4. client \in 1..Len(issued') \cup {NoState} /\ IssuedTo(issued', client, configured)
  <2>1. issued' = issued
    BY DEF SaveSession, cloud
  <2> QED BY <1>1, <2>1 DEF Seen, Fits, IssuedTo
<1>5. Records'
  BY <1>1, <1>4, HoldingRecords
<1>6. Shape'
  BY <1>1 DEF IInv, Shape, SettingUp, Settled, SaveSession, running, dialog
<1>7. Clean'
  BY DEF IInv, Clean, SettingUp, Settled, SaveSession
<1>8. Same'
  BY <1>1 DEF TypeOK, Same, Holding, Accounts, SaveSession, running
<1> QED BY <1>2, <1>3, <1>5, <1>6, <1>7, <1>8 DEF IInv

LEMMA SaveSessionFailsStep ==
    ASSUME IInv, SaveSessionFails
    PROVE  IInv'
<1>1. TypeOK'
  BY DEF IInv, TypeOK, Maybe, Modes, Flows, SaveSessionFails, Stop, cloud, entry, running, dialog
<1>2. (Known /\ Bound)'
  BY DEF IInv, Known, Bound, Seen, Fits, SaveSessionFails, Stop, cloud, entry, running, dialog
<1>3. Records'
  BY UnchangedLonger, KeptRecords DEF SaveSessionFails, Stop, cloud, entry, running, dialog
<1>4. Shape'
  BY DEF IInv, Shape, SettingUp, Settled, SaveSessionFails, Stop, cloud, entry, running, dialog
<1>5. (Clean /\ Same)'
  BY DEF IInv, Shape, Clean, Same, SettingUp, Settled, SaveSessionFails, Stop, cloud, entry,
     running, dialog
<1> QED BY <1>1, <1>2, <1>3, <1>4, <1>5 DEF IInv

LEMMA RefreshedStep ==
    ASSUME IInv, Refreshed
    PROVE  IInv'
<1>1. TypeOK'
  BY DEF IInv, TypeOK, Maybe, Modes, Flows, Refreshed, cloud, entry, running, dialog
<1>2. (Known /\ Bound)'
  BY DEF IInv, Known, Bound, Seen, Fits, Refreshed, cloud, entry, running, dialog
<1>3. Records'
  BY UnchangedLonger, KeptRecords DEF Refreshed, cloud, entry, running, dialog
<1>4. Shape'
  BY DEF IInv, Shape, SettingUp, Settled, Refreshed, cloud, entry, running, dialog
<1>5. (Clean /\ Same)'
  BY DEF IInv, Shape, Clean, Same, SettingUp, Settled, Refreshed, cloud, entry, running, dialog
<1> QED BY <1>1, <1>2, <1>3, <1>4, <1>5 DEF IInv

LEMMA RefreshFailsStep ==
    ASSUME IInv, RefreshFails
    PROVE  IInv'
<1>1. TypeOK'
  BY DEF IInv, TypeOK, Maybe, Modes, Flows, RefreshFails, Stop, StagedAgain, cloud, entry,
     running, dialog
<1>2. (Known /\ Bound)'
  BY DEF IInv, Known, Bound, Seen, Fits, RefreshFails, Stop, StagedAgain, cloud, entry, running,
     dialog
<1>3. Records'
  BY UnchangedLonger, KeptRecords DEF RefreshFails, Stop, StagedAgain, cloud, entry, running,
     dialog
<1>4. Shape'
  BY DEF IInv, Shape, SettingUp, Settled, RefreshFails, Stop, StagedAgain, cloud, entry,
     running, dialog
<1>5. (Clean /\ Same)'
  BY DEF IInv, Shape, Clean, Same, SettingUp, Settled, RefreshFails, Stop, StagedAgain, cloud,
     entry, running, dialog
<1> QED BY <1>1, <1>2, <1>3, <1>4, <1>5 DEF IInv

-----------------------------------------------------------------------------
(* The running client.                                                     *)

LEMMA RenewStep ==
    ASSUME IInv, Renew
    PROVE  IInv'
<1> DEFINE next == Len(issued) + 1
<1>1. TypeOK /\ client # NoState /\ served \in Contexts
  BY RevisionAssumption DEF IInv, TypeOK, Bound, Renew
<1>2. /\ Longer /\ honoured' \subseteq 1..Len(issued') /\ Len(issued') <= MaxRevision
      /\ client' = next /\ next \in 1..Len(issued') \cup {NoState} /\ next \in Maybe /\ next #
         NoState
      /\ IssuedTo(issued', next, served)
  BY <1>1, IssueFacts DEF Seen, IssuedTo, Renew
<1>3. disk' = Holding(served, next) \/ disk' = disk
  BY DEF Renew
<1> HIDE DEF next
<1>4. disk' \in [Accounts -> Stored \cup {NoRecord}]
  BY <1>1, <1>2, <1>3, HoldingType DEF TypeOK
<1>5. TypeOK'
  BY <1>1, <1>2, <1>4 DEF TypeOK, Longer, Renew, entry, dialog
<1>6. (Known /\ Bound)'
  BY <1>1, <1>2 DEF IInv, TypeOK, Known, Bound, Longer, Seen, Fits, IssuedTo, Renew, dialog
<1>7. Records'
  <2>1. CASE disk' = Holding(served, next)
    BY <1>1, <1>2, <2>1, HoldingRecords DEF Renew
  <2>2. CASE disk' = disk
    BY <1>2, <2>2, KeptRecords
  <2> QED BY <1>3, <2>1, <2>2
<1>8. Shape'
  BY <1>2 DEF IInv, Shape, SettingUp, Settled, Renew, entry, dialog
<1>9. Clean'
  BY DEF IInv, Clean, SettingUp, Settled, Renew, entry
<1>10. Same'
  <2>1. CASE unsaved'
    BY <2>1 DEF Same
  <2>2. CASE ~unsaved'
    <3>1. disk' = Holding(served, client') /\ served.account \in Accounts
      BY <1>1, <2>2 DEF Renew, Accounts
    <3>2. (mode = "refreshing" \/ Settled)' => served = configured'
      BY DEF IInv, Shape, SettingUp, Settled, Renew, entry
    <3> QED BY <1>1, <3>1, <3>2 DEF TypeOK, Same, Holding, Renew, entry
  <2> QED BY <2>1, <2>2
<1> QED BY <1>5, <1>6, <1>7, <1>8, <1>9, <1>10 DEF IInv

LEMMA RejectedStep ==
    ASSUME IInv, Rejected
    PROVE  IInv'
<1>1. TypeOK /\ served \in Contexts /\ Longer
  BY UnchangedLonger DEF IInv, Bound, Rejected, cloud
<1>2. disk' \in [Accounts -> Stored \cup {NoRecord}] /\ Records'
  BY <1>1, HoldingType, ClearedRecords, KeptRecords DEF TypeOK, Maybe, Rejected
<1>3. /\ client' = NoState /\ unsaved' = FALSE
      /\ \/ mode' = mode /\ served' = served /\ mode = "loaded"
         \/ mode' = "failed" /\ served' = NoContext /\ mode = "refreshing"
  BY DEF Rejected, Stop
<1>4. TypeOK'
  BY <1>2, <1>3 DEF IInv, TypeOK, Modes, Maybe, Rejected, cloud, dialog
<1>5. (Known /\ Bound)'
  BY <1>3 DEF IInv, Known, Bound, Seen, Fits, Rejected, cloud, dialog
<1>6. Shape'
  BY <1>3 DEF IInv, Shape, SettingUp, Settled, Rejected, dialog
<1>7. (Clean /\ Same)'
  BY <1>3 DEF IInv, Clean, Same, SettingUp, Settled, Rejected
<1> QED BY <1>2, <1>4, <1>5, <1>6, <1>7 DEF IInv

-----------------------------------------------------------------------------
(* Reload, retry, removal, restart.                                        *)

LEMMA ReloadScheduledStep ==
    ASSUME IInv, ReloadScheduled
    PROVE  IInv'
<1>1. TypeOK'
  BY DEF IInv, TypeOK, Maybe, Modes, Flows, ReloadScheduled, cloud, entry, running, dialog
<1>2. (Known /\ Bound)'
  BY DEF IInv, Known, Bound, Seen, Fits, ReloadScheduled, cloud, entry, running, dialog
<1>3. Records'
  BY UnchangedLonger, KeptRecords DEF ReloadScheduled, cloud, entry, running, dialog
<1>4. Shape'
  BY DEF IInv, Shape, SettingUp, Settled, ReloadScheduled, cloud, entry, running, dialog
<1>5. (Clean /\ Same)'
  BY DEF IInv, Shape, Clean, Same, SettingUp, Settled, ReloadScheduled, cloud, entry, running,
     dialog
<1> QED BY <1>1, <1>2, <1>3, <1>4, <1>5 DEF IInv

LEMMA UnloadStep ==
    ASSUME IInv, Unload
    PROVE  IInv'
<1>1. TypeOK'
  BY DEF IInv, TypeOK, Maybe, Modes, Flows, Unload, Stop, StagedAgain, cloud, entry, running,
     dialog
<1>2. (Known /\ Bound)'
  BY DEF IInv, Known, Bound, Seen, Fits, Unload, Stop, StagedAgain, cloud, entry, running, dialog
<1>3. Records'
  BY UnchangedLonger, KeptRecords DEF Unload, Stop, StagedAgain, cloud, entry, running, dialog
<1>4. Shape'
  BY DEF IInv, Shape, SettingUp, Settled, Unload, Stop, StagedAgain, cloud, entry, running, dialog
<1>5. (Clean /\ Same)'
  BY DEF IInv, Shape, Clean, Same, SettingUp, Settled, Unload, Stop, StagedAgain, cloud, entry,
     running, dialog
<1> QED BY <1>1, <1>2, <1>3, <1>4, <1>5 DEF IInv

LEMMA SetupAgainStep ==
    ASSUME IInv, SetupAgain
    PROVE  IInv'
<1>1. TypeOK'
  BY DEF IInv, TypeOK, Maybe, Modes, Flows, SetupAgain, cloud, entry, running, dialog
<1>2. (Known /\ Bound)'
  BY DEF IInv, Known, Bound, Seen, Fits, SetupAgain, cloud, entry, running, dialog
<1>3. Records'
  BY UnchangedLonger, KeptRecords DEF SetupAgain, cloud, entry, running, dialog
<1>4. Shape'
  BY DEF IInv, Shape, SettingUp, Settled, SetupAgain, cloud, entry, running, dialog
<1>5. (Clean /\ Same)'
  BY DEF IInv, Shape, Clean, Same, SettingUp, Settled, SetupAgain, cloud, entry, running, dialog
<1> QED BY <1>1, <1>2, <1>3, <1>4, <1>5 DEF IInv

LEMMA RemoveStep ==
    ASSUME IInv, Remove
    PROVE  IInv'
<1>1. TypeOK'
  BY DEF IInv, TypeOK, Maybe, Modes, Flows, Remove, Stop, StagedAgain, cloud, entry, running,
     dialog
<1>2. (Known /\ Bound)'
  BY DEF IInv, Known, Bound, Seen, Fits, Remove, Stop, StagedAgain, cloud, entry, running, dialog
<1>3. Records'
  BY DEF IInv, TypeOK, Records, Seen, Fits, Shape, Remove, Stop, StagedAgain, cloud, entry,
     running, dialog
<1>4. Shape'
  BY DEF IInv, Shape, SettingUp, Settled, Remove, Stop, StagedAgain, cloud, entry, running, dialog
<1>5. (Clean /\ Same)'
  BY DEF IInv, Shape, Clean, Same, SettingUp, Settled, Remove, Stop, StagedAgain, cloud, entry,
     running, dialog
<1> QED BY <1>1, <1>2, <1>3, <1>4, <1>5 DEF IInv

LEMMA RestartStep ==
    ASSUME IInv, Restart
    PROVE  IInv'
<1>1. TypeOK'
  BY DEF IInv, TypeOK, Maybe, Modes, Flows, Restart, Stop, cloud, entry, running, dialog
<1>2. (Known /\ Bound)'
  BY DEF IInv, Known, Bound, Seen, Fits, Restart, Stop, cloud, entry, running, dialog
<1>3. Records'
  BY UnchangedLonger, KeptRecords DEF Restart, Stop, cloud, entry, running, dialog
<1>4. Shape'
  BY ContextAssumption DEF IInv, TypeOK, Shape, Clean, Same, SettingUp, Settled, Restart, Stop,
     cloud, entry, running, dialog
<1>5. (Clean /\ Same)'
  BY DEF IInv, Shape, Clean, Same, SettingUp, Settled, Restart, Stop, cloud, entry, running,
     dialog
<1> QED BY <1>1, <1>2, <1>3, <1>4, <1>5 DEF IInv

LEMMA ExpireStep ==
    ASSUME IInv, NEW a \in Accounts, Expire(a)
    PROVE  IInv'
<1>1. TypeOK'
  BY DEF IInv, TypeOK, Maybe, Expire, cloud, entry, running, dialog
<1>2. (Known /\ Bound)'
  BY DEF IInv, Known, Bound, Seen, Fits, Expire, cloud, entry, running, dialog
<1>3. Records'
  BY UnchangedLonger, KeptRecords DEF Expire, cloud, entry, running, dialog
<1>4. Shape'
  BY DEF IInv, Shape, SettingUp, Settled, Expire, cloud, entry, running, dialog
<1>5. (Clean /\ Same)'
  BY DEF IInv, Shape, Clean, Same, SettingUp, Settled, Expire, cloud, entry, running, dialog
<1> QED BY <1>1, <1>2, <1>3, <1>4, <1>5 DEF IInv

LEMMA RevokeStep ==
    ASSUME IInv, NEW r \in Revision, Revoke(r)
    PROVE  IInv'
<1>1. TypeOK'
  BY DEF IInv, TypeOK, Maybe, Revoke, cloud, entry, running, dialog
<1>2. (Known /\ Bound)'
  BY DEF IInv, Known, Bound, Seen, Fits, Revoke, cloud, entry, running, dialog
<1>3. Records'
  BY UnchangedLonger, KeptRecords DEF Revoke, cloud, entry, running, dialog
<1>4. Shape'
  BY DEF IInv, Shape, SettingUp, Settled, Revoke, cloud, entry, running, dialog
<1>5. (Clean /\ Same)'
  BY DEF IInv, Shape, Clean, Same, SettingUp, Settled, Revoke, cloud, entry, running, dialog
<1> QED BY <1>1, <1>2, <1>3, <1>4, <1>5 DEF IInv

-----------------------------------------------------------------------------
(* The config flow.                                                        *)

LEMMA SubmitStep ==
    ASSUME IInv, NEW c \in Contexts, Submit(c)
    PROVE  IInv'
<1>1. TypeOK'
  BY DEF IInv, TypeOK, Maybe, Modes, Flows, Submit, cloud, entry, running, dialog
<1>2. (Known /\ Bound)'
  BY DEF IInv, TypeOK, Known, Bound, Shape, Seen, Fits, Submit, cloud, entry, running, dialog
<1>3. Records'
  BY UnchangedLonger, KeptRecords DEF Submit, cloud, entry, running, dialog
<1>4. Shape'
  BY DEF IInv, Shape, SettingUp, Settled, Submit, cloud, entry, running, dialog
<1>5. (Clean /\ Same)'
  BY DEF IInv, Shape, Clean, Same, SettingUp, Settled, Submit, cloud, entry, running, dialog
<1> QED BY <1>1, <1>2, <1>3, <1>4, <1>5 DEF IInv

LEMMA RestoreStep ==
    ASSUME IInv, Restore
    PROVE  IInv'
<1>1. TypeOK'
  BY FoundType, AfterLoadType, ContextAssumption DEF IInv, TypeOK, Shape, Modes, Flows, Maybe,
     Restore, AfterLoad, Mine, cloud, entry, running, dialog
<1>2. (Known /\ Bound)'
  BY FoundType, AfterLoadType, ContextAssumption DEF IInv, TypeOK, Known, Bound, Shape, Seen,
     Fits, Restore, AfterLoad, Mine, cloud, entry, running, dialog
<1>3. Records'
  BY UnchangedLonger, LoadedRecords DEF IInv, Shape, Bound, Known, Seen, Fits, IssuedTo,
     Restore, AfterLoad, Mine, cloud, entry, running, dialog
<1>4. Shape'
  BY DEF IInv, Shape, SettingUp, Settled, Restore, AfterLoad, Mine, cloud, entry, running, dialog
<1>5. (Clean /\ Same)'
  BY FoundType, AfterLoadType, ContextAssumption DEF IInv, TypeOK, Shape, Clean, Same,
     SettingUp, Settled, Holding, Restore, AfterLoad, Mine, cloud, entry, running, dialog
<1> QED BY <1>1, <1>2, <1>3, <1>4, <1>5 DEF IInv

LEMMA AuthenticatedStep ==
    ASSUME IInv, Authenticated
    PROVE  IInv'
<1>1. asked \in Contexts /\ TypeOK
  BY DEF IInv, Authenticated, Shape
<1>2. /\ Longer /\ honoured' \subseteq 1..Len(issued') /\ Len(issued') <= MaxRevision
      /\ found' \in Seen' /\ found' \in Maybe /\ (found' # NoState => IssuedTo(issued', found',
         asked))
  <2>1. CASE UNCHANGED <<cloud, found>>
    BY <1>1, <2>1, UnchangedLonger DEF IInv, TypeOK, Known, Bound, Seen, Fits, IssuedTo, cloud
  <2>2. CASE found' = Len(issued) + 1 /\ \E spent : Issue(asked, spent)
    BY <1>1, <2>2, IssueFacts DEF Seen, IssuedTo, Authenticated
  <2>3. UNCHANGED <<cloud, found>> \/ (found' = Len(issued) + 1 /\ \E spent : Issue(asked, spent))
    BY DEF Authenticated
  <2> QED BY <2>1, <2>2, <2>3
<1>3. TypeOK'
  BY <1>1, <1>2 DEF TypeOK, Flows, Longer, Authenticated, entry, running
<1>4. (Known /\ Bound)'
  BY <1>1, <1>2 DEF IInv, TypeOK, Known, Bound, Longer, Seen, Fits, IssuedTo, Authenticated,
     running
<1>5. Records'
  BY <1>2, KeptRecords DEF Authenticated
<1>6. Shape'
  BY <1>1 DEF IInv, Shape, SettingUp, Settled, Authenticated, entry, running
<1>7. (Clean /\ Same)'
  BY DEF IInv, Clean, Same, SettingUp, Settled, Authenticated, entry, running
<1> QED BY <1>3, <1>4, <1>5, <1>6, <1>7 DEF IInv

LEMMA ContinueStep ==
    ASSUME IInv, Continue
    PROVE  IInv'
<1>1. TypeOK'
  BY HoldingType, ContextAssumption DEF IInv, TypeOK, Shape, Modes, Flows, Maybe, Continue,
     Mine, cloud, entry, running, dialog
<1>2. (Known /\ Bound)'
  BY HoldingType DEF IInv, Known, Bound, Seen, Fits, Continue, Mine, cloud, entry, running, dialog
<1>3. Records'
  BY UnchangedLonger, ClearedRecords DEF IInv, Shape, Bound, Known, Seen, Fits, IssuedTo,
     Continue, Mine, cloud, entry, running, dialog
<1>4. Shape'
  BY DEF IInv, Shape, SettingUp, Settled, Continue, Mine, cloud, entry, running, dialog
<1>5. (Clean /\ Same)'
  BY HoldingType, ContextAssumption DEF IInv, TypeOK, Shape, Clean, Same, SettingUp, Settled,
     Holding, Continue, Mine, cloud, entry, running, dialog
<1> QED BY <1>1, <1>2, <1>3, <1>4, <1>5 DEF IInv

LEMMA PublishStep ==
    ASSUME IInv, Publish
    PROVE  IInv'
<1>1. TypeOK'
  BY HoldingType, ContextAssumption DEF IInv, TypeOK, Shape, Modes, Flows, Maybe, Publish, Mine,
     cloud, entry, running, dialog
<1>2. (Known /\ Bound)'
  BY HoldingType DEF IInv, Known, Bound, Seen, Fits, Publish, Mine, cloud, entry, running, dialog
<1>3. Records'
  BY UnchangedLonger, HoldingRecords DEF IInv, Shape, Bound, Known, Seen, Fits, IssuedTo,
     Publish, Mine, cloud, entry, running, dialog
<1>4. Shape'
  BY DEF IInv, Shape, SettingUp, Settled, Publish, Mine, cloud, entry, running, dialog
<1>5. (Clean /\ Same)'
  BY HoldingType, ContextAssumption DEF IInv, TypeOK, Shape, Clean, Same, SettingUp, Settled,
     Holding, Publish, Mine, cloud, entry, running, dialog
<1> QED BY <1>1, <1>2, <1>3, <1>4, <1>5 DEF IInv

LEMMA AbandonStep ==
    ASSUME IInv, Abandon
    PROVE  IInv'
<1>1. TypeOK'
  BY DEF IInv, TypeOK, Maybe, Modes, Flows, Abandon, EndFlow, cloud, entry, running, dialog
<1>2. (Known /\ Bound)'
  BY DEF IInv, Known, Bound, Seen, Fits, Abandon, EndFlow, cloud, entry, running, dialog
<1>3. Records'
  BY UnchangedLonger, KeptRecords DEF Abandon, EndFlow, cloud, entry, running, dialog
<1>4. Shape'
  BY DEF IInv, Shape, SettingUp, Settled, Abandon, EndFlow, cloud, entry, running, dialog
<1>5. (Clean /\ Same)'
  BY DEF IInv, Shape, Clean, Same, SettingUp, Settled, Abandon, EndFlow, cloud, entry, running,
     dialog
<1> QED BY <1>1, <1>2, <1>3, <1>4, <1>5 DEF IInv

LEMMA FinishStep ==
    ASSUME IInv, Finish
    PROVE  IInv'
<1>1. TypeOK'
  BY ContextAssumption DEF IInv, TypeOK, Shape, Modes, Flows, Maybe, Finish, EndFlow, cloud,
     entry, running, dialog
<1>2. (Known /\ Bound)'
  BY DEF IInv, Known, Bound, Seen, Fits, Finish, EndFlow, cloud, entry, running, dialog
<1>3. Records'
  BY UnchangedLonger, KeptRecords DEF Finish, EndFlow, cloud, entry, running, dialog
<1>4. Shape'
  BY ContextAssumption DEF IInv, TypeOK, Shape, Clean, Same, SettingUp, Settled, Finish,
     EndFlow, cloud, entry, running, dialog
<1>5. (Clean /\ Same)'
  BY DEF IInv, Shape, Clean, Same, SettingUp, Settled, Finish, EndFlow, cloud, entry, running,
     dialog
<1> QED BY <1>1, <1>2, <1>3, <1>4, <1>5 DEF IInv

LEMMA RemoveOldStep ==
    ASSUME IInv, RemoveOld
    PROVE  IInv'
<1>1. TypeOK'
  BY DEF IInv, TypeOK, Maybe, Modes, Flows, RemoveOld, cloud, entry, running, dialog
<1>2. (Known /\ Bound)'
  BY DEF IInv, Known, Bound, Seen, Fits, RemoveOld, cloud, entry, running, dialog
<1>3. Records'
  BY DEF IInv, TypeOK, Records, Seen, Fits, Shape, RemoveOld, cloud, entry, running, dialog
<1>4. Shape'
  BY DEF IInv, Shape, SettingUp, Settled, RemoveOld, cloud, entry, running, dialog
<1>5. (Clean /\ Same)'
  BY ContextAssumption DEF IInv, TypeOK, Shape, Clean, Same, SettingUp, Settled, RemoveOld,
     cloud, entry, running, dialog
<1> QED BY <1>1, <1>2, <1>3, <1>4, <1>5 DEF IInv

-----------------------------------------------------------------------------
(* The invariant holds throughout.                                         *)

LEMMA InitIInv ==
    ASSUME Init
    PROVE  IInv
<1>1. TypeOK
  <2>1. issued \in Seq(Contexts) /\ Len(issued) <= MaxRevision /\ honoured \subseteq
     1..Len(issued)
    BY RevisionAssumption DEF Init
  <2> QED BY <2>1 DEF Init, TypeOK, Modes, Flows, Maybe
<1>2. Known /\ Bound /\ Records
  BY DEF Init, Known, Bound, Records, Seen
<1>3. Shape /\ Clean /\ Same
  BY DEF Init, Shape, Clean, Same, SettingUp, Settled
<1> QED BY <1>1, <1>2, <1>3 DEF IInv

LEMMA StutterIInv ==
    ASSUME IInv, UNCHANGED vars
    PROVE  IInv'
BY DEF vars, cloud, entry, running, dialog, IInv, TypeOK, Known, Bound, Records, Shape, Clean,
   Same,
   Seen, Fits, SettingUp, Settled

LEMMA NextIInv ==
    ASSUME IInv, [Next]_vars
    PROVE  IInv'
<1>1. CASE \/ Consume \/ LoadStored \/ LoadFails
           \/ Validated \/ ValidationRefused \/ ValidationFails
  BY <1>1, ConsumeStep, LoadStoredStep, LoadFailsStep, ValidatedStep, ValidationRefusedStep,
     ValidationFailsStep
<1>2. CASE SaveSession \/ SaveSessionFails \/ Refreshed \/ RefreshFails \/ Renew \/ Rejected
  BY <1>2, SaveSessionStep, SaveSessionFailsStep, RefreshedStep, RefreshFailsStep, RenewStep,
     RejectedStep
<1>3. CASE ReloadScheduled \/ Unload \/ SetupAgain \/ Remove \/ Restart
  BY <1>3, ReloadScheduledStep, UnloadStep, SetupAgainStep, RemoveStep, RestartStep
<1>4. ASSUME NEW a \in Accounts, Expire(a)
      PROVE  IInv'
  BY <1>4, ExpireStep
<1>5. ASSUME NEW r \in Revision, Revoke(r)
      PROVE  IInv'
  BY <1>5, RevokeStep
<1>6. ASSUME NEW c \in Contexts, Submit(c)
      PROVE  IInv'
  BY <1>6, SubmitStep
<1>7. CASE Restore \/ Authenticated \/ Continue \/ Publish \/ Abandon \/ Finish \/ RemoveOld
  BY <1>7, RestoreStep, AuthenticatedStep, ContinueStep, PublishStep, AbandonStep, FinishStep,
     RemoveOldStep
<1>8. CASE UNCHANGED vars
  BY <1>8, StutterIInv
<1> QED BY <1>1, <1>2, <1>3, <1>4, <1>5, <1>6, <1>7, <1>8 DEF Next

LEMMA Inductive == Spec => []IInv
<1>1. Init => IInv
  BY InitIInv
<1>2. IInv /\ [Next]_vars => IInv'
  BY NextIInv
<1> QED BY <1>1, <1>2, PTL DEF Spec

(* Every variable stays in its type.                                       *)
THEOREM TypeCorrect == Spec => []TypeOK
<1>1. IInv => TypeOK
  BY DEF IInv
<1> QED BY <1>1, Inductive, PTL

(* A session is used and stored only under the account and country it was  *)
(* issued to, in cloud_runtime.py as in the store.                         *)
THEOREM SessionsBound == Spec => []SessionOfItsAccount
<1>1. IInv => SessionOfItsAccount
  BY DEF IInv, Bound, Records, SessionOfItsAccount
<1> QED BY <1>1, Inductive, PTL

(* A running entry with no reload pending has nothing staged.              *)
THEOREM HandoffSpent == Spec => []NoStaleHandoff
<1>1. IInv => NoStaleHandoff
  BY DEF IInv, Clean, Settled, NoStaleHandoff
<1> QED BY <1>1, Inductive, PTL

(* What a running entry uses is what a restart finds.                      *)
THEOREM RestartResumes == Spec => []RestartFindsRunning
<1>1. IInv => RestartFindsRunning
  BY DEF IInv, Same, Settled, RestartFindsRunning
<1> QED BY <1>1, Inductive, PTL
=============================================================================
