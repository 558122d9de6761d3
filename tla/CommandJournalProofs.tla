------------------------- MODULE CommandJournalProofs ------------------------
(***************************************************************************)
(* Proofs about CommandJournal, for every set of commands, every number of *)
(* setups and every bound of the journal, with and without faults: a       *)
(* restart finds what was shown, two runtimes never show different         *)
(* results, and a result shown is the one the provider or the clock gave.  *)
(*                                                                         *)
(* The argument: the journal a restart would take its states from          *)
(* (Restored) covers what every runtime shows, on disk as in memory, since *)
(* a state only moves along the transitions, an entry only leaves a full   *)
(* journal, and a command is new to all of them until it is recorded.      *)
(***************************************************************************)
EXTENDS CommandJournal, TLAPS

-----------------------------------------------------------------------------
(* What a journal says of the commands.                                    *)

Full(rec) == Len(rec.commands) = MaxCommands

(* The record is this account's, within its bound, and names a command once. *)
Sound(rec) ==
    /\ rec.context = Account
    /\ Len(rec.commands) <= MaxCommands
    /\ \A i, k \in 1..Len(rec.commands) :
          rec.commands[i].id = rec.commands[k].id => i = k

LEMMA EntryType ==
    ASSUME NEW rec \in Record, NEW i \in 1..Len(rec.commands)
    PROVE  /\ rec.commands[i] \in Command
           /\ rec.commands[i].id \in Commands /\ rec.commands[i].state \in CommandStates
<1> DEFINE cs == rec.commands
<1>1. cs \in Seq(Command)
  BY DEF Record
<1>2. i \in 1..Len(cs)
  OBVIOUS
<1>3. cs[i] \in Command
  <2> HIDE DEF cs
  <2> QED BY <1>1, <1>2
<1> QED BY <1>3 DEF Command, Commands

LEMMA LengthType ==
    ASSUME NEW rec \in Record
    PROVE  rec.commands \in Seq(Command) /\ Len(rec.commands) \in Nat
<1>1. rec.commands \in Seq(Command)
  BY DEF Record
<1> QED BY <1>1

(* The state of an entry a journal names once is its state.                *)
LEMMA RestoredEntry ==
    ASSUME NEW rec \in Record, Sound(rec), NEW k \in 1..Len(rec.commands)
    PROVE  Restored(rec)[rec.commands[k].id] = rec.commands[k].state
<1> DEFINE id == rec.commands[k].id
           n == CHOOSE i \in 1..Len(rec.commands) : rec.commands[i].id = id
<1>1. n \in 1..Len(rec.commands) /\ rec.commands[n].id = id
  OBVIOUS
<1>2. Holds(rec, id) /\ StateOf(rec, id) = rec.commands[n].state
  BY DEF StateOf, Holds
<1>3. id \in Commands
  BY EntryType
<1>4. Restored(rec)[id] = StateOf(rec, id)
  BY <1>2, <1>3 DEF Restored
<1> HIDE DEF n, id
<1>5. n = k
  BY <1>1 DEF Sound, id
<1> QED BY <1>2, <1>4, <1>5 DEF id

LEMMA RestoredAbsentUnknown ==
    ASSUME NEW rec, NEW c \in Commands, ~Holds(rec, c)
    PROVE  Restored(rec)[c] = Unknown
BY DEF Restored

LEMMA RestoredType ==
    ASSUME NEW rec \in Record, Sound(rec)
    PROVE  /\ Restored(rec) \in [Commands -> CommandStates \cup {Unknown}]
           /\ \A c \in Commands : Holds(rec, c) <=> Restored(rec)[c] # Unknown
           /\ \A c \in Commands : Holds(rec, c) => StateOf(rec, c) = Restored(rec)[c]
<1>1. ASSUME NEW c \in Commands, Holds(rec, c)
      PROVE  StateOf(rec, c) \in CommandStates
  <2>1. PICK k \in 1..Len(rec.commands) : rec.commands[k].id = c
    BY <1>1 DEF Holds
  <2>2. StateOf(rec, c) = rec.commands[k].state
    BY <1>1, <2>1, RestoredEntry DEF Restored
  <2> QED BY <2>2, EntryType
<1>2. \A s \in CommandStates : s # Unknown
  BY DEF CommandStates, Unknown
<1> QED BY <1>1, <1>2 DEF Restored

LEMMA TransitionsCompose ==
    ASSUME NEW a \in CommandStates, NEW b \in Transitions[a], NEW c \in Transitions[b]
    PROVE  b \in CommandStates /\ c \in Transitions[a]
BY DEF Transitions, CommandStates

LEMMA TransitionsReflexive ==
    ASSUME NEW a \in CommandStates
    PROVE  a \in Transitions[a] /\ Transitions[a] \subseteq CommandStates
BY DEF Transitions, CommandStates

LEMMA TerminalStays ==
    ASSUME NEW a \in Terminal
    PROVE  a \in CommandStates /\ Transitions[a] = {a}
BY DEF Transitions, CommandStates, Terminal

-----------------------------------------------------------------------------
(* What the three kinds of request make of the journal.                    *)

Accepted(c) == [id |-> c, state |-> "accepted"]

(* t is s with an entry added at the end, the oldest one gone if s is full. *)
Moved(s, t, e) ==
    \/ /\ Len(s) < MaxCommands /\ Len(t) = Len(s) + 1
       /\ \A i \in 1..Len(s) : t[i] = s[i]
       /\ t[Len(t)] = e
    \/ /\ Len(s) = MaxCommands /\ Len(t) = MaxCommands
       /\ \A i \in 1..MaxCommands - 1 : t[i] = s[i + 1]
       /\ t[MaxCommands] = e

LEMMA PushMoves ==
    ASSUME NEW s \in Seq(Command), NEW e \in Command, Len(s) <= MaxCommands
    PROVE  Push(s, e, MaxCommands) \in Seq(Command) /\ Moved(s, Push(s, e, MaxCommands), e)
<1> USE MaxCommandsAssumption
<1>1. CASE Len(s) < MaxCommands
  BY <1>1 DEF Push, Moved
<1>2. CASE Len(s) = MaxCommands
  <2> DEFINE r == Tail(s)
  <2>1. s # <<>>
    BY <1>2
  <2>2. r \in Seq(Command) /\ Len(r) = MaxCommands - 1
    BY <1>2, <2>1
  <2>3. \A i \in 1..MaxCommands - 1 : r[i] = s[i + 1]
    BY <1>2, <2>1
  <2>4. Push(s, e, MaxCommands) = Append(r, e)
    BY <1>2 DEF Push
  <2> HIDE DEF r
  <2>5. /\ Append(r, e) \in Seq(Command)
        /\ Len(Append(r, e)) = MaxCommands
        /\ \A i \in 1..MaxCommands - 1 : Append(r, e)[i] = r[i]
        /\ Append(r, e)[MaxCommands] = e
    BY <2>2
  <2> QED BY <1>2, <2>3, <2>4, <2>5 DEF Moved
<1>3. Len(s) \in Nat
  OBVIOUS
<1> QED BY <1>1, <1>2, <1>3

(* Recording a command the journal does not name adds it as accepted; a    *)
(* full journal forgets its oldest entry.                                  *)
LEMMA RecordEffect ==
    ASSUME NEW rec \in Record, Sound(rec), NEW c \in Commands, Restored(rec)[c] = Unknown
    PROVE  /\ WithCommand(rec, c) \in Record /\ Sound(WithCommand(rec, c))
           /\ Full(rec) => Full(WithCommand(rec, c))
           /\ Restored(WithCommand(rec, c))[c] = "accepted"
           /\ \A d \in Commands \ {c} :
                 \/ Restored(WithCommand(rec, c))[d] = Restored(rec)[d]
                 \/ Full(WithCommand(rec, c)) /\ Restored(WithCommand(rec, c))[d] = Unknown
<1> DEFINE new == WithCommand(rec, c)
           s == rec.commands
           t == new.commands
           e == Accepted(c)
<1>1. e \in Command /\ e.id = c /\ e.state = "accepted"
  BY DEF Accepted, Command, CommandStates, Commands
<1>2. s \in Seq(Command) /\ Len(s) \in Nat /\ Len(s) <= MaxCommands
  BY LengthType DEF Sound
<1>3. t = Push(s, e, MaxCommands) /\ new = [rec EXCEPT !.commands = t]
  BY DEF WithCommand, Accepted, Record
<1>4. t \in Seq(Command) /\ Moved(s, t, e)
  <2> HIDE DEF s, t, e
  <2> QED BY <1>1, <1>2, <1>3, PushMoves
<1>5. new \in Record /\ new.context = Account
  <2> HIDE DEF t, new
  <2> QED BY <1>3, <1>4 DEF Record, Sound
<1>6. \A i \in 1..Len(s) : s[i].id # c
  BY RestoredType DEF Holds
<1>7. \A i, k \in 1..Len(s) : s[i].id = s[k].id => i = k
  BY DEF Sound
<1>8. MaxCommands \in Nat \ {0} /\ Len(t) \in Nat
  BY <1>4, MaxCommandsAssumption
<1>9. Len(t) \in 1..MaxCommands /\ t[Len(t)] = e /\ (Full(rec) => Full(new))
  <2> HIDE DEF s, t, e
  <2>1. Len(t) \in 1..MaxCommands /\ t[Len(t)] = e
    BY <1>2, <1>4, <1>8 DEF Moved
  <2>2. Len(s) = MaxCommands => Len(t) = MaxCommands
    BY <1>2, <1>4, <1>8 DEF Moved
  <2> QED BY <2>1, <2>2 DEF Full, s, t
(* Every other entry of t is one of s, at a place of its own.              *)
<1> DEFINE from(i) == IF Len(s) < MaxCommands THEN i ELSE i + 1
<1>10. \A i \in 1..Len(t) : i # Len(t) => from(i) \in 1..Len(s) /\ t[i] = s[from(i)]
  <2> HIDE DEF s, t, e
  <2> QED BY <1>2, <1>4, <1>8 DEF Moved
<1>11. Sound(new)
  <2>1. ASSUME NEW i \in 1..Len(t), NEW k \in 1..Len(t), t[i].id = t[k].id
        PROVE  i = k
    <3>1. CASE i # Len(t) /\ k # Len(t)
      <4>1. from(i) = from(k)
        <5> HIDE DEF s, t, from
        <5> QED BY <1>7, <1>10, <2>1, <3>1
      <4> HIDE DEF s, t, e
      <4> QED BY <1>8, <4>1
    <3>2. CASE i = Len(t) \/ k = Len(t)
      <4> HIDE DEF s, t, e, from
      <4> QED BY <1>1, <1>6, <1>9, <1>10, <2>1, <3>2
    <3> QED BY <3>1, <3>2
  <2>2. Len(t) <= MaxCommands
    <3> HIDE DEF t
    <3> QED BY <1>8, <1>9
  <2> HIDE DEF new
  <2> QED BY <1>5, <2>1, <2>2 DEF Sound
<1>12. Restored(new)[c] = "accepted"
  <2>1. Len(t) \in 1..Len(t)
    <3> HIDE DEF t
    <3> QED BY <1>8, <1>9
  <2>2. Restored(new)[t[Len(t)].id] = t[Len(t)].state
    <3> HIDE DEF new
    <3> QED BY <1>5, <1>11, <2>1, RestoredEntry
  <2> HIDE DEF new, t, e
  <2> QED BY <1>1, <1>9, <2>2
<1>13. ASSUME NEW d \in Commands \ {c}
       PROVE  \/ Restored(new)[d] = Restored(rec)[d]
              \/ Full(new) /\ Restored(new)[d] = Unknown
  <2>1. CASE Holds(new, d)
    <3>1. PICK i \in 1..Len(t) : t[i].id = d
      BY <2>1 DEF Holds
    <3>2. i # Len(t)
      <4> HIDE DEF t, e
      <4> QED BY <1>1, <1>9, <3>1
    <3>3. from(i) \in 1..Len(s) /\ t[i] = s[from(i)]
      <4> HIDE DEF s, t, from
      <4> QED BY <1>10, <3>2
    <3>4. Restored(new)[d] = t[i].state
      <4> HIDE DEF new
      <4> QED BY <1>5, <1>11, <3>1, RestoredEntry
    <3>5. Restored(rec)[d] = s[from(i)].state
      <4> HIDE DEF t, from
      <4> QED BY <3>1, <3>3, RestoredEntry
    <3> HIDE DEF s, t, new, from
    <3> QED BY <3>3, <3>4, <3>5
  <2>2. CASE ~Holds(new, d)
    <3>1. Restored(new)[d] = Unknown
      BY <2>2, RestoredAbsentUnknown
    <3>2. CASE Len(s) < MaxCommands
      <4>1. ~Holds(rec, d)
        <5> SUFFICES ASSUME NEW i \in 1..Len(s), s[i].id = d
                     PROVE  FALSE
          BY DEF Holds
        <5>1. i \in 1..Len(t) /\ t[i] = s[i]
          <6> HIDE DEF s, t, e
          <6> QED BY <1>2, <1>4, <3>2 DEF Moved
        <5>2. t[i].id = d
          <6> HIDE DEF s, t
          <6> QED BY <5>1
        <5> QED BY <2>2, <5>1, <5>2 DEF Holds
      <4> QED BY <3>1, <4>1, RestoredAbsentUnknown
    <3>3. CASE Len(s) = MaxCommands
      <4>1. Full(new)
        BY <1>9, <3>3 DEF Full
      <4> QED BY <3>1, <4>1
    <3> HIDE DEF s
    <3> QED BY <1>2, <1>8, <3>2, <3>3
  <2> QED BY <2>1, <2>2
<1> QED BY <1>5, <1>9, <1>11, <1>12, <1>13

(* An update replaces the state of its entry and nothing else.             *)
LEMMA UpdateEffect ==
    ASSUME NEW rec \in Record, Sound(rec), NEW c \in Commands, NEW state \in CommandStates,
           Restored(rec)[c] # Unknown
    PROVE  /\ WithState(rec, c, state) \in Record /\ Sound(WithState(rec, c, state))
           /\ Full(rec) => Full(WithState(rec, c, state))
           /\ Restored(WithState(rec, c, state)) = [Restored(rec) EXCEPT ![c] = state]
<1> DEFINE new == WithState(rec, c, state)
           s == rec.commands
           t == [i \in 1..Len(s) |->
                   IF s[i].id = c THEN [s[i] EXCEPT !.state = state] ELSE s[i]]
<1>1. s \in Seq(Command) /\ Len(s) \in Nat /\ Len(s) <= MaxCommands
  BY LengthType DEF Sound
<1>2. new = [rec EXCEPT !.commands = t]
  BY DEF WithState
<1>3. ASSUME NEW i \in 1..Len(s)
      PROVE  /\ t[i] \in Command /\ t[i].id = s[i].id
             /\ t[i].state = IF s[i].id = c THEN state ELSE s[i].state
  <2>1. s[i] \in Command
    BY EntryType
  <2>2. t[i] = IF s[i].id = c THEN [s[i] EXCEPT !.state = state] ELSE s[i]
    OBVIOUS
  <2> HIDE DEF s, t
  <2> QED BY <2>1, <2>2 DEF Command
<1>4. t \in Seq(Command) /\ Len(t) = Len(s)
  <2>1. t \in [1..Len(s) -> Command]
    <3>1. \A i \in 1..Len(s) : t[i] \in Command
      BY <1>3
    <3>2. t = [i \in 1..Len(s) |-> t[i]]
      OBVIOUS
    <3> HIDE DEF s, t
    <3> QED BY <3>1, <3>2
  <2> HIDE DEF s, t
  <2> QED BY <1>1, <2>1
<1>5. new \in Record /\ new.commands = t /\ new.context = Account
  <2> HIDE DEF s, t
  <2> QED BY <1>2, <1>4 DEF Record, Sound
<1>6. Sound(new)
  <2>1. \A i, k \in 1..Len(s) : s[i].id = s[k].id => i = k
    BY DEF Sound
  <2> HIDE DEF s, t, new
  <2> QED BY <1>1, <1>3, <1>4, <1>5, <2>1 DEF Sound
<1>7. Full(rec) => Full(new)
  <2> HIDE DEF t, new
  <2> QED BY <1>4, <1>5 DEF Full
<1>8. ASSUME NEW d \in Commands
      PROVE  Restored(new)[d] = IF d = c THEN state ELSE Restored(rec)[d]
  <2>1. CASE Holds(rec, d)
    <3>1. PICK i \in 1..Len(s) : s[i].id = d
      BY <2>1 DEF Holds
    <3>2. Restored(rec)[d] = s[i].state
      BY <3>1, RestoredEntry
    <3>3. Restored(new)[t[i].id] = t[i].state
      <4>1. i \in 1..Len(new.commands)
        <5> HIDE DEF s, t, new
        <5> QED BY <1>4, <1>5
      <4>2. Restored(new)[new.commands[i].id] = new.commands[i].state
        <5> HIDE DEF new
        <5> QED BY <1>5, <1>6, <4>1, RestoredEntry
      <4> HIDE DEF s, t, new
      <4> QED BY <1>5, <4>2
    <3> HIDE DEF s, t, new
    <3> QED BY <1>3, <3>1, <3>2, <3>3
  <2>2. CASE ~Holds(rec, d)
    <3>1. ~Holds(new, d)
      <4>1. \A i \in 1..Len(s) : s[i].id # d
        BY <2>2 DEF Holds
      <4>2. \A i \in 1..Len(t) : t[i].id # d
        <5> HIDE DEF s, t
        <5> QED BY <1>3, <1>4, <4>1
      <4> HIDE DEF s, t, new
      <4> QED BY <1>5, <4>2 DEF Holds
    <3>2. Restored(new)[d] = Unknown /\ Restored(rec)[d] = Unknown
      BY <2>2, <3>1, RestoredAbsentUnknown
    <3> QED BY <3>2
  <2> QED BY <2>1, <2>2
<1>9. Restored(new) = [Restored(rec) EXCEPT ![c] = state]
  <2>1. Restored(new) = [d \in Commands |-> Restored(new)[d]]
    BY DEF Restored
  <2>2. Restored(rec) \in [Commands -> CommandStates \cup {Unknown}]
    BY RestoredType
  <2> HIDE DEF new
  <2> QED BY <1>8, <2>1, <2>2
<1> QED BY <1>5, <1>6, <1>7, <1>9

(* Saving or clearing the authentication leaves the journal alone.         *)
LEMMA AuthEffect ==
    ASSUME NEW rec \in Record, Sound(rec), NEW auth \in Tokens \cup {NoAuth}
    PROVE  /\ [rec EXCEPT !.auth = auth] \in Record /\ Sound([rec EXCEPT !.auth = auth])
           /\ Full(rec) => Full([rec EXCEPT !.auth = auth])
           /\ Restored([rec EXCEPT !.auth = auth]) = Restored(rec)
<1> DEFINE new == [rec EXCEPT !.auth = auth]
<1>1. new \in Record /\ new.commands = rec.commands /\ new.context = rec.context
  BY DEF Record
<1> HIDE DEF new
<1>2. Restored(new) = Restored(rec)
  BY <1>1 DEF Restored, Holds, StateOf
<1> QED BY <1>1, <1>2 DEF Sound, Full, new

-----------------------------------------------------------------------------
(* What a record owes to what is shown.                                    *)

Statuses == CommandStates \cup {Unknown}
Shown == [Runtimes -> [Commands -> Statuses]]

(* Whoever takes its states from the record finds every command at least   *)
(* as far as m has it, unless it was forgotten by a full journal.          *)
Covers(rec, m) ==
    \A c \in Commands : m[c] # Unknown =>
        \/ Restored(rec)[c] = Unknown /\ Full(rec)
        \/ Restored(rec)[c] # Unknown /\ Restored(rec)[c] \in Transitions[m[c]]

(* The record covers what every runtime of m shows, names no command of    *)
(* fresh, and says of each command something that is possible.             *)
Fits(rec, m, fresh, possible) ==
    /\ rec \in Record /\ Sound(rec)
    /\ \A g \in Runtimes : Covers(rec, m[g])
    /\ \A c \in fresh : Restored(rec)[c] = Unknown
    /\ \A c \in Commands : Restored(rec)[c] \in possible[c]

LEMMA FitsStill ==
    ASSUME NEW rec, NEW m, NEW fresh, NEW possible, NEW fewer, NEW more,
           Fits(rec, m, fresh, possible), fewer \subseteq fresh,
           \A c \in Commands : possible[c] \subseteq more[c]
    PROVE  Fits(rec, m, fewer, more)
BY DEF Fits

LEMMA CoversItself ==
    ASSUME NEW rec \in Record, Sound(rec)
    PROVE  Covers(rec, Restored(rec))
BY RestoredType, TransitionsReflexive DEF Covers

(* What covers the states that covered m covers m, when it names nothing   *)
(* new that m shows.                                                       *)
LEMMA CoversOn ==
    ASSUME NEW rec \in Record, NEW new \in Record, NEW m \in [Commands -> Statuses],
           Sound(rec), Sound(new), Full(rec) => Full(new),
           Covers(rec, m), Covers(new, Restored(rec)),
           \A c \in Commands : m[c] # Unknown /\ Restored(rec)[c] = Unknown =>
               Restored(new)[c] = Unknown
    PROVE  Covers(new, m)
<1> SUFFICES ASSUME NEW c \in Commands, m[c] # Unknown
             PROVE  \/ Restored(new)[c] = Unknown /\ Full(new)
                    \/ Restored(new)[c] # Unknown /\ Restored(new)[c] \in Transitions[m[c]]
  BY DEF Covers
<1>1. m[c] \in CommandStates
  BY DEF Statuses
<1>2. CASE Restored(rec)[c] = Unknown
  BY <1>2 DEF Covers
<1>3. CASE Restored(rec)[c] # Unknown
  <2>1. Restored(rec)[c] \in Transitions[m[c]]
    BY <1>3 DEF Covers
  <2>2. CASE Restored(new)[c] = Unknown
    BY <1>3, <2>2 DEF Covers
  <2>3. CASE Restored(new)[c] # Unknown
    <3>1. Restored(new)[c] \in Transitions[Restored(rec)[c]]
      BY <1>3, <2>3 DEF Covers
    <3> QED BY <1>1, <2>1, <2>3, <3>1, TransitionsCompose
  <2> QED BY <2>2, <2>3
<1> QED BY <1>2, <1>3

(* A runtime may show what the record is at least as far as.               *)
LEMMA ShowFits ==
    ASSUME NEW rec, NEW m \in Shown, NEW fresh, NEW possible, Fits(rec, m, fresh, possible),
           NEW h \in Runtimes, NEW c \in Commands, NEW s \in CommandStates,
           Restored(rec)[c] # Unknown, Restored(rec)[c] \in Transitions[s]
    PROVE  Fits(rec, [m EXCEPT ![h][c] = s], fresh, possible)
BY DEF Fits, Covers, Shown

LEMMA RecordFits ==
    ASSUME NEW rec, NEW m \in Shown, NEW fresh, NEW possible,
           Fits(rec, m, fresh, possible), fresh \subseteq Commands, NEW c \in fresh,
           \A g \in Runtimes : m[g][c] = Unknown,
           \A d \in Commands : {Unknown, "accepted"} \subseteq possible[d]
    PROVE  /\ Fits(WithCommand(rec, c), m, fresh \ {c}, possible)
           /\ Covers(WithCommand(rec, c), Restored(rec))
           /\ Restored(WithCommand(rec, c))[c] = "accepted"
<1> DEFINE new == WithCommand(rec, c)
<1>1. rec \in Record /\ Sound(rec) /\ Restored(rec)[c] = Unknown /\ c \in Commands
  BY DEF Fits
<1>2. /\ new \in Record /\ Sound(new) /\ (Full(rec) => Full(new))
      /\ Restored(new)[c] = "accepted"
      /\ \A d \in Commands \ {c} :
            \/ Restored(new)[d] = Restored(rec)[d]
            \/ Full(new) /\ Restored(new)[d] = Unknown
  BY <1>1, RecordEffect
<1> HIDE DEF new
<1>3. Covers(new, Restored(rec))
  BY <1>1, <1>2, RestoredType, TransitionsReflexive DEF Covers
<1>4. \A g \in Runtimes : Covers(new, m[g])
  <2> SUFFICES ASSUME NEW g \in Runtimes PROVE Covers(new, m[g])
    OBVIOUS
  <2>1. m[g] \in [Commands -> Statuses] /\ Covers(rec, m[g])
    BY DEF Shown, Fits
  <2>2. ASSUME NEW d \in Commands, m[g][d] # Unknown, Restored(rec)[d] = Unknown
        PROVE  Restored(new)[d] = Unknown
    BY <1>2, <2>2
  <2> QED BY <1>1, <1>2, <1>3, <2>1, <2>2, CoversOn
<1>5. \A d \in fresh \ {c} : Restored(new)[d] = Unknown
  BY <1>2 DEF Fits
<1>6. \A d \in Commands : Restored(new)[d] \in possible[d]
  BY <1>1, <1>2 DEF Fits
<1> QED BY <1>2, <1>3, <1>4, <1>5, <1>6 DEF Fits, new

LEMMA UpdateFits ==
    ASSUME NEW rec, NEW m \in Shown, NEW fresh, NEW possible,
           Fits(rec, m, fresh, possible), fresh \subseteq Commands,
           NEW c \in Commands, NEW s \in possible[c],
           Restored(rec)[c] # Unknown, s \in Transitions[Restored(rec)[c]]
    PROVE  /\ s \in CommandStates
           /\ Fits(WithState(rec, c, s), m, fresh, possible)
           /\ Covers(WithState(rec, c, s), Restored(rec))
           /\ Restored(WithState(rec, c, s))[c] = s
<1> DEFINE new == WithState(rec, c, s)
<1>1. rec \in Record /\ Sound(rec)
  BY DEF Fits
<1>2. Restored(rec) \in [Commands -> Statuses]
  BY <1>1, RestoredType DEF Statuses
<1>3. s \in CommandStates /\ s # Unknown
  <2>1. Restored(rec)[c] \in CommandStates
    BY <1>2 DEF Statuses
  <2>2. s \in CommandStates
    BY <2>1, TransitionsReflexive
  <2> QED BY <2>2 DEF CommandStates, Unknown
<1>4. /\ new \in Record /\ Sound(new) /\ (Full(rec) => Full(new))
      /\ Restored(new) = [Restored(rec) EXCEPT ![c] = s]
  BY <1>1, <1>3, UpdateEffect
<1> HIDE DEF new
<1>5. Covers(new, Restored(rec))
  BY <1>2, <1>3, <1>4, TransitionsReflexive DEF Covers, Statuses
<1>6. \A g \in Runtimes : Covers(new, m[g])
  <2> SUFFICES ASSUME NEW g \in Runtimes PROVE Covers(new, m[g])
    OBVIOUS
  <2>1. m[g] \in [Commands -> Statuses] /\ Covers(rec, m[g])
    BY DEF Shown, Fits
  <2>2. ASSUME NEW d \in Commands, m[g][d] # Unknown, Restored(rec)[d] = Unknown
        PROVE  Restored(new)[d] = Unknown
    BY <1>2, <1>4, <2>2
  <2> QED BY <1>1, <1>4, <1>5, <2>1, <2>2, CoversOn
<1>7. \A d \in Commands : Restored(new)[d] \in possible[d]
  BY <1>2, <1>4 DEF Fits
<1>8. \A d \in fresh : Restored(new)[d] = Unknown
  BY <1>2, <1>4 DEF Fits
<1> QED BY <1>2, <1>3, <1>4, <1>5, <1>6, <1>7, <1>8 DEF Fits, new

LEMMA AuthFits ==
    ASSUME NEW rec, NEW m \in Shown, NEW fresh, NEW possible,
           Fits(rec, m, fresh, possible), NEW auth \in Tokens \cup {NoAuth}
    PROVE  /\ Fits([rec EXCEPT !.auth = auth], m, fresh, possible)
           /\ Covers([rec EXCEPT !.auth = auth], Restored(rec))
<1> DEFINE new == [rec EXCEPT !.auth = auth]
<1>1. rec \in Record /\ Sound(rec)
  BY DEF Fits
<1>2. /\ new \in Record /\ Sound(new) /\ (Full(rec) => Full(new))
      /\ Restored(new) = Restored(rec)
  BY <1>1, AuthEffect
<1> HIDE DEF new
<1>3. Covers(new, Restored(new))
  BY <1>2, CoversItself
<1> QED BY <1>2, <1>3 DEF Fits, Covers, new

-----------------------------------------------------------------------------
(* What every step finds.                                                  *)

(* The commands that are not recorded yet.                                 *)
Fresh == {c \in Commands : call[c] # "ended"}

(* The states that may be shown of a command, by what became of it.        *)
Possible ==
    [c \in Commands |->
        {Unknown, "accepted", "polling"}
          \cup (IF outcome[c] = "success" THEN {"completed"} ELSE {})
          \cup (IF outcome[c] = "failure" \/ late[c] THEN {"failed"} ELSE {})]

(* Disk and memory cover what is shown, and the disk covers the memory.    *)
StoreInv ==
    /\ Fits(committed, memory, Fresh, Possible)
    /\ Fits(durable, memory, Fresh, Possible)
    /\ Covers(durable, Restored(committed))

ShownInv ==
    \A g \in Runtimes, c \in Commands :
        /\ c \in Fresh => memory[g][c] = Unknown
        /\ memory[g][c] \in Possible[c] /\ target[g][c] \in Possible[c]

(* Nothing came of a command that is not accepted.                         *)
SentInv == \A c \in Commands : call[c] \in {"new", "sending"} => outcome[c] = Unknown

IInv == TypeOK /\ StoreInv /\ ShownInv /\ SentInv /\ OneResult

(* One place of a table of runtimes and commands is replaced.              *)
LEMMA OnePlace ==
    ASSUME NEW S, NEW f \in [Runtimes -> [Commands -> S]],
           NEW h \in Runtimes, NEW c \in Commands, NEW s \in S
    PROVE  /\ [f EXCEPT ![h][c] = s] \in [Runtimes -> [Commands -> S]]
           /\ \A g \in Runtimes, d \in Commands :
                 [f EXCEPT ![h][c] = s][g][d] = IF g = h /\ d = c THEN s ELSE f[g][d]
OBVIOUS

LEMMA TargetPlace ==
    ASSUME TypeOK, NEW h \in Runtimes, NEW c \in Commands, NEW s \in Terminal \cup {Unknown},
           target' = [target EXCEPT ![h][c] = s]
    PROVE  /\ target' \in [Runtimes -> [Commands -> Terminal \cup {Unknown}]]
           /\ \A g \in Runtimes, d \in Commands :
                 target'[g][d] = IF g = h /\ d = c THEN s ELSE target[g][d]
<1> DEFINE S == Terminal \cup {Unknown}
<1>1. target \in [Runtimes -> [Commands -> S]]
  BY DEF TypeOK
<1>2. s \in S
  OBVIOUS
<1> HIDE DEF S
<1>3. /\ target' \in [Runtimes -> [Commands -> S]]
      /\ \A g \in Runtimes, d \in Commands :
            target'[g][d] = IF g = h /\ d = c THEN s ELSE target[g][d]
  BY <1>1, <1>2, OnePlace
<1> QED BY <1>3 DEF S

LEMMA MemoryPlace ==
    ASSUME TypeOK, NEW h \in Runtimes, NEW c \in Commands, NEW s \in CommandStates,
           memory' = [memory EXCEPT ![h][c] = s]
    PROVE  /\ memory' \in Shown
           /\ \A g \in Runtimes, d \in Commands :
                 memory'[g][d] = IF g = h /\ d = c THEN s ELSE memory[g][d]
<1> DEFINE S == CommandStates \cup {Unknown}
<1>1. memory \in [Runtimes -> [Commands -> S]]
  BY DEF TypeOK
<1>2. s \in S
  OBVIOUS
<1> HIDE DEF S
<1>3. /\ memory' \in [Runtimes -> [Commands -> S]]
      /\ \A g \in Runtimes, d \in Commands :
            memory'[g][d] = IF g = h /\ d = c THEN s ELSE memory[g][d]
  BY <1>1, <1>2, OnePlace
<1> QED BY <1>3 DEF S, Shown, Statuses

LEMMA MemoryType == TypeOK => memory \in Shown
BY DEF TypeOK, Shown, Statuses

LEMMA PossibleAlways ==
    ASSUME NEW c \in Commands
    PROVE  {Unknown, "accepted", "polling"} \subseteq Possible[c]
BY DEF Possible

(* Time and the vehicle's answer only add to what is possible.             *)
LEMMA PossibleGrows ==
    ASSUME \A c \in Commands : outcome'[c] = outcome[c] \/ outcome[c] \in {Unknown, "pending"},
           \A c \in Commands : late[c] => late'[c]
    PROVE  \A d \in Commands : Possible[d] \subseteq Possible'[d]
BY DEF Possible, Unknown

LEMMA PossibleStill ==
    ASSUME UNCHANGED <<outcome, late>>
    PROVE  Possible' = Possible
BY DEF Possible

LEMMA FreshStill ==
    ASSUME UNCHANGED call
    PROVE  Fresh' = Fresh
BY DEF Fresh

LEMMA InitIInv == Init => IInv
<1> SUFFICES ASSUME Init PROVE IInv
  OBVIOUS
<1> USE AccountAssumption
<1>1. committed \in Record /\ committed.commands = <<>> /\ committed.context = Account
  <2> DEFINE empty == EmptyRecord(Account)
  <2>1. empty \in Record /\ empty.commands = <<>> /\ empty.context = Account
    BY DEF EmptyRecord, Record, Ownership
  <2>2. committed = [empty EXCEPT !.auth = Token]
    BY DEF Init
  <2> HIDE DEF empty
  <2> QED BY <2>1, <2>2 DEF Record
<1>2. Sound(committed)
  BY <1>1, MaxCommandsAssumption DEF Sound
<1>3. \A c \in Commands : Restored(committed)[c] = Unknown
  <2>1. \A c \in Commands : ~Holds(committed, c)
    BY <1>1 DEF Holds
  <2> QED BY <2>1, RestoredAbsentUnknown
<1>4. TypeOK
  BY <1>1, RuntimesAssumption DEF Init, TypeOK, Nothing, Runtimes, FollowerStages
<1>5. \A g \in Runtimes, c \in Commands : memory[g][c] = Unknown /\ target[g][c] = Unknown
  BY DEF Init, Nothing
<1>6. Fits(committed, memory, Fresh, Possible)
  BY <1>1, <1>2, <1>3, <1>5, PossibleAlways DEF Fits, Covers, Fresh
<1>7. StoreInv
  BY <1>3, <1>6 DEF StoreInv, Covers, Init
<1>8. ShownInv
  BY <1>5, PossibleAlways DEF ShownInv
<1>9. SentInv /\ OneResult
  BY <1>5 DEF Init, SentInv, OneResult, Terminal, Unknown
<1> QED BY <1>4, <1>7, <1>8, <1>9 DEF IInv

-----------------------------------------------------------------------------
(* Steps that neither store nor show anything.                             *)

LEMMA QuietKeeps ==
    ASSUME IInv, UNCHANGED <<committed, durable, memory>>,
           Fresh' \subseteq Fresh, \A d \in Commands : Possible[d] \subseteq Possible'[d],
           TypeOK', SentInv',
           \A g \in Runtimes, d \in Commands : target'[g][d] \in Possible'[d]
    PROVE  IInv'
<1>1. StoreInv'
  <2>1. /\ Fits(committed, memory, Fresh', Possible')
        /\ Fits(durable, memory, Fresh', Possible')
    BY FitsStill DEF IInv, StoreInv
  <2> QED BY <2>1 DEF IInv, StoreInv
<1>2. ShownInv'
  BY DEF IInv, ShownInv
<1>3. OneResult'
  BY DEF IInv, OneResult
<1> QED BY <1>1, <1>2, <1>3 DEF IInv

LEMMA StartStep ==
    ASSUME NEW c \in Commands, IInv, Start(c)
    PROVE  IInv'
<1>1. TypeOK'
  BY DEF IInv, TypeOK, Start, store, tasks
<1>2. Fresh' \subseteq Fresh
  BY DEF IInv, TypeOK, Fresh, Start, Goto, Settle, store, calls, tasks
<1>3. \A d \in Commands : Possible[d] \subseteq Possible'[d]
  BY PossibleStill DEF IInv, TypeOK, SentInv, Start, Goto, Settle, store, calls, tasks
<1>4. SentInv'
  BY DEF IInv, TypeOK, SentInv, Start, Goto, Settle, store, calls, tasks
<1>5. \A g \in Runtimes, d \in Commands : target'[g][d] \in Possible'[d]
  BY <1>3 DEF IInv, ShownInv, Start, Goto, Settle, store, calls, tasks
<1> QED BY <1>1, <1>2, <1>3, <1>4, <1>5, QuietKeeps DEF Start, Goto, Settle, store, calls, tasks

LEMMA AcceptStep ==
    ASSUME NEW c \in Commands, IInv, Accept(c)
    PROVE  IInv'
<1>1. TypeOK'
  BY DEF IInv, TypeOK, Accept, Goto, Settle, store, calls, tasks
<1>2. Fresh' \subseteq Fresh
  BY DEF IInv, TypeOK, Fresh, Accept, Goto, Settle, store, calls, tasks
<1>3. \A d \in Commands : Possible[d] \subseteq Possible'[d]
  BY PossibleGrows DEF IInv, TypeOK, SentInv, Accept, Goto, Settle, store, calls, tasks
<1>4. SentInv'
  BY DEF IInv, TypeOK, SentInv, Accept, Goto, Settle, store, calls, tasks
<1>5. \A g \in Runtimes, d \in Commands : target'[g][d] \in Possible'[d]
  BY <1>3 DEF IInv, ShownInv, Accept, Goto, Settle, store, calls, tasks
<1> QED BY <1>1, <1>2, <1>3, <1>4, <1>5, QuietKeeps DEF Accept, Goto, Settle, store, calls, tasks

LEMMA SendFailsStep ==
    ASSUME NEW c \in Commands, IInv, SendFails(c)
    PROVE  IInv'
<1>1. TypeOK'
  BY DEF IInv, TypeOK, SendFails, Goto, Settle, store, calls, tasks
<1>2. Fresh' \subseteq Fresh
  BY DEF IInv, TypeOK, Fresh, SendFails, Goto, Settle, store, calls, tasks
<1>3. \A d \in Commands : Possible[d] \subseteq Possible'[d]
  BY PossibleGrows DEF IInv, TypeOK, SentInv, SendFails, Goto, Settle, store, calls, tasks
<1>4. SentInv'
  BY DEF IInv, TypeOK, SentInv, SendFails, Goto, Settle, store, calls, tasks
<1>5. \A g \in Runtimes, d \in Commands : target'[g][d] \in Possible'[d]
  BY <1>3 DEF IInv, ShownInv, SendFails, Goto, Settle, store, calls, tasks
<1> QED BY <1>1, <1>2, <1>3, <1>4, <1>5, QuietKeeps DEF SendFails, Goto, Settle, store, calls, tasks

LEMMA CancelCallStep ==
    ASSUME NEW c \in Commands, IInv, CancelCall(c)
    PROVE  IInv'
<1>1. TypeOK'
  BY DEF IInv, TypeOK, CancelCall, Goto, Settle, store, calls, tasks
<1>2. Fresh' \subseteq Fresh
  BY DEF IInv, TypeOK, Fresh, CancelCall, Goto, Settle, store, calls, tasks
<1>3. \A d \in Commands : Possible[d] \subseteq Possible'[d]
  BY PossibleStill DEF IInv, TypeOK, SentInv, CancelCall, Goto, Settle, store, calls, tasks
<1>4. SentInv'
  BY DEF IInv, TypeOK, SentInv, CancelCall, Goto, Settle, store, calls, tasks
<1>5. \A g \in Runtimes, d \in Commands : target'[g][d] \in Possible'[d]
  BY <1>3 DEF IInv, ShownInv, CancelCall, Goto, Settle, store, calls, tasks
<1> QED BY <1>1, <1>2, <1>3, <1>4, <1>5, QuietKeeps DEF CancelCall, Goto, Settle, store, calls, tasks

LEMMA WakeStep ==
    ASSUME NEW h \in Runtimes, NEW c \in Commands, IInv, Wake(h, c)
    PROVE  IInv'
<1>0. /\ \E s \in {"none", "settling", "marking", "reading"} :
            follower' = [follower EXCEPT ![h][c] = s]
      /\ \/ target' = target
         \/ late[c] /\ target' = [target EXCEPT ![h][c] = "failed"]
  BY Zenon DEF Wake, Goto, Settle
<1>1. TypeOK'
  <2>1. follower' \in [Runtimes -> [Commands -> FollowerStages]]
    BY <1>0 DEF IInv, TypeOK, FollowerStages
  <2>2. target' \in [Runtimes -> [Commands -> Terminal \cup {Unknown}]]
    <3>1. CASE target' = target
      BY <3>1 DEF IInv, TypeOK
    <3>2. CASE target' # target
      BY <1>0, <3>2, TargetPlace DEF IInv, Terminal
    <3> QED BY <3>1, <3>2
  <2> QED BY <2>1, <2>2 DEF IInv, TypeOK, Wake, store, calls
<1>2. Fresh' \subseteq Fresh
  BY DEF IInv, TypeOK, Fresh, Wake, Goto, Settle, store, calls, tasks
<1>3. \A d \in Commands : Possible[d] \subseteq Possible'[d]
  BY PossibleStill DEF IInv, TypeOK, SentInv, Wake, Goto, Settle, store, calls, tasks
<1>4. SentInv'
  BY DEF IInv, TypeOK, SentInv, Wake, Goto, Settle, store, calls, tasks
<1>5. \A g \in Runtimes, d \in Commands : target'[g][d] \in Possible'[d]
  <2>1. \A g \in Runtimes, d \in Commands :
           target'[g][d] = target[g][d] \/ (target'[g][d] = "failed" /\ late[d])
    <3>1. CASE target' = target
      BY <3>1 DEF IInv, TypeOK
    <3>2. CASE target' # target
      BY <1>0, <3>2, TargetPlace DEF IInv, Terminal
    <3> QED BY <3>1, <3>2
  <2> QED BY <1>3, <2>1 DEF IInv, ShownInv, Possible
<1> QED BY <1>1, <1>2, <1>3, <1>4, <1>5, QuietKeeps DEF Wake, Goto, Settle, store, calls, tasks

LEMMA ReadStep ==
    ASSUME NEW h \in Runtimes, NEW c \in Commands, IInv, Read(h, c)
    PROVE  IInv'
<1>0. /\ \E s \in {"sleeping", "settling"} : follower' = [follower EXCEPT ![h][c] = s]
      /\ \/ target' = target
         \/ /\ late[c] \/ outcome[c] = "failure"
            /\ target' = [target EXCEPT ![h][c] = "failed"]
         \/ outcome[c] = "success" /\ target' = [target EXCEPT ![h][c] = "completed"]
  BY Zenon DEF Read, Goto, Settle
<1>1. TypeOK'
  <2>1. follower' \in [Runtimes -> [Commands -> FollowerStages]]
    BY <1>0 DEF IInv, TypeOK, FollowerStages
  <2>2. target' \in [Runtimes -> [Commands -> Terminal \cup {Unknown}]]
    <3>1. CASE target' = target
      BY <3>1 DEF IInv, TypeOK
    <3>2. CASE target' # target
      BY <1>0, <3>2, TargetPlace DEF IInv, Terminal
    <3> QED BY <3>1, <3>2
  <2> QED BY <2>1, <2>2 DEF IInv, TypeOK, Read, store, calls
<1>2. Fresh' \subseteq Fresh
  BY DEF IInv, TypeOK, Fresh, Read, Goto, Settle, store, calls, tasks
<1>3. \A d \in Commands : Possible[d] \subseteq Possible'[d]
  BY PossibleStill DEF IInv, TypeOK, SentInv, Read, Goto, Settle, store, calls, tasks
<1>4. SentInv'
  BY DEF IInv, TypeOK, SentInv, Read, Goto, Settle, store, calls, tasks
<1>5. \A g \in Runtimes, d \in Commands : target'[g][d] \in Possible'[d]
  <2>1. \A g \in Runtimes, d \in Commands :
           \/ target'[g][d] = target[g][d]
           \/ target'[g][d] = "failed" /\ (late[d] \/ outcome[d] = "failure")
           \/ target'[g][d] = "completed" /\ outcome[d] = "success"
    <3>1. CASE target' = target
      BY <3>1 DEF IInv, TypeOK
    <3>2. CASE target' # target
      BY <1>0, <3>2, TargetPlace DEF IInv, Terminal
    <3> QED BY <3>1, <3>2
  <2> QED BY <1>3, <2>1 DEF IInv, ShownInv, Possible
<1> QED BY <1>1, <1>2, <1>3, <1>4, <1>5, QuietKeeps DEF Read, Goto, Settle, store, calls, tasks

LEMMA ReadFailsStep ==
    ASSUME NEW h \in Runtimes, NEW c \in Commands, IInv, ReadFails(h, c)
    PROVE  IInv'
<1>1. TypeOK'
  BY DEF IInv, TypeOK, FollowerStages, ReadFails, Goto, store, calls
<1>2. Fresh' \subseteq Fresh
  BY DEF IInv, TypeOK, Fresh, ReadFails, Goto, Settle, store, calls, tasks
<1>3. \A d \in Commands : Possible[d] \subseteq Possible'[d]
  BY PossibleStill DEF IInv, TypeOK, SentInv, ReadFails, Goto, Settle, store, calls, tasks
<1>4. SentInv'
  BY DEF IInv, TypeOK, SentInv, ReadFails, Goto, Settle, store, calls, tasks
<1>5. \A g \in Runtimes, d \in Commands : target'[g][d] \in Possible'[d]
  BY <1>3 DEF IInv, ShownInv, ReadFails, Goto, Settle, store, calls, tasks
<1> QED BY <1>1, <1>2, <1>3, <1>4, <1>5, QuietKeeps DEF ReadFails, Goto, Settle, store, calls, tasks

LEMMA GiveUpStep ==
    ASSUME NEW h \in Runtimes, NEW c \in Commands, IInv, GiveUp(h, c)
    PROVE  IInv'
<1>1. TypeOK'
  BY DEF IInv, TypeOK, FollowerStages, GiveUp, Goto, store, calls
<1>2. Fresh' \subseteq Fresh
  BY DEF IInv, TypeOK, Fresh, GiveUp, Goto, Settle, store, calls, tasks
<1>3. \A d \in Commands : Possible[d] \subseteq Possible'[d]
  BY PossibleStill DEF IInv, TypeOK, SentInv, GiveUp, Goto, Settle, store, calls, tasks
<1>4. SentInv'
  BY DEF IInv, TypeOK, SentInv, GiveUp, Goto, Settle, store, calls, tasks
<1>5. \A g \in Runtimes, d \in Commands : target'[g][d] \in Possible'[d]
  BY <1>3 DEF IInv, ShownInv, GiveUp, Goto, Settle, store, calls, tasks
<1> QED BY <1>1, <1>2, <1>3, <1>4, <1>5, QuietKeeps DEF GiveUp, Goto, Settle, store, calls, tasks

LEMMA CancelTasksStep ==
    ASSUME IInv, CancelTasks
    PROVE  IInv'
<1>1. TypeOK'
  BY DEF IInv, TypeOK, FollowerStages, Leaving, CancelTasks, store, calls
<1>2. Fresh' \subseteq Fresh
  BY DEF IInv, TypeOK, Fresh, CancelTasks, Goto, Settle, store, calls, tasks
<1>3. \A d \in Commands : Possible[d] \subseteq Possible'[d]
  BY PossibleStill DEF IInv, TypeOK, SentInv, CancelTasks, Goto, Settle, store, calls, tasks
<1>4. SentInv'
  BY DEF IInv, TypeOK, SentInv, CancelTasks, Goto, Settle, store, calls, tasks
<1>5. \A g \in Runtimes, d \in Commands : target'[g][d] \in Possible'[d]
  BY <1>3 DEF IInv, ShownInv, CancelTasks, Goto, Settle, store, calls, tasks
<1> QED BY <1>1, <1>2, <1>3, <1>4, <1>5, QuietKeeps DEF CancelTasks, Goto, Settle, store, calls, tasks

LEMMA CloseStep ==
    ASSUME IInv, Close
    PROVE  IInv'
<1>1. TypeOK'
  BY DEF IInv, TypeOK, Close, Goto, Settle, store, calls, tasks
<1>2. Fresh' \subseteq Fresh
  BY DEF IInv, TypeOK, Fresh, Close, Goto, Settle, store, calls, tasks
<1>3. \A d \in Commands : Possible[d] \subseteq Possible'[d]
  BY PossibleStill DEF IInv, TypeOK, SentInv, Close, Goto, Settle, store, calls, tasks
<1>4. SentInv'
  BY DEF IInv, TypeOK, SentInv, Close, Goto, Settle, store, calls, tasks
<1>5. \A g \in Runtimes, d \in Commands : target'[g][d] \in Possible'[d]
  BY <1>3 DEF IInv, ShownInv, Close, Goto, Settle, store, calls, tasks
<1> QED BY <1>1, <1>2, <1>3, <1>4, <1>5, QuietKeeps DEF Close, Goto, Settle, store, calls, tasks

LEMMA VehicleAnswersStep ==
    ASSUME NEW c \in Commands, IInv, VehicleAnswers(c)
    PROVE  IInv'
<1>1. TypeOK'
  BY DEF IInv, TypeOK, VehicleAnswers, Goto, Settle, store, calls, tasks
<1>2. Fresh' \subseteq Fresh
  BY DEF IInv, TypeOK, Fresh, VehicleAnswers, Goto, Settle, store, calls, tasks
<1>3. \A d \in Commands : Possible[d] \subseteq Possible'[d]
  <2>1. \A d \in Commands : outcome'[d] = outcome[d] \/ outcome[d] \in {Unknown, "pending"}
    BY DEF IInv, TypeOK, VehicleAnswers
  <2> QED BY <2>1, PossibleGrows DEF VehicleAnswers
<1>4. SentInv'
  BY DEF IInv, TypeOK, SentInv, Unknown, VehicleAnswers, Goto, Settle, store, calls, tasks
<1>5. \A g \in Runtimes, d \in Commands : target'[g][d] \in Possible'[d]
  BY <1>3 DEF IInv, ShownInv, VehicleAnswers, Goto, Settle, store, calls, tasks
<1> QED BY <1>1, <1>2, <1>3, <1>4, <1>5, QuietKeeps DEF VehicleAnswers, Goto, Settle, store, calls, tasks

LEMMA TimePassesStep ==
    ASSUME NEW c \in Commands, IInv, TimePasses(c)
    PROVE  IInv'
<1>1. TypeOK'
  BY DEF IInv, TypeOK, TimePasses, Goto, Settle, store, calls, tasks
<1>2. Fresh' \subseteq Fresh
  BY DEF IInv, TypeOK, Fresh, TimePasses, Goto, Settle, store, calls, tasks
<1>3. \A d \in Commands : Possible[d] \subseteq Possible'[d]
  BY PossibleGrows DEF IInv, TypeOK, SentInv, TimePasses, Goto, Settle, store, calls, tasks
<1>4. SentInv'
  BY DEF IInv, TypeOK, SentInv, TimePasses, Goto, Settle, store, calls, tasks
<1>5. \A g \in Runtimes, d \in Commands : target'[g][d] \in Possible'[d]
  BY <1>3 DEF IInv, ShownInv, TimePasses, Goto, Settle, store, calls, tasks
<1> QED BY <1>1, <1>2, <1>3, <1>4, <1>5, QuietKeeps DEF TimePasses, Goto, Settle, store, calls, tasks

-----------------------------------------------------------------------------
(* Steps that store.                                                       *)

LEMMA RecordsFit ==
    ASSUME IInv
    PROVE  /\ committed \in Record /\ Sound(committed)
           /\ durable \in Record /\ Sound(durable)
           /\ Matches(committed, Account)
           /\ Fresh \subseteq Commands /\ memory \in Shown
BY MemoryType, NoRecordAssumption DEF IInv, StoreInv, Fits, Sound, Matches, Fresh

LEMMA AuthSaved ==
    ASSUME IInv, NEW req \in {[op |-> "clear", ctx |-> Account],
                              [op |-> "save", ctx |-> Account, auth |-> Token]}
    PROVE  /\ Saved(committed, FALSE, req) \in Record
           /\ Fits(Saved(committed, FALSE, req), memory, Fresh, Possible)
           /\ Covers(Saved(committed, FALSE, req), Restored(committed))
<1>1. PICK auth \in Tokens \cup {NoAuth} :
          Saved(committed, FALSE, req) = [committed EXCEPT !.auth = auth]
  <2>1. CASE req = [op |-> "clear", ctx |-> Account]
    BY <2>1, RecordsFit DEF Saved, Carried
  <2>2. CASE req = [op |-> "save", ctx |-> Account, auth |-> Token]
    BY <2>2, RecordsFit, AccountAssumption DEF Saved, Carried
  <2> QED BY <2>1, <2>2
<1>2. Fits(committed, memory, Fresh, Possible)
  BY DEF IInv, StoreInv
<1>3. /\ Fits([committed EXCEPT !.auth = auth], memory, Fresh, Possible)
      /\ Covers([committed EXCEPT !.auth = auth], Restored(committed))
  BY <1>2, RecordsFit, AuthFits
<1> QED BY <1>1, <1>3 DEF Fits

LEMMA RecordSaved ==
    ASSUME IInv, NEW c \in Commands, call[c] # "ended"
    PROVE  /\ Saved(committed, FALSE, RecordRequest(c)) \in Record
           /\ Fits(Saved(committed, FALSE, RecordRequest(c)), memory, Fresh \ {c}, Possible)
           /\ Covers(Saved(committed, FALSE, RecordRequest(c)), Restored(committed))
           /\ Restored(Saved(committed, FALSE, RecordRequest(c)))[c] = "accepted"
<1>1. Saved(committed, FALSE, RecordRequest(c)) = WithCommand(committed, c)
  BY DEF Saved, RecordRequest
<1>2. c \in Fresh /\ \A g \in Runtimes : memory[g][c] = Unknown
  BY DEF IInv, ShownInv, Fresh
<1>3. Fits(committed, memory, Fresh, Possible)
  BY DEF IInv, StoreInv
<1>4. \A d \in Commands : {Unknown, "accepted"} \subseteq Possible[d]
  BY PossibleAlways
<1>5. /\ Fits(WithCommand(committed, c), memory, Fresh \ {c}, Possible)
      /\ Covers(WithCommand(committed, c), Restored(committed))
      /\ Restored(WithCommand(committed, c))[c] = "accepted"
  BY <1>2, <1>3, <1>4, RecordsFit, RecordFits
<1> QED BY <1>1, <1>5 DEF Fits

(* An update that is not rejected has an entry to move on.                 *)
LEMMA UpdateSaved ==
    ASSUME IInv, NEW c \in Commands, NEW s \in Possible[c],
           ~Rejected(committed, UpdateRequest(c, s))
    PROVE  /\ s \in CommandStates
           /\ Restored(committed)[c] \in CommandStates
           /\ s \in Transitions[Restored(committed)[c]]
           /\ Saved(committed, FALSE, UpdateRequest(c, s)) \in Record
           /\ Fits(Saved(committed, FALSE, UpdateRequest(c, s)), memory, Fresh, Possible)
           /\ Covers(Saved(committed, FALSE, UpdateRequest(c, s)), Restored(committed))
           /\ Restored(Saved(committed, FALSE, UpdateRequest(c, s)))[c] = s
<1>1. Saved(committed, FALSE, UpdateRequest(c, s)) = WithState(committed, c, s)
  BY DEF Saved, UpdateRequest
<1>2. Holds(committed, c) /\ s \in Transitions[StateOf(committed, c)]
  BY RecordsFit DEF Rejected, UpdateRequest
<1>3. /\ Restored(committed)[c] # Unknown /\ Restored(committed)[c] \in CommandStates
      /\ s \in Transitions[Restored(committed)[c]]
  BY <1>2, RecordsFit, RestoredType
<1>4. Fits(committed, memory, Fresh, Possible)
  BY DEF IInv, StoreInv
<1>5. /\ s \in CommandStates
      /\ Fits(WithState(committed, c, s), memory, Fresh, Possible)
      /\ Covers(WithState(committed, c, s), Restored(committed))
      /\ Restored(WithState(committed, c, s))[c] = s
  BY <1>3, <1>4, RecordsFit, UpdateFits
<1> QED BY <1>1, <1>3, <1>5 DEF Fits

(* A store that fails or refuses leaves the old record in memory, and on   *)
(* disk the old one or the new one.                                        *)
LEMMA UndoneKeeps ==
    ASSUME IInv, NEW req, Undone(req), NEW fewer, fewer \subseteq Fresh,
           ~Rejected(committed, req) =>
               /\ Saved(committed, FALSE, req) \in Record
               /\ Fits(Saved(committed, FALSE, req), memory, fewer, Possible)
               /\ Covers(Saved(committed, FALSE, req), Restored(committed))
    PROVE  /\ committed' \in Record /\ durable' \in Record
           /\ Fits(committed', memory, fewer, Possible)
           /\ Fits(durable', memory, fewer, Possible)
           /\ Covers(durable', Restored(committed'))
<1>1. /\ Fits(committed, memory, fewer, Possible)
      /\ Fits(durable, memory, fewer, Possible)
      /\ Covers(durable, Restored(committed))
  BY FitsStill DEF IInv, StoreInv
<1>2. committed' = committed /\ (durable' = durable \/
          (~Rejected(committed, req) /\ durable' = Saved(committed, FALSE, req)))
  BY DEF Undone
<1> QED BY <1>1, <1>2, RecordsFit

LEMMA AuthChangesStep ==
    ASSUME IInv, AuthChanges
    PROVE  IInv'
<1> PICK req \in {[op |-> "clear", ctx |-> Account],
                  [op |-> "save", ctx |-> Account, auth |-> Token]} :
        Done(req) \/ Undone(req)
  BY DEF AuthChanges
<1>1. /\ committed' \in Record /\ durable' \in Record
      /\ Fits(committed', memory, Fresh, Possible)
      /\ Fits(durable', memory, Fresh, Possible)
      /\ Covers(durable', Restored(committed'))
  <2>1. CASE Done(req)
    <3>1. committed' \in Record /\ Fits(committed', memory, Fresh, Possible)
      BY <2>1, AuthSaved DEF Done
    <3>2. durable' = committed' /\ Sound(committed')
      BY <2>1, <3>1 DEF Done, Fits
    <3>3. Covers(committed', Restored(committed'))
      BY <3>1, <3>2, CoversItself
    <3> QED BY <3>1, <3>2, <3>3
  <2>2. CASE Undone(req)
    BY <2>2, AuthSaved, UndoneKeeps
  <2> QED BY <2>1, <2>2
<1>2. UNCHANGED <<calls, outcome, late, tasks, runtime, mode, awaited>>
  BY DEF AuthChanges
<1>3. Fresh' = Fresh /\ Possible' = Possible
  BY <1>2, FreshStill, PossibleStill DEF calls
<1>4. TypeOK'
  BY <1>1, <1>2 DEF IInv, TypeOK, calls, tasks
<1>5. StoreInv'
  BY <1>1, <1>2, <1>3 DEF StoreInv, tasks
<1>6. ShownInv' /\ SentInv' /\ OneResult'
  BY <1>2, <1>3 DEF IInv, ShownInv, SentInv, OneResult, calls, tasks
<1> QED BY <1>4, <1>5, <1>6 DEF IInv

LEMMA NotRecordedStep ==
    ASSUME NEW c \in Commands, IInv, NotRecorded(c)
    PROVE  IInv'
<1>1. /\ committed' \in Record /\ durable' \in Record
      /\ Fits(committed', memory, Fresh \ {c}, Possible)
      /\ Fits(durable', memory, Fresh \ {c}, Possible)
      /\ Covers(durable', Restored(committed'))
  <2>1. call[c] # "ended" /\ Undone(RecordRequest(c))
    BY DEF NotRecorded
  <2> QED BY <2>1, RecordSaved, UndoneKeeps
<1>2. /\ call' = [call EXCEPT ![c] = "ended"] /\ cancelled' = [cancelled EXCEPT ![c] = FALSE]
      /\ UNCHANGED <<home, outcome, late, tasks, runtime, mode, awaited>>
  BY DEF NotRecorded
<1>3. Fresh' = Fresh \ {c} /\ Possible' = Possible
  BY <1>2, PossibleStill DEF IInv, TypeOK, Fresh
<1>4. TypeOK'
  BY <1>1, <1>2 DEF IInv, TypeOK, tasks
<1>5. StoreInv'
  BY <1>1, <1>2, <1>3 DEF StoreInv, tasks
<1>6. ShownInv' /\ SentInv' /\ OneResult'
  BY <1>2, <1>3 DEF IInv, TypeOK, ShownInv, SentInv, OneResult, tasks
<1> QED BY <1>4, <1>5, <1>6 DEF IInv

LEMMA RecordedStep ==
    ASSUME NEW c \in Commands, IInv, Recorded(c)
    PROVE  IInv'
<1> DEFINE h == home[c]
<1>0. /\ call[c] = "recording" /\ h \in Runtimes
      /\ committed' = Saved(committed, FALSE, RecordRequest(c)) /\ durable' = committed'
      /\ call' = [call EXCEPT ![c] = "ended"] /\ cancelled' = [cancelled EXCEPT ![c] = FALSE]
      /\ memory' = [memory EXCEPT ![h][c] = "accepted"]
      /\ follower' = follower \/ follower' = [follower EXCEPT ![h][c] = "sleeping"]
      /\ UNCHANGED <<home, outcome, late, target, runtime, mode, awaited>>
  BY DEF Recorded, Done, IInv, TypeOK
<1> HIDE DEF h
<1>1. "accepted" \in CommandStates /\ "accepted" \in Transitions["accepted"]
      /\ "accepted" # Unknown /\ "accepted" \notin Terminal
  BY DEF CommandStates, Transitions, Unknown, Terminal
<1>2. /\ committed' \in Record
      /\ Fits(committed', memory, Fresh \ {c}, Possible)
      /\ Restored(committed')[c] = "accepted"
  BY <1>0, RecordSaved
<1>3. /\ memory' \in Shown
      /\ \A g \in Runtimes, d \in Commands :
            memory'[g][d] = IF g = h /\ d = c THEN "accepted" ELSE memory[g][d]
  BY <1>0, <1>1, MemoryPlace DEF IInv
<1>4. Fresh' = Fresh \ {c} /\ Possible' = Possible
  BY <1>0, PossibleStill DEF IInv, TypeOK, Fresh
<1>5. Fits(committed', memory', Fresh', Possible')
  BY <1>0, <1>1, <1>2, <1>4, RecordsFit, ShowFits
<1>6. StoreInv'
  <2>1. Sound(committed')
    BY <1>5 DEF Fits
  <2>2. Covers(committed', Restored(committed'))
    BY <1>2, <2>1, CoversItself
  <2> QED BY <1>0, <1>5, <2>2 DEF StoreInv
<1>7. TypeOK'
  <2>1. follower' \in [Runtimes -> [Commands -> FollowerStages]]
    <3>1. CASE follower' = follower
      BY <3>1 DEF IInv, TypeOK
    <3>2. CASE follower' = [follower EXCEPT ![h][c] = "sleeping"]
      BY <1>0, <3>2 DEF IInv, TypeOK, FollowerStages
    <3> QED BY <1>0, <3>1, <3>2
  <2>2. memory' \in [Runtimes -> [Commands -> CommandStates \cup {Unknown}]]
    BY <1>3 DEF Shown, Statuses
  <2> QED BY <1>0, <1>2, <2>1, <2>2 DEF IInv, TypeOK
<1>8. ShownInv'
  BY <1>0, <1>3, <1>4, PossibleAlways DEF IInv, ShownInv
<1>9. SentInv'
  BY <1>0 DEF IInv, TypeOK, SentInv
<1>10. OneResult'
  BY <1>1, <1>3 DEF IInv, OneResult
<1> QED BY <1>6, <1>7, <1>8, <1>9, <1>10 DEF IInv

(* A state that the store confirmed is shown by the runtime that asked.    *)
LEMMA UpdatedKeeps ==
    ASSUME IInv, NEW h \in Runtimes, NEW c \in Commands, NEW s \in Possible[c],
           Done(UpdateRequest(c, s)), memory' = [memory EXCEPT ![h][c] = s],
           UNCHANGED <<calls, outcome, late, runtime, mode, awaited>>,
           follower' \in [Runtimes -> [Commands -> FollowerStages]],
           target' \in [Runtimes -> [Commands -> Terminal \cup {Unknown}]],
           \A g \in Runtimes, d \in Commands : target'[g][d] \in Possible[d]
    PROVE  IInv'
<1>1. /\ s \in CommandStates
      /\ Restored(committed)[c] \in CommandStates
      /\ s \in Transitions[Restored(committed)[c]]
      /\ committed' \in Record /\ durable' = committed'
      /\ Fits(committed', memory, Fresh, Possible)
      /\ Restored(committed')[c] = s
  BY UpdateSaved DEF Done
<1>2. s # Unknown /\ s \in Transitions[s]
  BY <1>1, TransitionsReflexive DEF CommandStates, Unknown
<1>3. /\ memory' \in Shown
      /\ \A g \in Runtimes, d \in Commands :
            memory'[g][d] = IF g = h /\ d = c THEN s ELSE memory[g][d]
  <2>1. memory \in [Runtimes -> [Commands -> Statuses]] /\ s \in Statuses
    BY <1>1, MemoryType DEF IInv, Shown, Statuses
  <2> QED BY <2>1 DEF Shown
<1>4. Fresh' = Fresh /\ Possible' = Possible
  BY FreshStill, PossibleStill DEF calls
<1>5. Fits(committed', memory', Fresh', Possible')
  BY <1>1, <1>2, <1>4, RecordsFit, ShowFits
<1>6. StoreInv'
  <2>1. Sound(committed')
    BY <1>5 DEF Fits
  <2>2. Covers(committed', Restored(committed'))
    BY <1>1, <2>1, CoversItself
  <2> QED BY <1>1, <1>5, <2>2 DEF StoreInv
<1>7. TypeOK'
  <2>1. memory' \in [Runtimes -> [Commands -> CommandStates \cup {Unknown}]]
    BY <1>3 DEF Shown, Statuses
  <2> QED BY <1>1, <2>1 DEF IInv, TypeOK, calls
(* A command the journal names is not fresh.                               *)
<1>8. c \notin Fresh
  BY <1>1, <1>2 DEF Fits
<1>9. ShownInv' /\ SentInv'
  BY <1>3, <1>4, <1>8 DEF IInv, ShownInv, SentInv, calls
(* Another runtime that shows a result is covered by the journal, so the   *)
(* journal had that result and does not move.                              *)
<1>10. ASSUME NEW g \in Runtimes, memory[g][c] \in Terminal
       PROVE  s = memory[g][c]
  <2>1. Covers(committed, memory[g])
    BY DEF IInv, StoreInv, Fits
  <2>2. Restored(committed)[c] # Unknown /\ memory[g][c] # Unknown
    BY <1>1, <1>10 DEF CommandStates, Terminal, Unknown
  <2>3. Restored(committed)[c] \in Transitions[memory[g][c]]
    BY <2>1, <2>2 DEF Covers
  <2> QED BY <1>1, <1>10, <2>3, TerminalStays
<1>11. OneResult'
  BY <1>3, <1>10 DEF IInv, OneResult
<1> QED BY <1>6, <1>7, <1>9, <1>11 DEF IInv

LEMMA MarkedStep ==
    ASSUME NEW h \in Runtimes, NEW c \in Commands, IInv, Marked(h, c)
    PROVE  IInv'
<1>1. "polling" \in Possible[c]
  BY PossibleAlways
<1>2. follower' \in [Runtimes -> [Commands -> FollowerStages]]
  BY DEF IInv, TypeOK, FollowerStages, Marked, Goto
<1>3. /\ Done(UpdateRequest(c, "polling")) /\ memory' = [memory EXCEPT ![h][c] = "polling"]
      /\ UNCHANGED <<calls, outcome, late, target, runtime, mode, awaited>>
  BY DEF Marked
<1> QED BY <1>1, <1>2, <1>3, UpdatedKeeps DEF IInv, TypeOK, ShownInv

LEMMA SettledStep ==
    ASSUME NEW h \in Runtimes, NEW c \in Commands, IInv, Settled(h, c)
    PROVE  IInv'
<1> DEFINE s == target[h][c]
<1>1. s \in Possible[c]
  BY DEF IInv, ShownInv
<1>2. follower' \in [Runtimes -> [Commands -> FollowerStages]]
  BY DEF IInv, TypeOK, FollowerStages, Settled, Goto
<1>3. /\ target' \in [Runtimes -> [Commands -> Terminal \cup {Unknown}]]
      /\ \A g \in Runtimes, d \in Commands : target'[g][d] \in Possible[d]
  <2>1. target' = [target EXCEPT ![h][c] = Unknown]
    BY DEF Settled
  <2>2. /\ target' \in [Runtimes -> [Commands -> Terminal \cup {Unknown}]]
        /\ \A g \in Runtimes, d \in Commands :
              target'[g][d] = IF g = h /\ d = c THEN Unknown ELSE target[g][d]
    BY <2>1, TargetPlace DEF IInv
  <2> QED BY <2>2, PossibleAlways DEF IInv, ShownInv
<1>4. /\ Done(UpdateRequest(c, s)) /\ memory' = [memory EXCEPT ![h][c] = s]
      /\ UNCHANGED <<calls, outcome, late, runtime, mode, awaited>>
  BY DEF Settled
<1> HIDE DEF s
<1> QED BY <1>1, <1>2, <1>3, <1>4, UpdatedKeeps

LEMMA NotUpdatedStep ==
    ASSUME NEW h \in Runtimes, NEW c \in Commands, IInv, NotUpdated(h, c)
    PROVE  IInv'
<1>1. PICK s \in Possible[c] : Undone(UpdateRequest(c, s))
  <2>1. "polling" \in Possible[c] /\ target[h][c] \in Possible[c]
    BY PossibleAlways DEF IInv, ShownInv
  <2> QED BY <2>1, Zenon DEF NotUpdated
<1>2. /\ committed' \in Record /\ durable' \in Record
      /\ Fits(committed', memory, Fresh, Possible)
      /\ Fits(durable', memory, Fresh, Possible)
      /\ Covers(durable', Restored(committed'))
  BY <1>1, UpdateSaved, UndoneKeeps
<1>3. UNCHANGED <<calls, outcome, late, memory, runtime, mode, awaited>>
  BY DEF NotUpdated
<1>4. Fresh' = Fresh /\ Possible' = Possible
  BY <1>3, FreshStill, PossibleStill DEF calls
<1>5. /\ target' \in [Runtimes -> [Commands -> Terminal \cup {Unknown}]]
      /\ \A g \in Runtimes, d \in Commands :
            target'[g][d] = IF g = h /\ d = c THEN Unknown ELSE target[g][d]
  <2>1. target' = [target EXCEPT ![h][c] = Unknown]
    BY DEF NotUpdated
  <2> QED BY <2>1, TargetPlace DEF IInv
<1>6. follower' \in [Runtimes -> [Commands -> FollowerStages]]
  BY DEF IInv, TypeOK, FollowerStages, NotUpdated, Goto
<1>7. TypeOK'
  BY <1>2, <1>3, <1>5, <1>6 DEF IInv, TypeOK, calls
<1>8. StoreInv'
  BY <1>2, <1>3, <1>4 DEF StoreInv
<1>9. ShownInv'
  BY <1>3, <1>4, <1>5, PossibleAlways DEF IInv, ShownInv
<1>10. SentInv' /\ OneResult'
  BY <1>3 DEF IInv, SentInv, OneResult, calls
<1> QED BY <1>7, <1>8, <1>9, <1>10 DEF IInv

-----------------------------------------------------------------------------
(* The entry is set up again, or the process ends.                         *)

LEMMA LoadStep ==
    ASSUME IInv, Load
    PROVE  IInv'
<1> DEFINE n == runtime + 1
           r == Restored(committed)
<1>1. n \in Runtimes
  BY RuntimesAssumption DEF IInv, TypeOK, Runtimes, Load
<1>2. r \in [Commands -> Statuses]
  BY RecordsFit, RestoredType DEF Statuses
<1>3. /\ runtime' = n /\ mode' = "running"
      /\ memory' = [memory EXCEPT ![n] = r]
      /\ UNCHANGED <<store, calls, outcome, late, target, awaited>>
  BY DEF Load
<1>4. follower' \in [Runtimes -> [Commands -> FollowerStages]]
  <2> DEFINE f == [c \in Commands |->
                     IF r[c] \in {"accepted", "polling"} THEN "sleeping" ELSE "none"]
  <2>1. f \in [Commands -> FollowerStages]
    BY DEF FollowerStages
  <2>2. follower' = [follower EXCEPT ![n] = f]
    BY DEF Load
  <2> HIDE DEF f, n
  <2> QED BY <1>1, <2>1, <2>2 DEF IInv, TypeOK
<1>5. Fresh' = Fresh /\ Possible' = Possible
  BY <1>3, FreshStill, PossibleStill DEF calls
<1>6. Covers(committed, r) /\ Covers(durable, r)
  BY RecordsFit, CoversItself DEF IInv, StoreInv
<1>7. /\ \A c \in Fresh : r[c] = Unknown
      /\ \A c \in Commands : r[c] \in Possible[c]
  BY DEF IInv, StoreInv, Fits
(* What a runtime shows as a result is what the journal says.              *)
<1>8. ASSUME NEW g \in Runtimes, NEW c \in Commands,
             memory[g][c] \in Terminal, r[c] \in Terminal
      PROVE  memory[g][c] = r[c]
  <2>1. Covers(committed, memory[g])
    BY DEF IInv, StoreInv, Fits
  <2>2. r[c] # Unknown /\ memory[g][c] # Unknown
    BY <1>8 DEF Terminal, Unknown
  <2>3. r[c] \in Transitions[memory[g][c]]
    BY <2>1, <2>2 DEF Covers
  <2> QED BY <1>8, <2>3, TerminalStays
<1> HIDE DEF n, r
<1>9. \A g \in Runtimes : memory'[g] = IF g = n THEN r ELSE memory[g]
  BY <1>1, <1>3 DEF IInv, TypeOK
<1>10. TypeOK'
  <2>1. memory' \in [Runtimes -> [Commands -> CommandStates \cup {Unknown}]]
    BY <1>1, <1>2, <1>3 DEF IInv, TypeOK, Statuses
  <2> QED BY <1>1, <1>3, <1>4, <2>1 DEF IInv, TypeOK, store, calls
<1>11. StoreInv'
  <2>1. /\ Fits(committed, memory', Fresh, Possible)
        /\ Fits(durable, memory', Fresh, Possible)
    BY <1>6, <1>9 DEF IInv, StoreInv, Fits
  <2> QED BY <1>3, <1>5, <2>1 DEF IInv, StoreInv, store
<1>12. ShownInv'
  BY <1>3, <1>5, <1>7, <1>9 DEF IInv, ShownInv
<1>13. SentInv'
  BY <1>3 DEF IInv, SentInv, calls
<1>14. OneResult'
  BY <1>8, <1>9 DEF IInv, OneResult
<1> QED BY <1>10, <1>11, <1>12, <1>13, <1>14 DEF IInv

LEMMA CrashStep ==
    ASSUME IInv, Crash
    PROVE  IInv'
<1>1. /\ committed' = durable /\ durable' = durable
      /\ call' = [c \in Commands |-> IF call[c] = "new" THEN "new" ELSE "ended"]
      /\ cancelled' = [c \in Commands |-> FALSE]
      /\ mode' = "closed" /\ awaited' = {}
      /\ UNCHANGED <<home, outcome, late, runtime>>
  BY DEF Crash
<1>2. /\ memory' \in [Runtimes -> [Commands -> CommandStates \cup {Unknown}]]
      /\ follower' \in [Runtimes -> [Commands -> FollowerStages]]
      /\ target' \in [Runtimes -> [Commands -> Terminal \cup {Unknown}]]
      /\ \A g \in Runtimes, c \in Commands :
            memory'[g][c] = Unknown /\ target'[g][c] = Unknown
  BY DEF Crash, Nothing, FollowerStages
<1>3. Fresh' \subseteq Fresh /\ Possible' = Possible
  BY <1>1, PossibleStill DEF Fresh
<1>4. TypeOK'
  BY <1>1, <1>2 DEF IInv, TypeOK
<1>5. Fits(durable, memory', Fresh', Possible')
  BY <1>2, <1>3 DEF IInv, StoreInv, Fits, Covers
<1>6. StoreInv'
  BY <1>1, <1>5, RecordsFit, CoversItself DEF StoreInv
<1>7. ShownInv'
  BY <1>2, <1>3, PossibleAlways DEF ShownInv
<1>8. SentInv' /\ OneResult'
  BY <1>1, <1>2 DEF IInv, SentInv, OneResult, Terminal, Unknown
<1> QED BY <1>4, <1>6, <1>7, <1>8 DEF IInv

-----------------------------------------------------------------------------
(* The invariant, and what follows from it.                                *)

LEMMA StepIInv == IInv /\ [Next]_vars => IInv'
<1> SUFFICES ASSUME IInv, [Next]_vars PROVE IInv'
  OBVIOUS
<1>1. ASSUME NEW c \in Commands,
             \/ Start(c) \/ Serve(c) \/ CancelCall(c) \/ VehicleAnswers(c) \/ TimePasses(c)
      PROVE  IInv'
  BY <1>1, StartStep, AcceptStep, SendFailsStep, RecordedStep, NotRecordedStep,
     CancelCallStep, VehicleAnswersStep, TimePassesStep DEF Serve
<1>2. ASSUME NEW h \in Runtimes, NEW c \in Commands, Poll(h, c) \/ GiveUp(h, c)
      PROVE  IInv'
  BY <1>2, WakeStep, MarkedStep, ReadStep, ReadFailsStep, SettledStep, NotUpdatedStep,
     GiveUpStep DEF Poll
<1>3. CASE AuthChanges \/ CancelTasks \/ Close \/ Load \/ Crash
  BY <1>3, AuthChangesStep, CancelTasksStep, CloseStep, LoadStep, CrashStep
<1>4. CASE UNCHANGED vars
  <2>1. /\ UNCHANGED <<committed, durable, memory>> /\ Fresh' = Fresh /\ Possible' = Possible
        /\ target' = target
    BY <1>4, FreshStill, PossibleStill DEF vars, store, calls, tasks
  <2>2. TypeOK' /\ SentInv'
    BY <1>4 DEF IInv, TypeOK, SentInv, vars, store, calls, tasks
  <2> QED BY <2>1, <2>2, QuietKeeps DEF IInv, ShownInv
<1> QED BY <1>1, <1>2, <1>3, <1>4 DEF Next

LEMMA InvariantHolds == Spec => []IInv
BY InitIInv, StepIInv, PTL DEF Spec

(* Every variable keeps its type: a status the module adds or stores is    *)
(* one that _COMMAND_TRANSITIONS of cloud_storage.py knows.                *)
THEOREM TypeCorrect == Spec => []TypeOK
<1>1. IInv => TypeOK
  BY DEF IInv
<1> QED BY <1>1, InvariantHolds, PTL

(* A restart finds every command at least as far as any runtime showed it, *)
(* whatever saves failed, calls outlived their setup and entries were      *)
(* pushed out: GwmCommandApi shows a state after async_record_command or   *)
(* async_update_command confirmed it.                                      *)
THEOREM ShownIsDurable == Spec => []RestartFindsShown
<1>1. ASSUME IInv PROVE RestartFindsShown
  <2> SUFFICES ASSUME NEW g \in Runtimes, NEW c \in Commands, memory[g][c] # Unknown
               PROVE  /\ Kept(durable, c)
                      /\ Holds(durable, c) => StateOf(durable, c) \in Transitions[memory[g][c]]
    BY DEF RestartFindsShown
  <2>1. Covers(durable, memory[g])
    BY <1>1 DEF IInv, StoreInv, Fits
  <2>2. /\ Holds(durable, c) <=> Restored(durable)[c] # Unknown
        /\ Holds(durable, c) => StateOf(durable, c) = Restored(durable)[c]
    BY <1>1, RecordsFit, RestoredType
  <2> QED BY <2>1, <2>2 DEF Covers, Kept, Full
<1> QED BY <1>1, InvariantHolds, PTL

(* Two polling tasks of one command never show different results, and a    *)
(* result is the vehicle's or, for a failure, the clock's: async_get_command *)
(* of cloud_commands.py.                                                   *)
THEOREM ResultsAreTrue == Spec => []TruthfulResult
<1>1. IInv => TruthfulResult
  <2> SUFFICES ASSUME IInv PROVE TruthfulResult
    OBVIOUS
  <2>1. \A g \in Runtimes, c \in Commands : memory[g][c] \in Possible[c]
    BY DEF IInv, ShownInv
  <2> QED BY <2>1 DEF IInv, Possible, TruthfulResult, Unknown
<1> QED BY <1>1, InvariantHolds, PTL

=============================================================================
