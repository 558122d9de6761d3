------------------------ MODULE SessionRenewalProofs -------------------------
(***************************************************************************)
(* Proofs about SessionRenewal, for every set of operations, every number  *)
(* of revisions, with and without faults: what the runtime uses is what a  *)
(* restart finds, a refresh token is not sent twice, no request starts on  *)
(* an unsaved pair, and the runtime retires only what the cloud refused.   *)
(*                                                                         *)
(* The argument: one operation at a time is between the two passes of the  *)
(* renewal lock and one at a time waits for the cloud, so the revision an  *)
(* operation decided to renew stays the one in use until it is renewed or  *)
(* retired; and a retirement that waits in the store is never behind the   *)
(* save of the revision in use.                                            *)
(***************************************************************************)
EXTENDS SessionRenewal, SequenceTheorems, TLAPS

-----------------------------------------------------------------------------
(* The queue of the store.                                                 *)

(* q holds the operations of S, each of them once.                         *)
Lists(q, S) ==
    /\ q \in Seq(Ops)
    /\ \A o \in Ops : o \in S <=> \E i \in 1..Len(q) : q[i] = o
    /\ \A i, k \in 1..Len(q) : q[i] = q[k] => i = k

Before(q, a, b) == \E i, k \in 1..Len(q) : i < k /\ q[i] = a /\ q[k] = b

LEMMA AppendLists ==
    ASSUME NEW q, NEW S, NEW o \in Ops, Lists(q, S), o \notin S
    PROVE  /\ Lists(Append(q, o), S \cup {o})
           /\ \A a, b : Before(Append(q, o), a, b) => Before(q, a, b) \/ b = o
<1> DEFINE r == Append(q, o)
<1>1. q \in Seq(Ops) /\ Len(q) \in Nat
  BY DEF Lists
<1>2. /\ r \in Seq(Ops) /\ Len(r) = Len(q) + 1 /\ r[Len(r)] = o
      /\ \A i \in 1..Len(q) : r[i] = q[i]
  BY <1>1, AppendProperties
<1> HIDE DEF r
<1>3. \A i \in 1..Len(r) : i \in 1..Len(q) \/ i = Len(r)
  BY <1>1, <1>2
<1>4. 1..Len(q) \subseteq 1..Len(r) /\ Len(r) \in 1..Len(r)
  BY <1>1, <1>2
<1>5. \A i \in 1..Len(q) : q[i] # o
  BY DEF Lists
<1>6. \A p \in Ops : p \in S \cup {o} <=> \E i \in 1..Len(r) : r[i] = p
  BY <1>2, <1>3, <1>4 DEF Lists
<1>7. \A i, k \in 1..Len(r) : r[i] = r[k] => i = k
  BY <1>2, <1>3, <1>5 DEF Lists
<1>8. ASSUME NEW a, NEW b, Before(r, a, b)
      PROVE  Before(q, a, b) \/ b = o
  <2> PICK i \in 1..Len(r), k \in 1..Len(r) : i < k /\ r[i] = a /\ r[k] = b
    BY <1>8 DEF Before
  <2>1. CASE k = Len(r)
    BY <1>2, <2>1
  <2>2. CASE k \in 1..Len(q)
    <3>1. i \in 1..Len(q)
      BY <1>1, <2>2
    <3> QED BY <1>2, <2>2, <3>1 DEF Before
  <2> QED BY <1>3, <2>1, <2>2
<1> QED BY <1>2, <1>6, <1>7, <1>8 DEF Lists, r

LEMMA TailLists ==
    ASSUME NEW q, NEW S, NEW o \in Ops, Lists(q, S), q # <<>>, Head(q) = o
    PROVE  /\ o \in S
           /\ Lists(Tail(q), S \ {o})
           /\ \A a, b : Before(Tail(q), a, b) => Before(q, a, b)
           /\ \A b \in S : b \in Ops => b = o \/ Before(q, o, b)
<1> DEFINE r == Tail(q)
<1>1. q \in Seq(Ops) /\ Len(q) \in Nat \ {0} /\ q[1] = o /\ 1 \in 1..Len(q)
  <2>1. q \in Seq(Ops)
    BY DEF Lists
  <2>2. Len(q) \in Nat /\ Len(q) # 0
    BY <2>1, EmptySeq
  <2> QED BY <2>1, <2>2
<1>2. /\ r \in Seq(Ops) /\ Len(r) = Len(q) - 1
      /\ \A i \in 1..Len(r) : r[i] = q[i + 1]
  BY <1>1, HeadTailProperties
<1> HIDE DEF r
<1>3. \A i \in 1..Len(r) : i + 1 \in 1..Len(q) /\ i + 1 # 1
  BY <1>1, <1>2
<1>4. \A i \in 1..Len(q) : i # 1 => i - 1 \in 1..Len(r) /\ q[i] = r[i - 1]
  <2> SUFFICES ASSUME NEW i \in 1..Len(q), i # 1
               PROVE  i - 1 \in 1..Len(r) /\ q[i] = r[i - 1]
    OBVIOUS
  <2>1. i - 1 \in 1..Len(r) /\ (i - 1) + 1 = i
    BY <1>1, <1>2
  <2> QED BY <1>2, <2>1
<1>5. o \in S
  BY <1>1 DEF Lists
<1>6. \A i \in 1..Len(q) : q[i] = o => i = 1
  BY <1>1 DEF Lists
<1>7. \A p \in Ops : p \in S \ {o} <=> \E i \in 1..Len(r) : r[i] = p
  <2>1. ASSUME NEW p \in Ops, p \in S, p # o PROVE \E i \in 1..Len(r) : r[i] = p
    <3> PICK i \in 1..Len(q) : q[i] = p
      BY <2>1 DEF Lists
    <3>1. i # 1
      BY <1>1, <2>1
    <3> QED BY <1>4, <3>1
  <2>2. ASSUME NEW p \in Ops, NEW i \in 1..Len(r), r[i] = p PROVE p \in S /\ p # o
    BY <1>2, <1>3, <1>6, <2>2 DEF Lists
  <2> QED BY <2>1, <2>2
<1>8. \A i, k \in 1..Len(r) : r[i] = r[k] => i = k
  <2> SUFFICES ASSUME NEW i \in 1..Len(r), NEW k \in 1..Len(r), r[i] = r[k]
               PROVE  i = k
    OBVIOUS
  <2>1. i + 1 = k + 1
    BY <1>2, <1>3 DEF Lists
  <2> QED BY <2>1
<1>9. ASSUME NEW a, NEW b, Before(r, a, b)
      PROVE  Before(q, a, b)
  <2> PICK i \in 1..Len(r), k \in 1..Len(r) : i < k /\ r[i] = a /\ r[k] = b
    BY <1>9 DEF Before
  <2>1. i + 1 \in 1..Len(q) /\ k + 1 \in 1..Len(q) /\ i + 1 < k + 1
    BY <1>3
  <2>2. q[i + 1] = a /\ q[k + 1] = b
    BY <1>2
  <2> QED BY <2>1, <2>2, Zenon DEF Before
<1>10. ASSUME NEW b \in S, b \in Ops, b # o
       PROVE  Before(q, o, b)
  <2> PICK k \in 1..Len(q) : q[k] = b
    BY <1>10 DEF Lists
  <2>1. 1 < k
    BY <1>1, <1>10
  <2> QED BY <1>1, <2>1, Zenon DEF Before
<1> QED BY <1>2, <1>5, <1>7, <1>8, <1>9, <1>10 DEF Lists, r

LEMMA WithoutLists ==
    ASSUME NEW S, NEW o \in Ops, Lists(queue, S)
    PROVE  /\ Lists(Without(o), S \ {o})
           /\ \A a, b : Before(Without(o), a, b) => Before(queue, a, b)
<1>1. CASE ~Waits(o)
  <2>1. Without(o) = queue
    BY <1>1 DEF Without
  <2>2. o \notin S
    BY <1>1 DEF Waits, Lists
  <2>3. S \ {o} = S
    BY <2>2
  <2> QED BY <2>1, <2>3
<1>2. CASE Waits(o)
  <2> DEFINE place == CHOOSE n \in 1..Len(queue) : queue[n] = o
             r == [n \in 1..Len(queue) - 1 |-> queue[IF n < place THEN n ELSE n + 1]]
  <2>1. place \in 1..Len(queue) /\ queue[place] = o
    BY <1>2 DEF Waits
  <2>2. Without(o) = r
    BY <1>2 DEF Without
  <2>3. queue \in Seq(Ops) /\ Len(queue) \in Nat
    BY DEF Lists
  <2> HIDE DEF place
  <2>4. Len(queue) - 1 \in Nat
    BY <2>1, <2>3
  <2>5. /\ \A n \in 1..Len(queue) - 1 : n < place => n \in 1..Len(queue) /\ r[n] = queue[n]
        /\ \A n \in 1..Len(queue) - 1 :
              ~(n < place) => n + 1 \in 1..Len(queue) /\ r[n] = queue[n + 1]
    BY <2>1, <2>3
  <2>6. r \in Seq(Ops) /\ Len(r) = Len(queue) - 1
    <3>1. \A n \in 1..Len(queue) - 1 : r[n] \in Ops
      BY <2>3, <2>5
    <3> QED BY <2>4, <3>1
  <2> HIDE DEF r
  <2> DEFINE up(n) == IF n < place THEN n ELSE n + 1
             down(n) == IF n < place THEN n ELSE n - 1
  <2>7. \A n \in 1..Len(r) : up(n) \in 1..Len(queue) /\ up(n) # place /\ r[n] = queue[up(n)]
    BY <2>1, <2>3, <2>5, <2>6
  <2>8. \A n \in 1..Len(queue) : n # place => down(n) \in 1..Len(r) /\ up(down(n)) = n
    BY <2>1, <2>3, <2>6
  <2>9. \A n, m \in 1..Len(r) : (up(n) = up(m) => n = m) /\ (n < m => up(n) < up(m))
    BY <2>1, <2>3, <2>6
  <2> HIDE DEF up, down
  <2>10. \A n \in 1..Len(queue) : queue[n] = o => n = place
    BY <2>1 DEF Lists
  <2>11. \A p \in Ops : p \in S \ {o} <=> \E i \in 1..Len(r) : r[i] = p
    <3>1. ASSUME NEW p \in Ops, p \in S, p # o PROVE \E i \in 1..Len(r) : r[i] = p
      <4> PICK n \in 1..Len(queue) : queue[n] = p
        BY <3>1 DEF Lists
      <4>1. n # place
        BY <2>1, <3>1
      <4> QED BY <2>7, <2>8, <4>1
    <3>2. ASSUME NEW p \in Ops, NEW i \in 1..Len(r), r[i] = p PROVE p \in S /\ p # o
      BY <2>7, <2>10, <3>2 DEF Lists
    <3> QED BY <3>1, <3>2
  <2>12. \A i, k \in 1..Len(r) : r[i] = r[k] => i = k
    BY <2>7, <2>9 DEF Lists
  <2>13. ASSUME NEW a, NEW b, Before(r, a, b) PROVE Before(queue, a, b)
    <3> PICK i \in 1..Len(r), k \in 1..Len(r) : i < k /\ r[i] = a /\ r[k] = b
      BY <2>13 DEF Before
    <3>1. /\ up(i) \in 1..Len(queue) /\ up(k) \in 1..Len(queue) /\ up(i) < up(k)
          /\ queue[up(i)] = a /\ queue[up(k)] = b
      BY <2>7, <2>9
    <3> QED BY <3>1, Zenon DEF Before
  <2> QED BY <2>2, <2>6, <2>11, <2>12, <2>13 DEF Lists
<1> QED BY <1>1, <1>2

-----------------------------------------------------------------------------
(* What every step finds.                                                  *)

GateStages == Saving \cup {"observe", "decide", "ready", "refreshing", "renewed"}
WireStages == {"sent", "resent", "refreshing"}
Storing == Saving \cup Clearing
Waiting == {o \in Ops : stage[o] \in Storing}

(* One operation at a time is between the passes of the renewal lock.      *)
GateInv == \A o \in Ops : stage[o] \in GateStages <=> gate = o

(* One request at a time is on its way, for the session of the client.     *)
WireInv ==
    \A o \in Ops :
        /\ stage[o] \in WireStages <=> wire = o
        /\ stage[o] \in WireStages => using[o] = session /\ session # NoState

(* The store serves the operations that wait for it; while a revision is   *)
(* in use no retirement waits behind its save.                             *)
QueueInv ==
    /\ Lists(queue, Waiting)
    /\ \A a, b \in Ops :
          Before(queue, a, b) /\ bootstrap # NoState /\ stage[a] \in Saving =>
              stage[b] \notin Clearing

(* What waits to be saved is what is in use; nothing waits once the lock   *)
(* was passed; what is saved, renewed or refreshed is in use or retired.   *)
PendingOf(o) ==
    /\ stage[o] \in {"observe", "decide", "ready", "refreshing", "renewed"} =>
          pending = NoState
    /\ stage[o] \in Saving =>
          using[o] # NoState /\ (bootstrap = NoState \/ pending = using[o])
    /\ stage[o] \in Clearing => bootstrap = NoState \/ pending # NoState
    /\ stage[o] \in {"ready", "refreshing"} =>
          using[o] # NoState /\ bootstrap \in {using[o], NoState}

PendingInv ==
    /\ pending # NoState => pending = bootstrap
    /\ \A o \in Ops : PendingOf(o)

(* The client and the runtime use the last revision issued, unless that    *)
(* one was lost, and the same one, unless the cloud refused it.            *)
SessionInv ==
    /\ session # NoState => session = latest \/ lost
    /\ bootstrap # NoState => bootstrap = latest \/ lost
    /\ bootstrap # NoState =>
          session = bootstrap \/ (session = NoState /\ bootstrap \in refused)

(* How often a request was sent by the stage its operation has reached.    *)
SendsOf(o) ==
    /\ stage[o] \in {"idle", "enter", "flush", "observe", "acting"} => sends[o] = 0
    /\ stage[o] \notin {"resent"} \cup Clearing => sends[o] <= 1
    /\ stage[o] \in {"retry", "resent"} => o \notin Writes
    /\ sends[o] <= IF o \in Writes THEN 1 ELSE 2

SendsInv == \A o \in Ops : SendsOf(o)

IInv ==
    /\ TypeOK /\ GateInv /\ WireInv /\ QueueInv /\ PendingInv /\ SessionInv
    /\ SendsInv /\ DurableInUse

LEMMA SavingStages == Saving = {"flush", "reflush", "saving"}
BY DEF Saving, AfterSave

LEMMA NoStateOutside == NoState \notin Revision /\ Maybe = Revision \cup {NoState}
BY RevisionAssumption DEF Revision, Maybe

LEMMA InitIInv == Init => IInv
<1> SUFFICES ASSUME Init PROVE IInv
  OBVIOUS
<1> USE DEF Init
<1>1. 1 \in Revision /\ Revision \subseteq Nat
  BY RevisionAssumption DEF Revision
<1>2. TypeOK
  <2>1. queue \in Seq(Ops)
    BY Zenon, EmptySeq
  <2>2. stage \in [Ops -> Stages]
    BY DEF Stages
  <2>3. observed \in [Ops -> Maybe] /\ using \in [Ops -> Maybe] /\ sends \in [Ops -> Nat]
    BY DEF Maybe
  <2> QED BY <1>1, <2>1, <2>2, <2>3 DEF TypeOK, Maybe
<1>3. Waiting = {}
  BY SavingStages DEF Waiting, Storing, Clearing
<1>4. Lists(queue, Waiting)
  <2>1. <<>> \in Seq(Ops) /\ Len(<<>>) = 0
    OBVIOUS
  <2> QED BY <1>3, <2>1 DEF Lists
<1>5. GateInv /\ WireInv /\ QueueInv
  BY <1>4, OpsAssumption, SavingStages DEF GateInv, WireInv, QueueInv, GateStages, WireStages
<1>6. PendingInv /\ SessionInv /\ SendsInv /\ DurableInUse
  BY SavingStages, RevisionAssumption
     DEF PendingInv, PendingOf, SessionInv, SendsInv, SendsOf, DurableInUse, Clearing
<1> QED BY <1>2, <1>5, <1>6 DEF IInv

-----------------------------------------------------------------------------
(* How a step can leave the queue.                                         *)

(* No operation starts or stops to wait for the store.                     *)
LEMMA QueueStays ==
    ASSUME QueueInv, queue' = queue, bootstrap' \in {bootstrap, NoState},
           \A o \in Ops : /\ stage'[o] \in Saving <=> stage[o] \in Saving
                          /\ stage'[o] \in Clearing <=> stage[o] \in Clearing
    PROVE  QueueInv'
<1>1. Waiting' = Waiting
  BY DEF Waiting, Storing
<1> QED BY <1>1 DEF QueueInv

(* An operation saves what is in use.                                      *)
LEMMA QueueSaves ==
    ASSUME QueueInv, NEW o \in Ops, queue' = Append(queue, o),
           stage[o] \notin Storing, stage'[o] \in Saving,
           \A p \in Ops \ {o} : stage[p] \notin Saving /\ stage'[p] = stage[p]
    PROVE  QueueInv'
<1>1. Waiting' = Waiting \cup {o} /\ o \notin Waiting
  BY DEF Waiting, Storing
<1>2. /\ Lists(queue', Waiting')
      /\ \A a, b : Before(queue', a, b) => Before(queue, a, b) \/ b = o
  BY <1>1, AppendLists DEF QueueInv
<1>3. ASSUME NEW a \in Ops, NEW b \in Ops, Before(queue', a, b), stage'[a] \in Saving
      PROVE  stage'[b] \notin Clearing
  <2>1. CASE b = o
    BY <2>1, SavingStages DEF Clearing
  <2>2. CASE b # o
    <3>1. Before(queue, a, b)
      BY <1>2, <1>3, <2>2
    <3>2. a \in Waiting
      BY <3>1 DEF QueueInv, Before, Lists
    <3>3. a # o
      BY <1>1, <3>2
    <3> QED BY <1>3, <3>3, <2>2
  <2> QED BY <2>1, <2>2
<1> QED BY <1>2, <1>3 DEF QueueInv

(* An operation retires what is in use, whether or not it waited before.   *)
LEMMA QueueRetires ==
    ASSUME QueueInv, NEW o \in Ops, queue' = Append(Without(o), o), bootstrap' = NoState,
           stage'[o] \in Clearing,
           \A p \in Ops \ {o} : stage'[p] = stage[p]
    PROVE  QueueInv'
<1>1. Waiting' = (Waiting \ {o}) \cup {o}
  BY DEF Waiting, Storing
<1>2. Lists(Without(o), Waiting \ {o})
  BY WithoutLists DEF QueueInv
<1>3. Lists(queue', Waiting')
  BY <1>1, <1>2, AppendLists
<1> QED BY <1>3 DEF QueueInv

(* An operation was served, or stops to wait.                              *)
LEMMA QueueShrinks ==
    ASSUME QueueInv, NEW o \in Ops, bootstrap' \in {bootstrap, NoState},
           \/ queue # <<>> /\ Head(queue) = o /\ queue' = Tail(queue)
           \/ queue' = Without(o),
           stage'[o] \notin Storing,
           \A p \in Ops \ {o} : stage'[p] = stage[p]
    PROVE  QueueInv'
<1>1. Waiting' = Waiting \ {o}
  BY DEF Waiting, Storing
<1>2. /\ Lists(queue', Waiting \ {o})
      /\ \A a, b : Before(queue', a, b) => Before(queue, a, b)
  <2>1. CASE queue # <<>> /\ Head(queue) = o /\ queue' = Tail(queue)
    BY <2>1, TailLists, Zenon DEF QueueInv
  <2>2. CASE queue' = Without(o)
    BY <2>2, WithoutLists, Zenon DEF QueueInv
  <2> QED BY <2>1, <2>2
<1>3. ASSUME NEW a \in Ops, NEW b \in Ops, Before(queue', a, b), bootstrap' # NoState,
             stage'[a] \in Saving
      PROVE  stage'[b] \notin Clearing
  <2>1. Before(queue, a, b) /\ bootstrap # NoState
    BY <1>2, <1>3
  <2>2. a # o
    BY <1>3 DEF Storing
  <2>3. stage[b] \notin Clearing
    BY <1>3, <2>1, <2>2 DEF QueueInv
  <2> QED BY <2>3 DEF Storing
<1> QED BY <1>1, <1>2, <1>3 DEF QueueInv

(* While a revision is in use no retirement waits when its save is served. *)
LEMMA NothingBehind ==
    ASSUME QueueInv, NEW o \in Ops, Turn(o), stage[o] \in Saving, bootstrap # NoState
    PROVE  \A p \in Ops : stage[p] \notin Clearing
<1> SUFFICES ASSUME NEW p \in Ops, stage[p] \in Clearing PROVE FALSE
  OBVIOUS
<1>1. p # o
  BY SavingStages DEF Clearing
<1>2. p \in Waiting
  BY DEF Waiting, Storing
<1>3. Before(queue, o, p)
  BY <1>1, <1>2, TailLists DEF QueueInv, Turn
<1> QED BY <1>3 DEF QueueInv

LEMMA QueueType ==
    ASSUME QueueInv
    PROVE  queue \in Seq(Ops)
BY DEF QueueInv, Lists

-----------------------------------------------------------------------------
(* Every step preserves the invariant.                                     *)

LEMMA LeaveTypes ==
    ASSUME TypeOK, NEW o \in Ops, Leave(o)
    PROVE  /\ stage' \in [Ops -> Stages] /\ observed' \in [Ops -> Maybe]
           /\ using' \in [Ops -> Maybe] /\ sends' \in [Ops -> Nat]
BY NoStateOutside DEF TypeOK, Leave, Goto, Stages

LEMMA NextRevision ==
    ASSUME TypeOK, latest < MaxRevision
    PROVE  latest + 1 \in Revision
BY RevisionAssumption DEF TypeOK, Revision

LEMMA StagesAre ==
    Stages = {"idle", "enter", "observe", "acting", "sent", "renew", "decide", "ready",
              "refreshing", "renewed", "retry", "resent", "flush", "reflush", "saving",
              "retiring", "reporting"}
BY SavingStages DEF Stages, Clearing

LEMMA AfterSaveIs ==
    /\ AfterSave["flush"] = "observe" /\ AfterSave["reflush"] = "decide"
    /\ AfterSave["saving"] = "renewed"
BY DEF AfterSave

LEMMA RetireTypes ==
    ASSUME TypeOK, NEW o \in Ops, NEW s \in Clearing, Retire(o, s)
    PROVE  /\ stage' \in [Ops -> Stages] /\ observed' \in [Ops -> Maybe]
           /\ using' \in [Ops -> Maybe] /\ sends' \in [Ops -> Nat]
           /\ bootstrap' \in Maybe /\ pending' \in Maybe
BY NoStateOutside, StagesAre DEF TypeOK, Retire, Goto, Clearing

LEMMA ExpiredTypes ==
    ASSUME TypeOK, NEW o \in Ops, NEW kind, Expired(o, kind)
    PROVE  /\ stage' \in [Ops -> Stages] /\ observed' \in [Ops -> Maybe]
           /\ using' \in [Ops -> Maybe] /\ sends' \in [Ops -> Nat]
           /\ bootstrap' \in Maybe /\ pending' \in Maybe
<1>1. CASE Goto(o, "renew") /\ UNCHANGED <<bootstrap, pending, queue, observed, using, sends>>
  BY <1>1, StagesAre DEF TypeOK, Goto
<1>2. CASE Retire(o, "reporting") \/ Retire(o, "retiring")
  BY <1>2, RetireTypes DEF Clearing
<1>3. CASE Leave(o) /\ UNCHANGED <<bootstrap, pending, queue>>
  BY <1>3, LeaveTypes DEF TypeOK
<1> QED BY <1>1, <1>2, <1>3, Zenon DEF Expired

LEMMA BeginStep ==
    ASSUME NEW o \in Ops, IInv, Begin(o)
    PROVE  IInv'
<1> USE SavingStages DEF IInv
<1>1. QueueInv'
  BY QueueStays DEF TypeOK, Clearing, Begin, Goto, cloud, client, runtime, disk, task
<1>2. TypeOK'
  BY <1>1, NoStateOutside DEF QueueInv, Lists, TypeOK, Stages, Revision, Begin, Goto, cloud, client, runtime, disk, task
<1>3. GateInv'
  BY OpsAssumption DEF TypeOK, GateInv, GateStages, Begin, Goto, cloud, client, runtime, disk, task
<1>4. WireInv'
  BY OpsAssumption DEF TypeOK, WireInv, WireStages, Begin, Goto, cloud, client, runtime, disk, task
<1>5. PendingInv'
  BY DEF TypeOK, PendingInv, PendingOf, Clearing, Begin, Goto, cloud, client, runtime, disk, task
<1>6. SessionInv'
  BY DEF SessionInv, Begin, Goto, cloud, client, runtime, disk, task
<1>7. SendsInv'
  BY DEF TypeOK, SendsInv, SendsOf, Clearing, Begin, Goto, cloud, client, runtime, disk, task
<1>8. DurableInUse'
  BY DEF DurableInUse, Begin, Goto, cloud, client, runtime, disk, task
<1> QED BY <1>1, <1>2, <1>3, <1>4, <1>5, <1>6, <1>7, <1>8

LEMMA TakeGateStep ==
    ASSUME NEW o \in Ops, IInv, TakeGate(o)
    PROVE  IInv'
<1> USE SavingStages DEF IInv
<1>1. QueueInv'
  <2>1. CASE pending = NoState
    BY <2>1, QueueStays DEF TypeOK, Clearing, TakeGate, Save, Goto, cloud, client, runtime, disk, task
  <2>2. CASE pending # NoState
    <3>1. \A p \in Ops : stage[p] \notin Saving
      BY OpsAssumption DEF GateInv, GateStages, TakeGate
    <3>2. queue' = Append(queue, o) /\ stage'[o] \in Saving /\ stage[o] \notin Storing
      BY <2>2 DEF TypeOK, Storing, Clearing, TakeGate, Save, Goto, cloud, client, runtime, disk, task
    <3>3. \A p \in Ops \ {o} : stage'[p] = stage[p]
      BY <2>2 DEF TypeOK, TakeGate, Save, Goto, cloud, client, runtime, disk, task
    <3> QED BY <3>1, <3>2, <3>3, QueueSaves
  <2> QED BY <2>1, <2>2
<1>2. TypeOK'
  <2>1. PICK s \in Stages : stage' = [stage EXCEPT ![o] = s]
    <3>1. CASE pending = NoState
      BY <3>1, StagesAre, Zenon DEF TakeGate, Goto
    <3>2. CASE pending # NoState
      BY <3>2, StagesAre, Zenon DEF TakeGate, Save, Goto
    <3> QED BY <3>1, <3>2
  <2>2. using' \in [Ops -> Maybe]
    BY NoStateOutside DEF TypeOK, TakeGate, Save
  <2> QED BY <1>1, <2>1, <2>2, NoStateOutside DEF QueueInv, Lists, TypeOK, TakeGate, cloud, client
<1>3. GateInv'
  BY OpsAssumption DEF TypeOK, GateInv, GateStages, TakeGate, Save, Goto, cloud, client, runtime, disk, task
<1>4. WireInv'
  BY OpsAssumption DEF TypeOK, WireInv, WireStages, TakeGate, Save, Goto, cloud, client, runtime, disk, task
<1>5. PendingInv'
  BY DEF TypeOK, PendingInv, PendingOf, Clearing, TakeGate, Save, Goto, cloud, client, runtime, disk, task
<1>6. SessionInv'
  BY DEF SessionInv, TakeGate, Save, Goto, cloud, client, runtime, disk, task
<1>7. SendsInv'
  BY DEF TypeOK, SendsInv, SendsOf, Clearing, TakeGate, Save, Goto, cloud, client, runtime, disk, task
<1>8. DurableInUse'
  BY DEF DurableInUse, TakeGate, Save, Goto, cloud, client, runtime, disk, task
<1> QED BY <1>1, <1>2, <1>3, <1>4, <1>5, <1>6, <1>7, <1>8

LEMMA ObserveStep ==
    ASSUME NEW o \in Ops, IInv, Observe(o)
    PROVE  IInv'
<1> USE SavingStages DEF IInv
<1>1. QueueInv'
  BY QueueStays DEF TypeOK, Clearing, Observe, Goto, cloud, client, runtime, disk, task
<1>2. TypeOK'
  BY <1>1, NoStateOutside DEF QueueInv, Lists, TypeOK, Stages, Revision, Observe, Goto, cloud, client, runtime, disk, task
<1>3. GateInv'
  BY OpsAssumption DEF TypeOK, GateInv, GateStages, Observe, Goto, cloud, client, runtime, disk, task
<1>4. WireInv'
  BY OpsAssumption DEF TypeOK, WireInv, WireStages, Observe, Goto, cloud, client, runtime, disk, task
<1>5. PendingInv'
  BY DEF TypeOK, PendingInv, PendingOf, Clearing, Observe, Goto, cloud, client, runtime, disk, task
<1>6. SessionInv'
  BY DEF SessionInv, Observe, Goto, cloud, client, runtime, disk, task
<1>7. SendsInv'
  BY DEF TypeOK, SendsInv, SendsOf, Clearing, Observe, Goto, cloud, client, runtime, disk, task
<1>8. DurableInUse'
  BY DEF DurableInUse, Observe, Goto, cloud, client, runtime, disk, task
<1> QED BY <1>1, <1>2, <1>3, <1>4, <1>5, <1>6, <1>7, <1>8

LEMMA DecideStep ==
    ASSUME NEW o \in Ops, IInv, Decide(o)
    PROVE  IInv'
<1> USE SavingStages DEF IInv
<1>1. QueueInv'
  <2>1. CASE Retire(o, "retiring")
    BY <2>1, QueueRetires DEF TypeOK, Retire, Clearing, Goto
  <2>2. CASE ~Retire(o, "retiring")
    BY <2>2, QueueStays DEF TypeOK, Clearing, Decide, Retire, Goto, cloud, client, runtime, disk, task
  <2> QED BY <2>1, <2>2
<1>2. TypeOK'
  <2>1. CASE bootstrap = NoState
    BY <1>1, <2>1, RetireTypes DEF QueueInv, Lists, TypeOK, Clearing, Decide, cloud, client
  <2>2. CASE bootstrap # NoState
    <3>1. \E s \in {"ready", "renewed"} : stage' = [stage EXCEPT ![o] = s]
      BY <2>2, Zenon DEF Decide, Goto
    <3>2. stage' \in [Ops -> Stages]
      BY <3>1, StagesAre DEF TypeOK
    <3>3. using' \in [Ops -> Maybe]
      BY <2>2 DEF TypeOK, Decide
    <3> QED BY <1>1, <2>2, <3>2, <3>3
            DEF QueueInv, Lists, TypeOK, Decide, cloud, client, runtime
  <2> QED BY <2>1, <2>2 DEF Decide
<1>3. GateInv'
  BY OpsAssumption DEF TypeOK, GateInv, GateStages, Decide, Retire, Goto, cloud, client, runtime, disk, task
<1>4. WireInv'
  BY OpsAssumption DEF TypeOK, WireInv, WireStages, Decide, Retire, Goto, cloud, client, runtime, disk, task
<1>5. PendingInv'
  BY DEF TypeOK, PendingInv, PendingOf, Clearing, Decide, Retire, Goto, cloud, client, runtime, disk, task
<1>6. SessionInv'
  BY DEF SessionInv, Decide, Retire, Goto, cloud, client, runtime, disk, task
<1>7. SendsInv'
  BY DEF TypeOK, SendsInv, SendsOf, Clearing, Decide, Retire, Goto, cloud, client, runtime, disk, task
<1>8. DurableInUse'
  BY DEF DurableInUse, Decide, Retire, Goto, cloud, client, runtime, disk, task
<1> QED BY <1>1, <1>2, <1>3, <1>4, <1>5, <1>6, <1>7, <1>8

LEMMA ConcludeStep ==
    ASSUME NEW o \in Ops, IInv, Conclude(o)
    PROVE  IInv'
<1> USE SavingStages DEF IInv
<1>1. QueueInv'
  BY QueueStays DEF TypeOK, Clearing, Conclude, Leave, Goto, cloud, client, runtime, disk, task
<1>2. TypeOK'
  <2>1. CASE o \in Writes
    BY <1>1, <2>1, LeaveTypes DEF QueueInv, Lists, TypeOK, Conclude, cloud, client, disk
  <2>2. CASE o \notin Writes
    BY <1>1, <2>2 DEF QueueInv, Lists, TypeOK, Stages, Conclude, Goto, cloud, client, disk
  <2> QED BY <2>1, <2>2
<1>3. GateInv'
  BY OpsAssumption DEF TypeOK, GateInv, GateStages, Conclude, Leave, Goto, cloud, client, runtime, disk, task
<1>4. WireInv'
  BY OpsAssumption DEF TypeOK, WireInv, WireStages, Conclude, Leave, Goto, cloud, client, runtime, disk, task
<1>5. PendingInv'
  BY DEF TypeOK, PendingInv, PendingOf, Clearing, Conclude, Leave, Goto, cloud, client, runtime, disk, task
<1>6. SessionInv'
  BY DEF SessionInv, Conclude, Leave, Goto, cloud, client, runtime, disk, task
<1>7. SendsInv'
  BY DEF TypeOK, SendsInv, SendsOf, Clearing, Conclude, Leave, Goto, cloud, client, runtime, disk, task
<1>8. DurableInUse'
  BY DEF DurableInUse, Conclude, Leave, Goto, cloud, client, runtime, disk, task
<1> QED BY <1>1, <1>2, <1>3, <1>4, <1>5, <1>6, <1>7, <1>8

LEMMA SendStep ==
    ASSUME NEW o \in Ops, IInv, Send(o)
    PROVE  IInv'
<1> USE SavingStages DEF IInv
<1>1. QueueInv'
  BY QueueStays DEF TypeOK, Clearing, Send, Goto, cloud, client, runtime, disk, task
<1>2. TypeOK'
  BY <1>1, NoStateOutside DEF QueueInv, Lists, TypeOK, Stages, Revision, Send, Goto, cloud, client, runtime, disk, task
<1>3. GateInv'
  BY OpsAssumption DEF TypeOK, GateInv, GateStages, Send, Goto, cloud, client, runtime, disk, task
<1>4. WireInv'
  BY OpsAssumption DEF TypeOK, WireInv, WireStages, Send, Goto, cloud, client, runtime, disk, task
<1>5. PendingInv'
  BY DEF TypeOK, PendingInv, PendingOf, Clearing, Send, Goto, cloud, client, runtime, disk, task
<1>6. SessionInv'
  BY DEF SessionInv, Send, Goto, cloud, client, runtime, disk, task
<1>7. SendsInv'
  BY DEF TypeOK, SendsInv, SendsOf, Clearing, Send, Goto, cloud, client, runtime, disk, task
<1>8. DurableInUse'
  BY DEF DurableInUse, Send, Goto, cloud, client, runtime, disk, task
<1> QED BY <1>1, <1>2, <1>3, <1>4, <1>5, <1>6, <1>7, <1>8

LEMMA SendRefusedStep ==
    ASSUME NEW o \in Ops, IInv, SendRefused(o)
    PROVE  IInv'
<1> USE SavingStages DEF IInv
<1>1. QueueInv'
  <2>1. CASE stage'[o] \in Clearing
    BY <2>1, QueueRetires DEF TypeOK, Clearing, SendRefused, Expired, Retire, Leave, Goto, cloud, client, runtime, disk, task
  <2>2. CASE stage'[o] \notin Clearing
    BY <2>2, QueueStays DEF TypeOK, Clearing, SendRefused, Expired, Retire, Leave, Goto, cloud, client, runtime, disk, task
  <2> QED BY <2>1, <2>2
<1>2. TypeOK'
  BY <1>1, ExpiredTypes DEF QueueInv, Lists, TypeOK, SendRefused, cloud, client
<1>3. GateInv'
  BY OpsAssumption DEF TypeOK, GateInv, GateStages, SendRefused, Expired, Retire, Leave, Goto, cloud, client, runtime, disk, task
<1>4. WireInv'
  BY OpsAssumption DEF TypeOK, WireInv, WireStages, SendRefused, Expired, Retire, Leave, Goto, cloud, client, runtime, disk, task
<1>5. PendingInv'
  BY DEF TypeOK, PendingInv, PendingOf, Clearing, SendRefused, Expired, Retire, Leave, Goto, cloud, client, runtime, disk, task
<1>6. SessionInv'
  BY DEF SessionInv, SendRefused, Expired, Retire, Leave, Goto, cloud, client, runtime, disk, task
<1>7. SendsInv'
  BY DEF TypeOK, SendsInv, SendsOf, Clearing, SendRefused, Expired, Retire, Leave, Goto, cloud, client, runtime, disk, task
<1>8. DurableInUse'
  BY DEF DurableInUse, SendRefused, Expired, Retire, Leave, Goto, cloud, client, runtime, disk, task
<1> QED BY <1>1, <1>2, <1>3, <1>4, <1>5, <1>6, <1>7, <1>8

LEMMA ServedStep ==
    ASSUME NEW o \in Ops, IInv, Served(o)
    PROVE  IInv'
<1> USE SavingStages DEF IInv
<1>1. QueueInv'
  BY QueueStays DEF TypeOK, Clearing, Served, Leave, Goto, cloud, client, runtime, disk, task
<1>2. TypeOK'
  BY <1>1, NoStateOutside DEF QueueInv, Lists, TypeOK, Stages, Revision, Served, Leave, Goto, cloud, client, runtime, disk, task
<1>3. GateInv'
  BY OpsAssumption DEF TypeOK, GateInv, GateStages, Served, Leave, Goto, cloud, client, runtime, disk, task
<1>4. WireInv'
  BY OpsAssumption DEF TypeOK, WireInv, WireStages, Served, Leave, Goto, cloud, client, runtime, disk, task
<1>5. PendingInv'
  BY DEF TypeOK, PendingInv, PendingOf, Clearing, Served, Leave, Goto, cloud, client, runtime, disk, task
<1>6. SessionInv'
  BY DEF SessionInv, Served, Leave, Goto, cloud, client, runtime, disk, task
<1>7. SendsInv'
  BY DEF TypeOK, SendsInv, SendsOf, Clearing, Served, Leave, Goto, cloud, client, runtime, disk, task
<1>8. DurableInUse'
  BY DEF DurableInUse, Served, Leave, Goto, cloud, client, runtime, disk, task
<1> QED BY <1>1, <1>2, <1>3, <1>4, <1>5, <1>6, <1>7, <1>8

LEMMA RefusedStep ==
    ASSUME NEW o \in Ops, NEW kind \in Kinds, IInv, Refused(o, kind)
    PROVE  IInv'
<1> USE SavingStages DEF IInv
<1>1. QueueInv'
  <2>1. CASE stage'[o] \in Clearing
    BY <2>1, QueueRetires DEF TypeOK, Clearing, Refused, Expired, Retire, Leave, Goto, cloud, client, runtime, disk, task
  <2>2. CASE stage'[o] \notin Clearing
    BY <2>2, QueueStays DEF TypeOK, Clearing, Refused, Expired, Retire, Leave, Goto, cloud, client, runtime, disk, task
  <2> QED BY <2>1, <2>2
<1>2. TypeOK'
  BY <1>1, ExpiredTypes, NoStateOutside DEF QueueInv, Lists, TypeOK, Refused, WireInv, WireStages, cloud
<1>3. GateInv'
  BY OpsAssumption DEF TypeOK, GateInv, GateStages, Refused, Expired, Retire, Leave, Goto, cloud, client, runtime, disk, task
<1>4. WireInv'
  BY OpsAssumption DEF TypeOK, WireInv, WireStages, Refused, Expired, Retire, Leave, Goto, cloud, client, runtime, disk, task
<1>5. PendingInv'
  BY DEF TypeOK, PendingInv, PendingOf, Clearing, Refused, Expired, Retire, Leave, Goto, cloud, client, runtime, disk, task
<1>6. SessionInv'
  <2>1. using[o] = session /\ session # NoState
    BY DEF WireInv, WireStages, Refused
  <2>2. bootstrap' \in {bootstrap, NoState} /\ latest' = latest /\ lost' = lost
    BY DEF Refused, Expired, Retire, cloud
  <2>3. session' \in {session, NoState} /\ refused' = refused \cup {session}
    BY <2>1 DEF Refused
  <2> QED BY <2>1, <2>2, <2>3 DEF SessionInv
<1>7. SendsInv'
  BY DEF TypeOK, SendsInv, SendsOf, Clearing, Refused, Expired, Retire, Leave, Goto, cloud, client, runtime, disk, task
<1>8. DurableInUse'
  BY DEF DurableInUse, Refused, Expired, Retire, Leave, Goto, cloud, client, runtime, disk, task
<1> QED BY <1>1, <1>2, <1>3, <1>4, <1>5, <1>6, <1>7, <1>8

LEMMA SendRefreshStep ==
    ASSUME NEW o \in Ops, IInv, SendRefresh(o)
    PROVE  IInv'
<1> USE SavingStages DEF IInv
<1>1. QueueInv'
  <2>1. CASE Retire(o, "retiring")
    BY <2>1, QueueRetires DEF TypeOK, Retire, Clearing, Goto
  <2>2. CASE ~Retire(o, "retiring")
    BY <2>2, QueueStays DEF TypeOK, Clearing, SendRefresh, Retire, Goto, cloud, client, runtime, disk, task
  <2> QED BY <2>1, <2>2
<1>2. TypeOK'
  <2>1. CASE session # using[o]
    BY <1>1, <2>1, RetireTypes DEF QueueInv, Lists, TypeOK, Clearing, SendRefresh, cloud
  <2>2. CASE session = using[o]
    BY <1>1, <2>2, StagesAre DEF QueueInv, Lists, TypeOK, SendRefresh, Goto, cloud, runtime
  <2> QED BY <2>1, <2>2 DEF SendRefresh
<1>3. GateInv'
  BY OpsAssumption DEF TypeOK, GateInv, GateStages, SendRefresh, Retire, Goto, cloud, client, runtime, disk, task
<1>4. WireInv'
  <2>1. CASE session = using[o]
    BY <2>1, OpsAssumption DEF TypeOK, WireInv, WireStages, PendingInv, PendingOf, SendRefresh, Retire, Goto, cloud, client, runtime, disk, task
  <2>2. CASE session # using[o]
    BY <2>2, OpsAssumption DEF TypeOK, WireInv, WireStages, SendRefresh, Retire, Goto, cloud, client, runtime, disk, task
  <2> QED BY <2>1, <2>2 DEF SendRefresh
<1>5. PendingInv'
  BY DEF TypeOK, PendingInv, PendingOf, Clearing, SendRefresh, Retire, Goto, cloud, client, runtime, disk, task
<1>6. SessionInv'
  BY DEF SessionInv, SendRefresh, Retire, Goto, cloud, client, runtime, disk, task
<1>7. SendsInv'
  BY DEF TypeOK, SendsInv, SendsOf, Clearing, SendRefresh, Retire, Goto, cloud, client, runtime, disk, task
<1>8. DurableInUse'
  BY DEF DurableInUse, SendRefresh, Retire, Goto, cloud, client, runtime, disk, task
<1> QED BY <1>1, <1>2, <1>3, <1>4, <1>5, <1>6, <1>7, <1>8

LEMMA RefreshedStep ==
    ASSUME NEW o \in Ops, IInv, Refreshed(o)
    PROVE  IInv'
<1> USE SavingStages DEF IInv
<1>1. QueueInv'
  <2>1. \A p \in Ops \ {o} : stage[p] \notin Saving /\ stage'[p] = stage[p]
    BY OpsAssumption DEF GateInv, GateStages, TypeOK, Refreshed, Issued, Save, Goto, cloud, client, runtime, disk, task
  <2>2. queue' = Append(queue, o) /\ stage'[o] \in Saving /\ stage[o] \notin Storing
    BY DEF TypeOK, Storing, Clearing, Refreshed, Issued, Save, Goto, cloud, client, runtime, disk, task
  <2> QED BY <2>1, <2>2, QueueSaves
<1>2. TypeOK'
  BY <1>1, NextRevision, NoStateOutside DEF QueueInv, Lists, TypeOK, Stages, Revision, Refreshed, Issued, Save, Goto, cloud, client, runtime, disk, task
<1>3. GateInv'
  BY OpsAssumption DEF TypeOK, GateInv, GateStages, Refreshed, Issued, Save, Goto, cloud, client, runtime, disk, task
<1>4. WireInv'
  BY OpsAssumption DEF TypeOK, WireInv, WireStages, Refreshed, Issued, Save, Goto, cloud, client, runtime, disk, task
<1>5. PendingInv'
  <2>1. latest + 1 # NoState
    BY NextRevision, NoStateOutside DEF Refreshed
  <2>2. \A p \in Ops \ {o} : stage'[p] = stage[p] /\ stage[p] \notin GateStages
    BY OpsAssumption DEF GateInv, GateStages, TypeOK, Refreshed, Issued, Save, Goto, cloud, client, runtime, disk, task
  <2>3. /\ stage'[o] = "saving" /\ using'[o] = latest + 1
        /\ pending' = latest + 1 /\ bootstrap' = latest + 1
    BY DEF TypeOK, Refreshed, Issued, Save, Goto, cloud, client, runtime, disk, task
  <2>4. PendingOf(o)'
    BY <2>1, <2>3 DEF PendingOf, Clearing
  <2>5. \A p \in Ops \ {o} : PendingOf(p)'
    BY <2>1, <2>2, <2>3 DEF PendingOf, GateStages
  <2> QED BY <2>3, <2>4, <2>5 DEF PendingInv
<1>6. SessionInv'
  BY DEF SessionInv, Refreshed, Issued, Save, Goto, cloud, client, runtime, disk, task
<1>7. SendsInv'
  BY DEF TypeOK, SendsInv, SendsOf, Clearing, Refreshed, Issued, Save, Goto, cloud, client, runtime, disk, task
<1>8. DurableInUse'
  BY DEF DurableInUse, Refreshed, Issued, Save, Goto, cloud, client, runtime, disk, task
<1> QED BY <1>1, <1>2, <1>3, <1>4, <1>5, <1>6, <1>7, <1>8

LEMMA RefreshLostStep ==
    ASSUME NEW o \in Ops, IInv, RefreshLost(o)
    PROVE  IInv'
<1> USE SavingStages DEF IInv
<1>1. QueueInv'
  BY QueueStays DEF TypeOK, Clearing, RefreshLost, Issued, Leave, Goto, cloud, client, runtime, disk, task
<1>2. TypeOK'
  BY <1>1, LeaveTypes, NextRevision, NoStateOutside
     DEF QueueInv, Lists, TypeOK, RefreshLost, Issued, disk
<1>3. GateInv'
  BY OpsAssumption DEF TypeOK, GateInv, GateStages, RefreshLost, Issued, Leave, Goto, cloud, client, runtime, disk, task
<1>4. WireInv'
  BY OpsAssumption DEF TypeOK, WireInv, WireStages, RefreshLost, Issued, Leave, Goto, cloud, client, runtime, disk, task
<1>5. PendingInv'
  BY DEF TypeOK, PendingInv, PendingOf, Clearing, RefreshLost, Issued, Leave, Goto, cloud, client, runtime, disk, task
<1>6. SessionInv'
  BY DEF SessionInv, RefreshLost, Issued, Leave, Goto, cloud, client, runtime, disk, task
<1>7. SendsInv'
  BY DEF TypeOK, SendsInv, SendsOf, Clearing, RefreshLost, Issued, Leave, Goto, cloud, client, runtime, disk, task
<1>8. DurableInUse'
  BY DEF DurableInUse, RefreshLost, Issued, Leave, Goto, cloud, client, runtime, disk, task
<1> QED BY <1>1, <1>2, <1>3, <1>4, <1>5, <1>6, <1>7, <1>8

LEMMA RefreshRefusedStep ==
    ASSUME NEW o \in Ops, IInv, RefreshRefused(o)
    PROVE  IInv'
<1> USE SavingStages DEF IInv
<1>1. QueueInv'
  BY QueueRetires DEF TypeOK, Clearing, RefreshRefused, Retire, Goto, cloud, client, runtime, disk, task
<1>2. TypeOK'
  BY <1>1, RetireTypes, NoStateOutside DEF QueueInv, Lists, TypeOK, Clearing, RefreshRefused, WireInv, WireStages, cloud
<1>3. GateInv'
  BY OpsAssumption DEF TypeOK, GateInv, GateStages, RefreshRefused, Retire, Goto, cloud, client, runtime, disk, task
<1>4. WireInv'
  BY OpsAssumption DEF TypeOK, WireInv, WireStages, RefreshRefused, Retire, Goto, cloud, client, runtime, disk, task
<1>5. PendingInv'
  BY DEF TypeOK, PendingInv, PendingOf, Clearing, RefreshRefused, Retire, Goto, cloud, client, runtime, disk, task
<1>6. SessionInv'
  BY DEF SessionInv, RefreshRefused, Retire, Goto, cloud, client, runtime, disk, task
<1>7. SendsInv'
  BY DEF TypeOK, SendsInv, SendsOf, Clearing, RefreshRefused, Retire, Goto, cloud, client, runtime, disk, task
<1>8. DurableInUse'
  BY DEF DurableInUse, RefreshRefused, Retire, Goto, cloud, client, runtime, disk, task
<1> QED BY <1>1, <1>2, <1>3, <1>4, <1>5, <1>6, <1>7, <1>8

LEMMA SavedStep ==
    ASSUME NEW o \in Ops, IInv, Saved(o)
    PROVE  IInv'
<1> USE SavingStages DEF IInv
<1>1. QueueInv'
  <2>1. stage'[o] \in {"observe", "decide", "renewed"}
    BY AfterSaveIs DEF TypeOK, Saved, Goto
  <2> QED BY <2>1, QueueShrinks DEF TypeOK, Storing, Clearing, Turn, Saved, Goto, cloud, client, runtime, disk, task
<1>2. TypeOK'
  <2>1. stage'[o] \in {"observe", "decide", "renewed"} /\ stage' = [stage EXCEPT ![o] = stage'[o]]
    BY AfterSaveIs DEF TypeOK, Saved, Goto
  <2>2. stage' \in [Ops -> Stages]
    BY <2>1, StagesAre DEF TypeOK
  <2> QED BY <1>1, <2>2, NoStateOutside DEF QueueInv, Lists, TypeOK, Saved, cloud, client
<1>3. GateInv'
  BY AfterSaveIs, OpsAssumption DEF TypeOK, GateInv, GateStages, Saved, Goto, cloud, client, runtime, disk, task
<1>4. WireInv'
  BY AfterSaveIs, OpsAssumption DEF TypeOK, WireInv, WireStages, Saved, Goto, cloud, client, runtime, disk, task
<1>5. PendingInv'
  <2>1. stage'[o] \in {"observe", "decide", "renewed"} /\ pending' = NoState
    BY AfterSaveIs DEF TypeOK, PendingInv, PendingOf, Saved, Goto, cloud, client, runtime, disk, task
  <2>2. \A p \in Ops \ {o} : stage'[p] = stage[p] /\ stage[p] \notin GateStages
    BY OpsAssumption DEF GateInv, GateStages, TypeOK, Saved, Goto, cloud, client, runtime, disk, task
  <2>3. bootstrap' # NoState => \A p \in Ops : stage[p] \notin Clearing
    BY NothingBehind DEF Saved, Goto, cloud, client, runtime, disk, task
  <2>4. PendingOf(o)'
    BY <2>1 DEF PendingOf, Clearing
  <2>5. \A p \in Ops \ {o} : PendingOf(p)'
    BY <2>1, <2>2, <2>3 DEF PendingOf, GateStages
  <2> QED BY <2>1, <2>4, <2>5 DEF PendingInv
<1>6. SessionInv'
  BY DEF SessionInv, Saved, Goto, cloud, client, runtime, disk, task
<1>7. SendsInv'
  BY AfterSaveIs DEF TypeOK, SendsInv, SendsOf, Clearing, Saved, Goto, cloud, client, runtime, disk, task
<1>8. DurableInUse'
  BY DEF TypeOK, PendingInv, PendingOf, DurableInUse, Clearing, Saved, Goto, cloud, client, runtime, disk, task
<1> QED BY <1>1, <1>2, <1>3, <1>4, <1>5, <1>6, <1>7, <1>8

LEMMA SaveFailsStep ==
    ASSUME NEW o \in Ops, IInv, SaveFails(o)
    PROVE  IInv'
<1> USE SavingStages DEF IInv
<1>1. QueueInv'
  BY QueueShrinks DEF TypeOK, Storing, Clearing, Turn, SaveFails, Leave, Goto, cloud, client, runtime, disk, task
<1>2. TypeOK'
  BY <1>1, NoStateOutside DEF QueueInv, Lists, TypeOK, Stages, Revision, SaveFails, Leave, Goto, cloud, client, runtime, disk, task
<1>3. GateInv'
  BY OpsAssumption DEF TypeOK, GateInv, GateStages, SaveFails, Leave, Goto, cloud, client, runtime, disk, task
<1>4. WireInv'
  BY OpsAssumption DEF TypeOK, WireInv, WireStages, SaveFails, Leave, Goto, cloud, client, runtime, disk, task
<1>5. PendingInv'
  BY DEF TypeOK, PendingInv, PendingOf, Clearing, SaveFails, Leave, Goto, cloud, client, runtime, disk, task
<1>6. SessionInv'
  BY DEF SessionInv, SaveFails, Leave, Goto, cloud, client, runtime, disk, task
<1>7. SendsInv'
  BY DEF TypeOK, SendsInv, SendsOf, Clearing, SaveFails, Leave, Goto, cloud, client, runtime, disk, task
<1>8. DurableInUse'
  BY DEF TypeOK, PendingInv, PendingOf, DurableInUse, Clearing, SaveFails, Leave, Goto, cloud, client, runtime, disk, task
<1> QED BY <1>1, <1>2, <1>3, <1>4, <1>5, <1>6, <1>7, <1>8

LEMMA ClearedStep ==
    ASSUME NEW o \in Ops, IInv, Cleared(o)
    PROVE  IInv'
<1> USE SavingStages DEF IInv
<1>1. QueueInv'
  <2>1. CASE stage'[o] \in Clearing
    BY <2>1, QueueRetires DEF TypeOK, Clearing, Cleared, Retire, Leave, Goto, cloud, client, runtime, disk, task
  <2>2. CASE stage'[o] \notin Clearing
    BY <2>2, QueueShrinks DEF TypeOK, Storing, Clearing, Turn, Cleared, Retire, Leave, Goto, cloud, client, runtime, disk, task
  <2> QED BY <2>1, <2>2
<1>2. TypeOK'
  <2>1. CASE Retire(o, "reporting") /\ UNCHANGED asked
    BY <1>1, <2>1, RetireTypes, NoStateOutside
       DEF QueueInv, Lists, TypeOK, Clearing, Cleared, cloud, client
  <2>2. CASE Leave(o) /\ UNCHANGED <<bootstrap, pending>> /\ asked' \in {asked, TRUE}
    BY <1>1, <2>2, LeaveTypes, NoStateOutside
       DEF QueueInv, Lists, TypeOK, Cleared, cloud, client
  <2> QED BY <2>1, <2>2 DEF Cleared
<1>3. GateInv'
  BY OpsAssumption DEF TypeOK, GateInv, GateStages, Cleared, Retire, Leave, Goto, cloud, client, runtime, disk, task
<1>4. WireInv'
  BY OpsAssumption DEF TypeOK, WireInv, WireStages, Cleared, Retire, Leave, Goto, cloud, client, runtime, disk, task
<1>5. PendingInv'
  BY DEF TypeOK, PendingInv, PendingOf, Clearing, Cleared, Retire, Leave, Goto, cloud, client, runtime, disk, task
<1>6. SessionInv'
  BY DEF SessionInv, Cleared, Retire, Leave, Goto, cloud, client, runtime, disk, task
<1>7. SendsInv'
  <2>1. CASE Retire(o, "reporting") /\ stage[o] = "retiring"
    BY <2>1 DEF TypeOK, SendsInv, SendsOf, Clearing, Retire, Goto
  <2>2. CASE Leave(o)
    BY <2>2 DEF TypeOK, SendsInv, SendsOf, Clearing, Leave, Goto
  <2> QED BY <2>1, <2>2 DEF Cleared
<1>8. DurableInUse'
  BY DEF TypeOK, PendingInv, PendingOf, DurableInUse, Clearing, Cleared, Retire, Leave, Goto, cloud, client, runtime, disk, task
<1> QED BY <1>1, <1>2, <1>3, <1>4, <1>5, <1>6, <1>7, <1>8

LEMMA AbandonStep ==
    ASSUME NEW o \in Ops, IInv, Abandon(o)
    PROVE  IInv'
<1> USE SavingStages DEF IInv
<1>1. QueueInv'
  BY QueueStays DEF TypeOK, Clearing, Abandon, Released, Leave, Goto, cloud, client, runtime, disk, task
<1>2. TypeOK'
  BY <1>1, NoStateOutside DEF QueueInv, Lists, TypeOK, Stages, Revision, Abandon, Released, Leave, Goto, cloud, client, runtime, disk, task
<1>3. GateInv'
  BY OpsAssumption DEF TypeOK, GateInv, GateStages, Abandon, Released, Leave, Goto, cloud, client, runtime, disk, task
<1>4. WireInv'
  BY OpsAssumption DEF TypeOK, WireInv, WireStages, Abandon, Released, Leave, Goto, cloud, client, runtime, disk, task
<1>5. PendingInv'
  BY DEF TypeOK, PendingInv, PendingOf, Clearing, Abandon, Released, Leave, Goto, cloud, client, runtime, disk, task
<1>6. SessionInv'
  BY DEF SessionInv, Abandon, Released, Leave, Goto, cloud, client, runtime, disk, task
<1>7. SendsInv'
  BY DEF TypeOK, SendsInv, SendsOf, Clearing, Abandon, Released, Leave, Goto, cloud, client, runtime, disk, task
<1>8. DurableInUse'
  BY DEF DurableInUse, Abandon, Released, Leave, Goto, cloud, client, runtime, disk, task
<1> QED BY <1>1, <1>2, <1>3, <1>4, <1>5, <1>6, <1>7, <1>8

LEMMA ExpireStep ==
    ASSUME NEW r \in Revision, IInv, Expire(r)
    PROVE  IInv'
<1> USE SavingStages DEF IInv
<1>1. QueueInv'
  BY QueueStays DEF TypeOK, Clearing, Expire, cloud, client, runtime, disk, task
<1>2. TypeOK'
  BY <1>1, NoStateOutside DEF QueueInv, Lists, TypeOK, Stages, Revision, Expire, cloud, client, runtime, disk, task
<1>3. GateInv'
  BY OpsAssumption DEF TypeOK, GateInv, GateStages, Expire, cloud, client, runtime, disk, task
<1>4. WireInv'
  BY OpsAssumption DEF TypeOK, WireInv, WireStages, Expire, cloud, client, runtime, disk, task
<1>5. PendingInv'
  BY DEF TypeOK, PendingInv, PendingOf, Clearing, Expire, cloud, client, runtime, disk, task
<1>6. SessionInv'
  BY DEF SessionInv, Expire, cloud, client, runtime, disk, task
<1>7. SendsInv'
  BY DEF TypeOK, SendsInv, SendsOf, Clearing, Expire, cloud, client, runtime, disk, task
<1>8. DurableInUse'
  BY DEF DurableInUse, Expire, cloud, client, runtime, disk, task
<1> QED BY <1>1, <1>2, <1>3, <1>4, <1>5, <1>6, <1>7, <1>8

LEMMA RevokeStep ==
    ASSUME IInv, Revoke
    PROVE  IInv'
<1> USE SavingStages DEF IInv
<1>1. QueueInv'
  BY QueueStays DEF TypeOK, Clearing, Revoke, cloud, client, runtime, disk, task
<1>2. TypeOK'
  BY <1>1, NoStateOutside DEF QueueInv, Lists, TypeOK, Stages, Revision, Revoke, cloud, client, runtime, disk, task
<1>3. GateInv'
  BY OpsAssumption DEF TypeOK, GateInv, GateStages, Revoke, cloud, client, runtime, disk, task
<1>4. WireInv'
  BY OpsAssumption DEF TypeOK, WireInv, WireStages, Revoke, cloud, client, runtime, disk, task
<1>5. PendingInv'
  BY DEF TypeOK, PendingInv, PendingOf, Clearing, Revoke, cloud, client, runtime, disk, task
<1>6. SessionInv'
  BY DEF SessionInv, Revoke, cloud, client, runtime, disk, task
<1>7. SendsInv'
  BY DEF TypeOK, SendsInv, SendsOf, Clearing, Revoke, cloud, client, runtime, disk, task
<1>8. DurableInUse'
  BY DEF DurableInUse, Revoke, cloud, client, runtime, disk, task
<1> QED BY <1>1, <1>2, <1>3, <1>4, <1>5, <1>6, <1>7, <1>8

LEMMA SignInStep ==
    ASSUME IInv, SignIn
    PROVE  IInv'
<1> USE SavingStages DEF IInv
<1>1. QueueInv'
  <2>1. Waiting' = Waiting /\ Waiting = {}
    BY DEF Waiting, Storing, Clearing, SignIn, Issued, Quiet, cloud, client, runtime, disk, task
  <2>2. \A a, b \in Ops : ~Before(queue', a, b)
    BY <2>1 DEF QueueInv, Lists, Before, SignIn, Issued, Quiet, cloud, client, runtime, disk, task
  <2> QED BY <2>1, <2>2 DEF QueueInv, SignIn, Issued, Quiet, cloud, client, runtime, disk, task
<1>2. TypeOK'
  BY <1>1, NextRevision, NoStateOutside DEF QueueInv, Lists, TypeOK, Stages, Revision, SignIn, Issued, Quiet, cloud, client, runtime, disk, task
<1>3. GateInv'
  BY OpsAssumption DEF TypeOK, GateInv, GateStages, SignIn, Issued, Quiet, cloud, client, runtime, disk, task
<1>4. WireInv'
  BY OpsAssumption DEF TypeOK, WireInv, WireStages, SignIn, Issued, Quiet, cloud, client, runtime, disk, task
<1>5. PendingInv'
  BY DEF TypeOK, PendingInv, PendingOf, Clearing, SignIn, Issued, Quiet, cloud, client, runtime, disk, task
<1>6. SessionInv'
  BY DEF SessionInv, SignIn, Issued, Quiet, cloud, client, runtime, disk, task
<1>7. SendsInv'
  BY DEF TypeOK, SendsInv, SendsOf, Clearing, SignIn, Issued, Quiet, cloud, client, runtime, disk, task
<1>8. DurableInUse'
  BY DEF DurableInUse, SignIn, Issued, Quiet, cloud, client, runtime, disk, task
<1> QED BY <1>1, <1>2, <1>3, <1>4, <1>5, <1>6, <1>7, <1>8

LEMMA RestartStep ==
    ASSUME IInv, Restart
    PROVE  IInv'
<1> USE SavingStages DEF IInv
<1>1. QueueInv'
  <2>1. Waiting' = {}
    BY DEF Waiting, Storing, Clearing, Restart
  <2>2. Len(<<>>) = 0 /\ <<>> \in Seq(Ops)
    OBVIOUS
  <2> QED BY <2>1, <2>2 DEF QueueInv, Lists, Before, Restart
<1>2. TypeOK'
  BY <1>1, NoStateOutside DEF QueueInv, Lists, TypeOK, Stages, Revision, Restart, cloud, client, runtime, disk, task
<1>3. GateInv'
  BY OpsAssumption DEF TypeOK, GateInv, GateStages, Restart, cloud, client, runtime, disk, task
<1>4. WireInv'
  BY OpsAssumption DEF TypeOK, WireInv, WireStages, Restart, cloud, client, runtime, disk, task
<1>5. PendingInv'
  BY DEF TypeOK, PendingInv, PendingOf, Clearing, Restart, cloud, client, runtime, disk, task
<1>6. SessionInv'
  BY DEF SessionInv, Restart, cloud, client, runtime, disk, task
<1>7. SendsInv'
  BY DEF TypeOK, SendsInv, SendsOf, Clearing, Restart, cloud, client, runtime, disk, task
<1>8. DurableInUse'
  BY DEF DurableInUse, Restart, cloud, client, runtime, disk, task
<1> QED BY <1>1, <1>2, <1>3, <1>4, <1>5, <1>6, <1>7, <1>8

LEMMA StepIInv == IInv /\ [Next]_vars => IInv'
<1> SUFFICES ASSUME IInv, [Next]_vars PROVE IInv'
  OBVIOUS
<1>1. ASSUME NEW o \in Ops, Begin(o) \/ Step(o) \/ Abandon(o) PROVE IInv'
  BY <1>1, BeginStep, AbandonStep, TakeGateStep, ObserveStep, DecideStep, ConcludeStep,
     SendStep, SendRefusedStep, ServedStep, RefusedStep, SendRefreshStep, RefreshedStep,
     RefreshLostStep, RefreshRefusedStep, SavedStep, SaveFailsStep, ClearedStep DEF Step
<1>2. ASSUME NEW r \in Revision, Expire(r) PROVE IInv'
  BY <1>2, ExpireStep
<1>3. CASE Revoke \/ SignIn \/ Restart
  BY <1>3, RevokeStep, SignInStep, RestartStep
<1>4. CASE UNCHANGED vars
  <2> USE <1>4 DEF IInv, vars, cloud, client, runtime, disk, task
  <2>1. TypeOK'
    BY DEF TypeOK
  <2>2. QueueInv'
    BY QueueStays
  <2>3. GateInv' /\ WireInv' /\ SendsInv'
    BY DEF GateInv, WireInv, SendsInv, SendsOf
  <2>4. PendingInv' /\ SessionInv' /\ DurableInUse'
    BY DEF PendingInv, PendingOf, SessionInv, DurableInUse
  <2> QED BY <2>1, <2>2, <2>3, <2>4
<1> QED BY <1>1, <1>2, <1>3, <1>4 DEF Next

LEMMA InvariantHolds == Spec => []IInv
<1> QED BY InitIInv, StepIInv, PTL DEF Spec

(* The variables keep their types, and a command is sent at most once and  *)
(* a read repeated at most once, whatever expires, fails or is renewed on  *)
(* the way.                                                                *)
THEOREM TypeCorrect == Spec => []WithinBounds
<1>1. IInv => WithinBounds
  BY DEF IInv, SendsInv, SendsOf, RepeatsBounded, WithinBounds
<1> QED BY <1>1, InvariantHolds, PTL

(* What the runtime uses is what a restart finds, unless it still waits to *)
(* be saved.                                                               *)
THEOREM WhatIsUsedIsDurable == Spec => []DurableInUse
<1>1. IInv => DurableInUse
  BY DEF IInv
<1> QED BY <1>1, InvariantHolds, PTL

-----------------------------------------------------------------------------
(* The action properties.                                                  *)

(* Where a step can take an operation to.                                  *)
LEMMA IntoRefreshing ==
    ASSUME IInv, [Next]_vars, NEW o \in Ops,
           stage'[o] = "refreshing", stage[o] # "refreshing"
    PROVE  stage[o] = "ready" /\ session = using[o]
<1> USE SavingStages, AfterSaveIs DEF IInv, TypeOK, vars, task
<1>1. \E p \in Ops : SendRefresh(p)
  <2>1. ASSUME NEW p \in Ops, Begin(p) \/ Abandon(p) \/ TakeGate(p) \/ Observe(p)
        PROVE  FALSE
    BY <2>1 DEF Begin, Abandon, TakeGate, Observe, Leave, Save, Goto
  <2>2. ASSUME NEW p \in Ops, Decide(p) \/ Conclude(p) \/ Send(p) \/ Served(p)
        PROVE  FALSE
    BY <2>2 DEF Decide, Conclude, Send, Served, Leave, Retire, Goto
  <2>3. ASSUME NEW p \in Ops, NEW kind, SendRefused(p) \/ Refused(p, kind) PROVE FALSE
    BY <2>3 DEF SendRefused, Refused, Expired, Retire, Leave, Goto
  <2>4. ASSUME NEW p \in Ops, Refreshed(p) \/ RefreshLost(p) \/ RefreshRefused(p)
        PROVE  FALSE
    BY <2>4 DEF Refreshed, RefreshLost, RefreshRefused, Save, Retire, Leave, Goto
  <2>5. ASSUME NEW p \in Ops, Saved(p) \/ SaveFails(p) \/ Cleared(p) PROVE FALSE
    BY <2>5 DEF Saved, SaveFails, Cleared, Retire, Leave, Goto
  <2>6. ASSUME (\E r \in Revision : Expire(r)) \/ Revoke \/ SignIn \/ Restart \/ UNCHANGED vars
        PROVE  FALSE
    BY <2>6 DEF Expire, Revoke, SignIn, Restart
  <2> QED BY <2>1, <2>2, <2>3, <2>4, <2>5, <2>6 DEF Next, Step
<1> QED BY <1>1 DEF SendRefresh, Retire, Goto

(* A refresh token is not sent twice: the one that goes out belongs to the *)
(* last revision issued, unless that one never reached this process.       *)
THEOREM TokensSentOnce == Spec => RefreshesTheLatest
<1>1. ASSUME IInv, [Next]_vars, NEW o \in Ops,
             stage'[o] = "refreshing", stage[o] # "refreshing"
      PROVE  using[o] = latest \/ lost
  <2>1. stage[o] = "ready" /\ session = using[o]
    BY <1>1, IntoRefreshing
  <2> QED BY <1>1, <2>1 DEF IInv, PendingInv, PendingOf, SessionInv
<1>2. IInv /\ [Next]_vars =>
         [\A o \in Ops : stage'[o] = "refreshing" /\ stage[o] # "refreshing" =>
             using[o] = latest \/ lost]_vars
  BY <1>1
<1> QED BY <1>2, InvariantHolds, PTL DEF Spec, RefreshesTheLatest

(* No operation starts on a revision that a restart would not find.        *)
THEOREM SavedBeforeRequests == Spec => SavedBeforeUse
<1>1. ASSUME IInv, NEW o \in Ops, stage[o] \in {"observe", "renewed"}
      PROVE  bootstrap \in {stored, NoState}
  BY <1>1 DEF IInv, PendingInv, PendingOf, DurableInUse
<1>2. IInv /\ [Next]_vars =>
         [\A o \in Ops :
             <<stage[o], stage'[o]>> \in {<<"observe", "acting">>, <<"renewed", "retry">>} =>
                 bootstrap \in {stored, NoState}]_vars
  BY <1>1
<1> QED BY <1>2, InvariantHolds, PTL DEF Spec, SavedBeforeUse

LEMMA IntoRetiring ==
    ASSUME IInv, [Next]_vars, NEW o \in Ops,
           stage[o] # "retiring", stage'[o] = "retiring"
    PROVE  bootstrap \in refused' \cup {NoState}
<1> USE SavingStages, AfterSaveIs DEF IInv, TypeOK, vars, task
<1>1. ASSUME NEW p \in Ops, Begin(p) \/ Abandon(p) \/ TakeGate(p) \/ Observe(p)
      PROVE  FALSE
  BY <1>1 DEF Begin, Abandon, TakeGate, Observe, Leave, Save, Goto
<1>2. ASSUME NEW p \in Ops, Conclude(p) \/ Send(p) \/ Served(p) PROVE FALSE
  BY <1>2 DEF Conclude, Send, Served, Leave, Goto
<1>3. ASSUME NEW p \in Ops, Refreshed(p) \/ RefreshLost(p) PROVE FALSE
  BY <1>3 DEF Refreshed, RefreshLost, Save, Leave, Goto
<1>4. ASSUME NEW p \in Ops, Saved(p) \/ SaveFails(p) \/ Cleared(p) PROVE FALSE
  BY <1>4 DEF Saved, SaveFails, Cleared, Retire, Leave, Goto
<1>5. ASSUME (\E r \in Revision : Expire(r)) \/ Revoke \/ SignIn \/ Restart \/ UNCHANGED vars
      PROVE  FALSE
  BY <1>5 DEF Expire, Revoke, SignIn, Restart
(* Nothing is in use any more.                                             *)
<1>6. ASSUME NEW p \in Ops, Decide(p) PROVE bootstrap = NoState
  BY <1>6 DEF Decide, Goto
(* A repeated request meets a client whose session is gone or refused.     *)
<1>7. ASSUME NEW p \in Ops, SendRefused(p) PROVE bootstrap \in refused' \cup {NoState}
  BY <1>7 DEF SendRefused, SessionInv
<1>8. ASSUME NEW p \in Ops, NEW kind, Refused(p, kind)
      PROVE  bootstrap \in refused' \cup {NoState}
  <2>1. using[p] = session /\ session # NoState
    BY <1>8 DEF WireInv, WireStages, Refused
  <2> QED BY <1>8, <2>1 DEF Refused, SessionInv
(* The revision to renew is no longer the one of the client.               *)
<1>9. ASSUME NEW p \in Ops, SendRefresh(p) PROVE bootstrap \in refused' \cup {NoState}
  <2>1. session # using[p]
    BY <1>9 DEF SendRefresh, Goto
  <2> QED BY <1>9, <2>1 DEF SendRefresh, PendingInv, PendingOf, SessionInv
<1>10. ASSUME NEW p \in Ops, RefreshRefused(p) PROVE bootstrap \in refused' \cup {NoState}
  BY <1>10 DEF RefreshRefused, PendingInv, PendingOf
<1> QED BY <1>1, <1>2, <1>3, <1>4, <1>5, <1>6, <1>7, <1>8, <1>9, <1>10 DEF Next, Step

(* The runtime retires only a revision that the cloud refused.             *)
THEOREM RetiresWhatWasRefused == Spec => RuntimeRetiresRefused
<1>1. IInv /\ [Next]_vars =>
         [\A o \in Ops : stage[o] # "retiring" /\ stage'[o] = "retiring" =>
             bootstrap \in refused' \cup {NoState}]_vars
  BY IntoRetiring
<1> QED BY <1>1, InvariantHolds, PTL DEF Spec, RuntimeRetiresRefused
=============================================================================
