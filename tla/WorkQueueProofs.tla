--------------------------- MODULE WorkQueueProofs ---------------------------
(***************************************************************************)
(* Theorems about WorkQueue for any number of producers, items and starts. *)
(***************************************************************************)
EXTENDS WorkQueue, SequenceTheorems, TLAPS

\* A producer about to push has an item to push.
PushersHaveItems == \A p \in Producers : at[p] = "push" => pushes[p] >= 1

TInv == TypeOK /\ PushersHaveItems

\* TypeOK in three parts.
AtOK ==
  /\ at \in [Threads -> WorkerSteps \cup {"idle", "push", "spawn"}]
  /\ \A w \in Workers : at[w] \in WorkerSteps
  /\ \A p \in Producers : at[p] \in {"idle", "push"}
  /\ at[Owner] \in {"idle", "spawn"}
FlagsOK ==
  /\ mutex \in Workers \cup {None} /\ thread \in Workers \cup {None}
  /\ stopping \in [Workers \cup {Owner} -> {"no", "set", "notify", "join"}]
  /\ stopped \in BOOLEAN /\ raced \subseteq Workers /\ missed \in BOOLEAN /\ calm \in BOOLEAN
  /\ selfStop \in BOOLEAN
ItemsOK ==
  /\ queue \in Seq(Items)
  /\ hand \in [Workers -> Items \cup {Blank, None}]
  /\ pushes \in [Producers -> 0 .. MaxItems] /\ last \in [Producers -> 0 .. MaxItems]

PlacesOK == AtOK /\ FlagsOK

LEMMA Parts == TypeOK <=> PlacesOK /\ ItemsOK
BY DEF TypeOK, PlacesOK, AtOK, FlagsOK, ItemsOK

LEMMA TheThreads ==
  /\ Owner \notin Workers /\ Owner \notin Producers
  /\ \A w \in Workers : w \notin Producers
  /\ None \notin Threads
BY WorkerAssumption DEF Threads

USE DEF Threads, WorkerSteps

\* A worker that moves, or is woken, stays among its places.
LEMMA MovesKeepAtOK ==
  ASSUME AtOK, \/ \E w \in Workers : \E l \in WorkerSteps : at' = [at EXCEPT ![w] = l]
               \/ at' = at
  PROVE  AtOK'
BY TheThreads DEF AtOK

-----------------------------------------------------------------------------
(* Type correctness.                                                       *)

LEMMA WorkerKeepsTInv ==
  ASSUME TInv, NEW w \in Workers, Worker(w) \/ spuriousWake(w)
  PROVE  TInv'
<1> USE TheThreads DEF TInv
<1>1. CASE loop(w) \/ lock(w) \/ test(w) \/ park(w) \/ spuriousWake(w)
  <2>1. PlacesOK'
    <3>1. \E l \in WorkerSteps : at' = [at EXCEPT ![w] = l]
      BY <1>1 DEF loop, lock, test, park, spuriousWake, Go
    <3>2. AtOK'
      BY <3>1, MovesKeepAtOK DEF TypeOK, AtOK
    <3>3. FlagsOK'
      BY <1>1 DEF TypeOK, FlagsOK, loop, lock, test, park, spuriousWake, threadVars, history
    <3> QED BY <3>2, <3>3 DEF PlacesOK
  <2>2. ItemsOK'
    BY <1>1 DEF TypeOK, ItemsOK, loop, lock, test, park, spuriousWake, history
  <2>3. PushersHaveItems'
    BY <1>1 DEF TypeOK, PushersHaveItems, loop, lock, test, park, spuriousWake, Go
  <2> QED BY <2>1, <2>2, <2>3 DEF TypeOK, PlacesOK, AtOK, FlagsOK, ItemsOK
<1>2. CASE check(w)
  <2>1. PlacesOK'
    BY <1>2 DEF TypeOK, PlacesOK, AtOK, FlagsOK, check, Go, threadVars
  <2>2. ItemsOK'
    BY <1>2 DEF TypeOK, ItemsOK, check
  <2>3. PushersHaveItems'
    BY <1>2 DEF TypeOK, PushersHaveItems, check, Go
  <2> QED BY <2>1, <2>2, <2>3 DEF TypeOK, PlacesOK, AtOK, FlagsOK, ItemsOK
<1>3. CASE pop(w)
  <2>1. PlacesOK'
    BY <1>3 DEF TypeOK, PlacesOK, AtOK, FlagsOK, pop, Go, threadVars, history
  <2>2. ItemsOK'
    <3>1. CASE queue = <<>>
      BY <1>3, <3>1 DEF TypeOK, ItemsOK, pop, history
    <3>2. CASE queue # <<>>
      <4>1. Head(queue) \in Items /\ Tail(queue) \in Seq(Items)
        BY <3>2 DEF TypeOK
      <4>2. hand' = [hand EXCEPT ![w] = Head(queue)] /\ queue' = Tail(queue)
            /\ UNCHANGED <<pushes, last>>
        BY <1>3, <3>2 DEF pop, history
      <4> QED BY <4>1, <4>2 DEF TypeOK, ItemsOK
    <3> QED BY <3>1, <3>2
  <2>3. PushersHaveItems'
    BY <1>3 DEF TypeOK, PushersHaveItems, pop, Go
  <2> QED BY <2>1, <2>2, <2>3 DEF TypeOK, PlacesOK, AtOK, FlagsOK, ItemsOK
<1>4. CASE handle(w)
  <2>1. PlacesOK'
    BY <1>4 DEF TypeOK, PlacesOK, AtOK, FlagsOK, handle, Go, threadVars
  <2>2. last' \in [Producers -> 0 .. MaxItems]
    <3>1. CASE hand[w] \in Items
      <4>1. hand[w].by \in Producers /\ hand[w].n \in 0 .. MaxItems
        BY <3>1, ItemAssumption DEF Items
      <4>2. last' = [last EXCEPT ![hand[w].by] = hand[w].n]
        BY <1>4, <3>1 DEF handle
      <4> QED BY <4>1, <4>2 DEF TypeOK
    <3>2. CASE hand[w] \notin Items
      BY <1>4, <3>2 DEF handle, TypeOK
    <3> QED BY <3>1, <3>2
  <2>3. ItemsOK'
    BY <1>4, <2>2 DEF TypeOK, ItemsOK, handle
  <2>4. PushersHaveItems'
    BY <1>4 DEF TypeOK, PushersHaveItems, handle, Go
  <2> QED BY <2>1, <2>3, <2>4 DEF TypeOK, PlacesOK, AtOK, FlagsOK, ItemsOK
<1>5. CASE stopProgress(w)
  <2>1. PlacesOK'
    <3>1. (\E v \in Workers : \E l \in WorkerSteps : at' = [at EXCEPT ![v] = l]) \/ at' = at
      BY <1>5 DEF stopProgress, StopSet, StopNotify, StopJoin, notifyOne, Go
    <3>2. AtOK'
      BY <3>1, MovesKeepAtOK DEF TypeOK, AtOK
    <3>3. FlagsOK'
      BY <1>5 DEF TypeOK, FlagsOK, stopProgress, StopSet, StopNotify, StopJoin, history
    <3> QED BY <3>2, <3>3 DEF PlacesOK
  <2>2. ItemsOK'
    BY <1>5 DEF TypeOK, ItemsOK, stopProgress, StopSet, StopNotify, StopJoin, history
  <2>3. PushersHaveItems'
    BY <1>5 DEF TypeOK, PushersHaveItems, stopProgress, StopSet, StopNotify, StopJoin, notifyOne, Go
  <2> QED BY <2>1, <2>2, <2>3 DEF TypeOK, PlacesOK, AtOK, FlagsOK, ItemsOK
<1> QED BY <1>1, <1>2, <1>3, <1>4, <1>5 DEF Worker

LEMMA ProducerKeepsTInv ==
  ASSUME TInv, NEW p \in Producers, Producer(p)
  PROVE  TInv'
<1> USE TheThreads, ItemAssumption DEF TInv
<1>1. CASE push(p)
  <2>1. PlacesOK'
    BY <1>1 DEF TypeOK, PlacesOK, AtOK, FlagsOK, push, Go, threadVars, history
  <2>2. pushes' \in [Producers -> 0 .. MaxItems] /\ pushes'[p] >= 1
    BY <1>1 DEF TypeOK, push
  <2>3. ItemsOK'
    BY <1>1, <2>2 DEF TypeOK, ItemsOK, push, history
  <2>4. PushersHaveItems'
    BY <1>1, <2>2 DEF TypeOK, PushersHaveItems, push, Go
  <2> QED BY <2>1, <2>3, <2>4 DEF TypeOK, PlacesOK, AtOK, FlagsOK, ItemsOK
<1>2. CASE pushBack(p)
  <2>1. \/ at' = [at EXCEPT ![p] = "idle"]
        \/ \E w \in Workers : at' = [at EXCEPT ![p] = "idle", ![w] = "lock"]
    BY <1>2 DEF pushBack, Go
  <2>2. PlacesOK'
    <3>1. AtOK'
      <4>1. CASE at' = [at EXCEPT ![p] = "idle"]
        BY <4>1 DEF TypeOK, AtOK
      <4>2. ASSUME NEW w \in Workers, at' = [at EXCEPT ![p] = "idle", ![w] = "lock"]
            PROVE  AtOK'
        <5>1. /\ at'[p] = "idle" /\ at'[w] = "lock"
              /\ \A t \in Threads \ {p, w} : at'[t] = at[t]
              /\ at' \in [Threads -> WorkerSteps \cup {"idle", "push", "spawn"}]
          BY <4>2 DEF TypeOK
        <5>2. p # w /\ Owner \notin {p, w}
          OBVIOUS
        <5> QED BY <5>1, <5>2 DEF TypeOK, AtOK
      <4> QED BY <2>1, <4>1, <4>2
    <3>2. FlagsOK'
      BY <1>2 DEF TypeOK, FlagsOK, pushBack, threadVars, history
    <3> QED BY <3>1, <3>2 DEF PlacesOK
  <2>3. offered(p) \in Items
    BY <1>2 DEF TypeOK, PushersHaveItems, pushBack, offered, Items
  <2>4. ItemsOK'
    BY <1>2, <2>3 DEF TypeOK, ItemsOK, pushBack, history
  <2>5. PushersHaveItems'
    BY <1>2, <2>1 DEF TypeOK, PushersHaveItems, pushBack
  <2> QED BY <2>2, <2>4, <2>5 DEF TypeOK, PlacesOK, AtOK, FlagsOK, ItemsOK
<1> QED BY <1>1, <1>2, <1>2 DEF Producer

LEMMA OwnerKeepsTInv ==
  ASSUME TInv, OwnerGoesOn \/ OwnerCalls \/ \E w \in Workers : stopFromHandler(w)
  PROVE  TInv'
<1> USE TheThreads DEF TInv
<1>1. CASE start \/ \E w \in Workers : spawn(w)
  <2>1. PlacesOK'
    <3>1. CASE start
      <4>1. AtOK'
        BY <3>1 DEF TypeOK, AtOK, start, Go
      <4>2. FlagsOK'
        BY <3>1 DEF TypeOK, FlagsOK, start
      <4> QED BY <4>1, <4>2 DEF PlacesOK
    <3>2. ASSUME NEW w \in Workers, spawn(w) PROVE PlacesOK'
      <4>1. AtOK'
        BY <3>2 DEF TypeOK, AtOK, spawn
      <4>2. FlagsOK'
        BY <3>2 DEF TypeOK, FlagsOK, spawn, history
      <4> QED BY <4>1, <4>2 DEF PlacesOK
    <3> QED BY <1>1, <3>1, <3>2
  <2>2. ItemsOK' /\ PushersHaveItems'
    BY <1>1 DEF TypeOK, ItemsOK, PushersHaveItems, start, spawn, Go, history
  <2> QED BY <2>1, <2>2 DEF TypeOK, PlacesOK, AtOK, FlagsOK, ItemsOK
<1>2. CASE (\E t \in Workers \cup {Owner} : StopTest(t) /\ selfStop' \in {selfStop, TRUE})
           \/ stopProgress(Owner)
  <2>1. PlacesOK'
    <3>1. (\E v \in Workers : \E l \in WorkerSteps : at' = [at EXCEPT ![v] = l]) \/ at' = at
      BY <1>2 DEF StopTest, stopProgress, StopSet, StopNotify, StopJoin, notifyOne, Go
    <3>2. AtOK'
      BY <3>1, MovesKeepAtOK DEF TypeOK, AtOK
    <3>3. ASSUME NEW t \in Workers \cup {Owner}, StopTest(t),
                 selfStop' \in {selfStop, TRUE}
          PROVE  FlagsOK'
      BY <3>3 DEF TypeOK, FlagsOK, StopTest
    <3>4. ASSUME stopProgress(Owner) PROVE FlagsOK'
      BY <3>4 DEF TypeOK, FlagsOK, stopProgress, StopSet, StopNotify, StopJoin, history
    <3>5. FlagsOK'
      BY <1>2, <3>3, <3>4
    <3> QED BY <3>2, <3>5 DEF PlacesOK
  <2>2. ItemsOK'
    BY <1>2 DEF TypeOK, ItemsOK, StopTest, stopProgress, StopSet, StopNotify, StopJoin, history
  <2>3. PushersHaveItems'
    <3>1. /\ UNCHANGED pushes
          /\ UNCHANGED at \/ \E w \in Workers : Go(w, "lock")
      BY <1>2 DEF StopTest, stopProgress, StopSet, StopNotify, StopJoin, notifyOne
    <3>2. \A p \in Producers : at'[p] = at[p]
      BY <3>1 DEF TypeOK, Go
    <3> QED BY <3>1, <3>2 DEF PushersHaveItems
  <2> QED BY <2>1, <2>2, <2>3 DEF TypeOK, PlacesOK, AtOK, FlagsOK, ItemsOK
<1>3. CASE clear \/ removeWithPredicate
  <2>1. PlacesOK'
    BY <1>3 DEF TypeOK, PlacesOK, AtOK, FlagsOK, clear, removeWithPredicate, threadVars
  <2>2. queue' \in Seq(Items)
    <3>1. CASE clear
      BY <3>1 DEF clear
    <3>2. CASE removeWithPredicate
      <4>1. PICK k \in 1 .. Len(queue) : queue' = SubSeq(queue, k + 1, Len(queue))
        BY <3>2 DEF removeWithPredicate
      <4> QED BY <4>1, SubSeqProperties DEF TypeOK
    <3> QED BY <1>3, <3>1, <3>2
  <2>3. ItemsOK' /\ PushersHaveItems'
    BY <1>3, <2>2 DEF TypeOK, ItemsOK, PushersHaveItems, clear, removeWithPredicate
  <2> QED BY <2>1, <2>3 DEF TypeOK, PlacesOK, AtOK, FlagsOK, ItemsOK
<1> QED BY <1>1, <1>2, <1>3 DEF OwnerGoesOn, OwnerCalls, stop, stopFromHandler

THEOREM TypeInvariance == Spec => []TInv
<1>1. Init => TInv
  <2> SUFFICES ASSUME Init PROVE TInv
    OBVIOUS
  <2>1. AtOK /\ PushersHaveItems
    BY TheThreads DEF Init, AtOK, PushersHaveItems
  <2>2. FlagsOK
    BY DEF Init, FlagsOK
  <2>3. ItemsOK
    <3>1. <<>> \in Seq(Items)
      OBVIOUS
    <3> QED BY <3>1, ItemAssumption DEF Init, ItemsOK
  <2> QED BY <2>1, <2>2, <2>3, Parts DEF TInv, PlacesOK
<1>2. TInv /\ [Next]_vars => TInv'
  <2> SUFFICES ASSUME TInv, [Next]_vars PROVE TInv'
    OBVIOUS
  <2>1. CASE UNCHANGED vars
    BY <2>1 DEF vars, threadVars, history, TInv, TypeOK, PushersHaveItems
  <2> QED BY <2>1, WorkerKeepsTInv, ProducerKeepsTInv, OwnerKeepsTInv DEF Next
<1> QED BY <1>1, <1>2, PTL DEF Spec

\* Every variable of the queue keeps its type.
THEOREM TypeCorrect == Spec => []TypeOK
<1>1. TInv => TypeOK
  BY DEF TInv
<1> QED BY <1>1, TypeInvariance, PTL

-----------------------------------------------------------------------------
(* What a stopped and cleared queue still gets.                            *)

\* A queue is calm only while it is stopped, and a producer that is still past the
\* test of stopped_ has nothing in it.
CalmIsStopped == calm => stopped
PushersAreOut ==
  calm => \A p \in Producers : at[p] = "push" => \A i \in DOMAIN queue : queue[i].by # p

CalmInv == CalmIsStopped /\ PushersAreOut /\ LeftoversWereInFlight

\* Removing items from the front keeps the others, in their order.
LEMMA RemovalKeepsCalm ==
  ASSUME CalmInv, queue \in Seq(Items), NEW k \in 1 .. Len(queue),
         queue' = SubSeq(queue, k + 1, Len(queue)),
         \A p \in Producers : at'[p] = "push" => at[p] = "push",
         UNCHANGED <<stopped, calm>>
  PROVE  CalmInv'
<1>1. /\ Len(queue') = Len(queue) - k
      /\ \A i \in 1 .. Len(queue') : queue'[i] = queue[i + k] /\ i + k \in 1 .. Len(queue)
      /\ DOMAIN queue' = 1 .. Len(queue')
  BY SubSeqProperties, SMTT(60)
<1>2. DOMAIN queue = 1 .. Len(queue)
  OBVIOUS
<1>3. CalmIsStopped' /\ PushersAreOut'
  BY <1>1, <1>2, ZenonT(90) DEF CalmInv, CalmIsStopped, PushersAreOut
<1>4. ASSUME calm', NEW i \in DOMAIN queue', NEW j \in DOMAIN queue', i # j
      PROVE  queue'[i].by # queue'[j].by
  <2>1. /\ queue'[i] = queue[i + k] /\ i + k \in DOMAIN queue
        /\ queue'[j] = queue[j + k] /\ j + k \in DOMAIN queue
    BY <1>1, <1>2
  <2>2. i + k # j + k
    BY <1>1, <1>4
  <2> QED BY <1>4, <2>1, <2>2 DEF CalmInv, LeftoversWereInFlight
<1>5. LeftoversWereInFlight'
  BY <1>4 DEF LeftoversWereInFlight
<1> QED BY <1>3, <1>5 DEF CalmInv

\* A step that leaves the queue alone and lets nobody past the test of stopped_.
LEMMA QuietKeepsCalm ==
  ASSUME CalmInv, UNCHANGED <<queue, calm>>, stopped => stopped',
         \A p \in Producers : at'[p] = "push" => at[p] = "push"
  PROVE  CalmInv'
BY DEF CalmInv, CalmIsStopped, PushersAreOut, LeftoversWereInFlight

LEMMA NextKeepsCalm ==
  ASSUME TInv, CalmInv, [Next]_vars
  PROVE  CalmInv'
<1> USE TheThreads DEF TInv
<1>1. ASSUME NEW w \in Workers, Worker(w) \/ spuriousWake(w) \/ stopFromHandler(w)
      PROVE  CalmInv'
  <2>1. CASE pop(w) /\ queue # <<>>
    <3>1. queue' = SubSeq(queue, 1 + 1, Len(queue)) /\ 1 \in 1 .. Len(queue)
      <4>1. queue' = Tail(queue) /\ queue \in Seq(Items) /\ queue # <<>>
        BY <2>1 DEF pop, TypeOK
      <4>2. Tail(queue) = SubSeq(queue, 2, Len(queue))
        BY <4>1, TailIsSubSeq
      <4> QED BY <4>1, <4>2
    <3>2. \A p \in Producers : at'[p] = "push" => at[p] = "push"
      BY <2>1 DEF pop, Go, TypeOK
    <3> QED BY <2>1, <3>1, <3>2, RemovalKeepsCalm DEF pop, threadVars, history, TypeOK
  <2>2. CASE ~(pop(w) /\ queue # <<>>)
    <3>1. UNCHANGED <<queue, calm>>
      BY <1>1, <2>2 DEF Worker, loop, lock, test, park, check, pop, handle, spuriousWake,
           stopFromHandler, stopProgress, StopTest, StopSet, StopNotify, StopJoin, history
    <3>2. stopped => stopped'
      BY <1>1 DEF Worker, loop, lock, test, park, check, pop, handle, spuriousWake,
           stopFromHandler, stopProgress, StopTest, StopSet, StopNotify, StopJoin, threadVars
    <3>3. (\E v \in Workers : \E l \in WorkerSteps : at' = [at EXCEPT ![v] = l]) \/ at' = at
      BY <1>1 DEF Worker, loop, lock, test, park, check, pop, handle, spuriousWake,
           stopFromHandler, stopProgress, StopTest, StopSet, StopNotify, StopJoin, notifyOne, Go
    <3>4. \A p \in Producers : at'[p] = "push" => at[p] = "push"
      BY <3>3 DEF TypeOK
    <3> QED BY <3>1, <3>2, <3>4, QuietKeepsCalm
  <2> QED BY <2>1, <2>2
<1>2. ASSUME NEW p \in Producers, Producer(p) PROVE CalmInv'
  <2>1. CASE push(p)
    BY <2>1 DEF push, Go, TypeOK, CalmInv, CalmIsStopped, PushersAreOut,
         LeftoversWereInFlight, threadVars, history
  <2>2. CASE pushBack(p)
    <3>1. /\ queue \in Seq(Items) /\ queue' = Append(queue, offered(p))
          /\ at[p] = "push" /\ at'[p] = "idle"
          /\ \A q \in Producers : at'[q] = "push" => at[q] = "push"
          /\ UNCHANGED <<stopped, calm>>
      <4>1. queue \in Seq(Items) /\ at \in [Threads -> WorkerSteps \cup {"idle", "push", "spawn"}]
        BY DEF TypeOK
      <4>2. /\ queue' = Append(queue, offered(p)) /\ at[p] = "push" /\ UNCHANGED <<stopped, calm>>
        BY <2>2 DEF pushBack, threadVars, history
      <4>3. at'[p] = "idle" /\ \A q \in Producers : at'[q] = "push" => at[q] = "push"
        BY <2>2, <4>1 DEF pushBack, Go
      <4> QED BY <4>1, <4>2, <4>3
    <3>2. /\ DOMAIN queue = 1 .. Len(queue) /\ DOMAIN queue' = 1 .. (Len(queue) + 1)
          /\ Len(queue) \in Nat
          /\ \A i \in 1 .. Len(queue) : queue'[i] = queue[i]
          /\ queue'[Len(queue) + 1] = offered(p)
      BY <3>1
    <3>3. offered(p).by = p
      BY DEF offered
    <3>4. ASSUME calm', NEW i \in DOMAIN queue', NEW j \in DOMAIN queue', i # j
          PROVE  queue'[i].by # queue'[j].by
      <4>1. calm /\ \A n \in 1 .. Len(queue) : queue[n].by # p
        BY <3>1, <3>2, <3>4 DEF CalmInv, PushersAreOut
      <4>2. CASE i \in 1 .. Len(queue) /\ j \in 1 .. Len(queue)
        BY <3>2, <3>4, <4>1, <4>2 DEF CalmInv, LeftoversWereInFlight
      <4>3. CASE i = Len(queue) + 1 /\ j \in 1 .. Len(queue)
        BY <3>2, <3>3, <4>1, <4>3
      <4>4. CASE j = Len(queue) + 1 /\ i \in 1 .. Len(queue)
        BY <3>2, <3>3, <4>1, <4>4
      <4> QED BY <3>2, <3>4, <4>2, <4>3, <4>4
    <3>5. LeftoversWereInFlight'
      BY <3>4 DEF LeftoversWereInFlight
    <3>6. ASSUME calm', NEW q \in Producers, at'[q] = "push", NEW i \in DOMAIN queue'
          PROVE  queue'[i].by # q
      <4>1. q # p /\ at[q] = "push" /\ calm
        BY <3>1, <3>6
      <4> QED BY <3>2, <3>3, <4>1 DEF CalmInv, PushersAreOut
    <3>7. PushersAreOut' /\ CalmIsStopped'
      BY <3>1, <3>6 DEF PushersAreOut, CalmIsStopped, CalmInv
    <3> QED BY <3>5, <3>7 DEF CalmInv
  <2> QED BY <1>2, <2>1, <2>2 DEF Producer
<1>3. CASE OwnerGoesOn \/ start \/ stop
  <2>1. CASE start
    BY <2>1 DEF start, CalmInv, CalmIsStopped, PushersAreOut, LeftoversWereInFlight
  <2>2. CASE OwnerGoesOn \/ stop
    <3>1. UNCHANGED <<queue, calm>> /\ (stopped => stopped')
      BY <2>2 DEF OwnerGoesOn, spawn, stop, stopProgress, StopTest, StopSet, StopNotify,
           StopJoin, history
    <3>2. \A p \in Producers : at'[p] = "push" => at[p] = "push"
      <4>1. CASE \E w \in Workers : spawn(w)
        BY <4>1 DEF spawn, TypeOK
      <4>2. CASE stopProgress(Owner) \/ stop
        <5>1. (\E v \in Workers : \E l \in WorkerSteps : at' = [at EXCEPT ![v] = l]) \/ at' = at
          BY <4>2 DEF stop, stopProgress, StopTest, StopSet, StopNotify, StopJoin, notifyOne, Go
        <5> QED BY <5>1 DEF TypeOK
      <4> QED BY <2>2, <4>1, <4>2 DEF OwnerGoesOn
    <3> QED BY <3>1, <3>2, QuietKeepsCalm
  <2> QED BY <1>3, <2>1, <2>2
<1>4. CASE clear
  <2>1. queue' = <<>> /\ DOMAIN queue' = {}
    BY <1>4 DEF clear
  <2>2. stopped' = stopped /\ calm' = (calm \/ stopped)
    BY <1>4 DEF clear, threadVars
  <2>3. calm' => stopped'
    BY <2>2 DEF CalmInv, CalmIsStopped
  <2> QED BY <2>1, <2>3 DEF CalmInv, CalmIsStopped, PushersAreOut, LeftoversWereInFlight
<1>5. CASE removeWithPredicate
  <2>1. PICK k \in 1 .. Len(queue) : queue' = SubSeq(queue, k + 1, Len(queue))
    BY <1>5 DEF removeWithPredicate
  <2> QED BY <1>5, <2>1, RemovalKeepsCalm DEF removeWithPredicate, threadVars, TypeOK
<1>6. CASE UNCHANGED vars
  BY <1>6 DEF vars, threadVars, history, CalmInv, CalmIsStopped, PushersAreOut,
       LeftoversWereInFlight
<1> QED BY <1>1, <1>2, <1>3, <1>4, <1>5, <1>6 DEF Next, OwnerCalls

\* Once the owner has stopped and cleared the queue, at most one item of each producer
\* can still get in, however the threads interleave: the push that had passed the test
\* of stopped_ (Queue::pushBack) when stop() set the flag.
THEOREM OnlyPushesInFlightRemain == Spec => []LeftoversWereInFlight
<1>1. Init => CalmInv
  BY DEF Init, CalmInv, CalmIsStopped, PushersAreOut, LeftoversWereInFlight
<1>2. TInv /\ CalmInv /\ [Next]_vars => CalmInv'
  BY NextKeepsCalm
<1>3. CalmInv => LeftoversWereInFlight
  BY DEF CalmInv
<1> QED BY <1>1, <1>2, <1>3, TypeInvariance, PTL DEF Spec

-----------------------------------------------------------------------------
(* One worker.                                                             *)

\* As long as no handler has stopped the queue: the owner alone is in stop(), it joins
\* the worker before it leaves, and between the start and the spawn there is none.
OwnerStops == \A w \in Workers : stopping[w] = "no"
StoppedIsJoined == stopped /\ stopping[Owner] \in {"no", "set"} => thread = None
SpawnsFirst == at[Owner] = "spawn" => thread = None /\ ~stopped /\ stopping[Owner] = "no"

Joinable == \A w \in Workers : Alive(w) => thread = w

WorkerInv == OwnerStops /\ StoppedIsJoined /\ SpawnsFirst /\ Joinable

LEMMA NextKeepsWorkerInv ==
  ASSUME TInv, WorkerInv, ~selfStop', [Next]_vars
  PROVE  WorkerInv'
<1> USE TheThreads DEF TInv
<1>1. ASSUME NEW w \in Workers, Worker(w) \/ spuriousWake(w) PROVE WorkerInv'
  <2>1. ~stopProgress(w)
    BY DEF WorkerInv, OwnerStops, stopProgress, StopSet, StopNotify, StopJoin
  <2>2. UNCHANGED threadVars
    BY <1>1, <2>1 DEF Worker, loop, lock, test, park, check, pop, handle, spuriousWake
  <2>3. Alive(w) /\ \E l \in WorkerSteps : at' = [at EXCEPT ![w] = l]
    BY <1>1, <2>1 DEF Worker, loop, lock, test, park, check, pop, handle, spuriousWake, Go, At, Alive
  <2> QED BY <2>2, <2>3 DEF threadVars, TypeOK, WorkerInv, OwnerStops, StoppedIsJoined,
            SpawnsFirst, Joinable, Alive
<1>2. ASSUME NEW w \in Workers, stopFromHandler(w) PROVE WorkerInv'
  BY <1>2 DEF stopFromHandler
<1>3. ASSUME NEW p \in Producers, Producer(p) PROVE WorkerInv'
  <2>1. UNCHANGED threadVars
    BY <1>3 DEF Producer, push, pushBack
  <2>2. at'[Owner] = at[Owner]
    BY <1>3 DEF Producer, push, pushBack, Go, TypeOK
  <2>3. \A w \in Workers : at'[w] # at[w] => at[w] = "waiting"
    BY <1>3 DEF Producer, push, pushBack, Go, TypeOK
  <2> QED BY <2>1, <2>2, <2>3 DEF threadVars, WorkerInv, OwnerStops, StoppedIsJoined,
            SpawnsFirst, Joinable, Alive
<1>4. CASE start
  BY <1>4 DEF start, Go, At, TypeOK, WorkerInv, OwnerStops, StoppedIsJoined, SpawnsFirst,
       Joinable, Alive
<1>5. ASSUME NEW w \in Workers, spawn(w) PROVE WorkerInv'
  <2>1. \A v \in Workers : ~Alive(v)
    BY <1>5 DEF spawn, At, WorkerInv, SpawnsFirst, Joinable
  <2> QED BY <1>5, <2>1 DEF spawn, At, TypeOK, WorkerInv, OwnerStops, StoppedIsJoined,
            SpawnsFirst, Joinable, Alive
<1>6. CASE stop
  BY <1>6 DEF stop, StopTest, TypeOK, WorkerInv, OwnerStops, StoppedIsJoined, SpawnsFirst,
       Joinable, Alive
<1>7. CASE StopSet(Owner)
  BY <1>7 DEF StopSet, TypeOK, WorkerInv, OwnerStops, StoppedIsJoined, SpawnsFirst,
       Joinable, Alive
<1>8. CASE StopNotify(Owner)
  <2>1. \A w \in Workers : at'[w] # at[w] => at[w] = "waiting"
    BY <1>8 DEF StopNotify, notifyOne, Go, TypeOK
  <2>2. at'[Owner] = at[Owner]
    BY <1>8 DEF StopNotify, notifyOne, Go, TypeOK
  <2>3. stopping' = [stopping EXCEPT ![Owner] = "join"] /\ UNCHANGED <<stopped, thread>>
    BY <1>8 DEF StopNotify
  <2>4. stopping[Owner] = "notify"
    BY <1>8 DEF StopNotify
  <2> QED BY <2>1, <2>2, <2>3, <2>4 DEF TypeOK, WorkerInv, OwnerStops, StoppedIsJoined,
            SpawnsFirst, Joinable, Alive
<1>9. CASE StopJoin(Owner)
  <2>1. \A w \in Workers : ~Alive(w)
    BY <1>9 DEF StopJoin, WorkerInv, Joinable
  <2> QED BY <1>9, <2>1 DEF StopJoin, TypeOK, WorkerInv, OwnerStops, StoppedIsJoined,
            SpawnsFirst, Joinable, Alive
<1>10. CASE clear \/ removeWithPredicate \/ UNCHANGED vars
  BY <1>10 DEF clear, removeWithPredicate, vars, threadVars, WorkerInv, OwnerStops,
       StoppedIsJoined, SpawnsFirst, Joinable, Alive
<1> QED BY <1>1, <1>2, <1>3, <1>4, <1>5, <1>6, <1>7, <1>8, <1>9, <1>10
        DEF Next, OwnerGoesOn, OwnerCalls, stopProgress

\* No step but a handler's stop() sets selfStop, and none resets it.
LEMMA SelfStopStays ==
  ASSUME [Next]_vars, selfStop PROVE selfStop'
BY DEF Next, Worker, Producer, OwnerGoesOn, OwnerCalls, stopProgress, loop, lock, test, park,
   check, pop, handle, spuriousWake, stopFromHandler, push, pushBack, start, spawn, stop,
   StopTest, StopSet, StopNotify, StopJoin, clear, removeWithPredicate, vars, history

\* As long as no handler calls stop(), the queue is run by the thread stop() joins.
THEOREM WorkersInvariance == Spec => [](~selfStop => WorkerInv)
<1>1. Init => (~selfStop => WorkerInv)
  BY TheThreads DEF Init, WorkerInv, OwnerStops, StoppedIsJoined, SpawnsFirst, Joinable, Alive
<1>2. TInv /\ (~selfStop => WorkerInv) /\ [Next]_vars => (~selfStop => WorkerInv)'
  BY NextKeepsWorkerInv, SelfStopStays
<1> QED BY <1>1, <1>2, TypeInvariance, PTL DEF Spec

\* As long as no handler has called stop(), a running worker is the one stop() joins: no
\* item is handed out after stop() has returned, and start() never has two workers.
THEOREM TheWorkerIsJoinable == Spec => []OneWorker
<1>1. (~selfStop => WorkerInv) => OneWorker
  BY DEF WorkerInv, Joinable, OneWorker
<1> QED BY <1>1, WorkersInvariance, PTL
-----------------------------------------------------------------------------
(* The order of the items.                                                 *)

\* An item of p numbered n was offered, and before the one p is about to add.
InTime(p, n) == n <= pushes[p] /\ (at[p] = "push" => n < pushes[p])

\* The items of one producer are queued in the order of their numbers, ...
QueueInOrder ==
  \A i \in DOMAIN queue :
    /\ InTime(queue[i].by, queue[i].n)
    /\ \A j \in DOMAIN queue : i < j /\ queue[i].by = queue[j].by => queue[i].n < queue[j].n

\* ... those in hand come before the queued ones, and are in one hand, ...
HandsInOrder ==
  \A w \in Workers : hand[w] \in Items =>
    /\ InTime(hand[w].by, hand[w].n)
    /\ \A i \in DOMAIN queue : queue[i].by = hand[w].by => hand[w].n < queue[i].n
    /\ \A v \in Workers \ {w} : hand[v] # hand[w]
HandsAreFull == \A w \in Workers : hand[w] # None => at[w] = "handle"

\* ... and with one worker those that were handled come before both.
LastInOrder ==
  \A p \in Producers :
    /\ InTime(p, last[p])
    /\ \A i \in DOMAIN queue : queue[i].by = p => last[p] < queue[i].n
    /\ \A w \in Workers : hand[w] \in Items /\ hand[w].by = p => last[p] < hand[w].n

\* The one worker finds at the pop what it found at the test, if nobody removed it.
EmptyIsRaced ==
  \A w \in Workers : (at[w] = "pop" /\ queue = <<>>) \/ hand[w] = Blank => w \in raced

OrderInv ==
  /\ QueueInOrder /\ HandsInOrder /\ HandsAreFull
  /\ ~selfStop => LastInOrder /\ EmptyIsRaced

\* Nothing is offered, taken or handled; what is removed is removed at the front.
Drops ==
  /\ UNCHANGED <<hand, pushes, last>>
  /\ \E d \in Nat : \A j \in DOMAIN queue' : j + d \in DOMAIN queue /\ queue'[j] = queue[j + d]
  /\ \A p \in Producers : at'[p] = "push" => at[p] = "push"
  /\ \A w \in Workers : at[w] = "handle" => at'[w] = "handle"

LEMMA DropsKeepOrder ==
  ASSUME TInv, OrderInv, Drops, queue' \in Seq(Items), selfStop => selfStop',
         ~selfStop' => EmptyIsRaced'
  PROVE  OrderInv'
<1>1. PICK d \in Nat : \A j \in DOMAIN queue' : j + d \in DOMAIN queue /\ queue'[j] = queue[j + d]
  BY DEF Drops
<1>2. /\ DOMAIN queue = 1 .. Len(queue) /\ Len(queue) \in Nat
      /\ DOMAIN queue' = 1 .. Len(queue') /\ Len(queue') \in Nat
      /\ \A i \in DOMAIN queue : queue[i] \in Items
  BY DEF TInv, TypeOK
<1>3. /\ UNCHANGED <<hand, pushes, last>>
      /\ \A p \in Producers : at'[p] = "push" => at[p] = "push"
  BY DEF Drops
<1>4. \A it \in Items : it.by \in Producers /\ it.n \in Nat
  BY DEF Items
<1>5. QueueInOrder'
  <2>1. ASSUME NEW i \in DOMAIN queue' PROVE InTime(queue[i].by, queue[i].n)'
    <3>1. /\ queue'[i] = queue[i + d] /\ queue[i + d] \in Items
          /\ InTime(queue[i + d].by, queue[i + d].n)
      BY <1>1, <1>2 DEF OrderInv, QueueInOrder
    <3> QED BY <1>3, <1>4, <3>1 DEF InTime
  <2>2. ASSUME NEW i \in DOMAIN queue', NEW j \in DOMAIN queue', i < j,
               queue'[i].by = queue'[j].by
        PROVE  queue'[i].n < queue'[j].n
    <3>1. i + d < j + d
      BY <1>2, <2>2
    <3> QED BY <1>1, <2>2, <3>1 DEF OrderInv, QueueInOrder
  <2> QED BY <2>1, <2>2 DEF QueueInOrder
<1>6. HandsInOrder'
  <2> SUFFICES ASSUME NEW w \in Workers, hand[w] \in Items
               PROVE  /\ InTime(hand[w].by, hand[w].n)'
                      /\ \A i \in DOMAIN queue' :
                           queue'[i].by = hand[w].by => hand[w].n < queue'[i].n
                      /\ \A v \in Workers \ {w} : hand[v] # hand[w]
    BY <1>3 DEF HandsInOrder
  <2>1. /\ InTime(hand[w].by, hand[w].n)
        /\ \A i \in DOMAIN queue : queue[i].by = hand[w].by => hand[w].n < queue[i].n
        /\ \A v \in Workers \ {w} : hand[v] # hand[w]
    BY DEF OrderInv, HandsInOrder
  <2>2. InTime(hand[w].by, hand[w].n)'
    BY <1>3, <1>4, <2>1 DEF InTime
  <2>3. ASSUME NEW i \in DOMAIN queue', queue'[i].by = hand[w].by
        PROVE  hand[w].n < queue'[i].n
    <3>1. i + d \in DOMAIN queue /\ queue'[i] = queue[i + d]
      BY <1>1
    <3> QED BY <2>1, <2>3, <3>1
  <2> QED BY <2>1, <2>2, <2>3
<1>7. HandsAreFull'
  BY <1>3 DEF OrderInv, HandsAreFull, Drops
<1>8. ASSUME ~selfStop' PROVE LastInOrder'
  <2>1. \A p \in Producers : last[p] \in Nat
    BY DEF TInv, TypeOK
  <2> QED BY <1>1, <1>2, <1>3, <1>8, <2>1 DEF OrderInv, LastInOrder, InTime
<1> QED BY <1>5, <1>6, <1>7, <1>8 DEF OrderInv

LEMMA PushKeepsOrder ==
  ASSUME TInv, OrderInv, NEW p \in Producers, push(p) PROVE OrderInv'
<1> USE TheThreads DEF TInv, TypeOK
<1>1. /\ UNCHANGED <<queue, hand, last, raced, selfStop>>
      /\ pushes' = [pushes EXCEPT ![p] = @ + 1] /\ at[p] = "idle"
      /\ \A t \in Threads \ {p} : at'[t] = at[t]
  BY DEF push, Go, history
<1>2. \A q \in Producers : \A n \in Nat :
        n <= pushes[q] /\ (at[q] = "push" => n < pushes[q])
          => n <= pushes'[q] /\ (at'[q] = "push" => n < pushes'[q])
  BY <1>1, ItemAssumption
<1>3. /\ \A it \in Items : it.by \in Producers /\ it.n \in Nat
      /\ \A i \in DOMAIN queue : queue[i] \in Items
      /\ \A q \in Producers : last[q] \in Nat
  <2>1. \A q \in Producers : last[q] \in Nat
    OBVIOUS
  <2>2. \A it \in Items : it.by \in Producers /\ it.n \in Nat
    BY DEF Items
  <2> QED BY <2>1, <2>2
<1>4. QueueInOrder'
  BY <1>1, <1>2, <1>3 DEF OrderInv, QueueInOrder, InTime
<1>5. HandsInOrder' /\ HandsAreFull'
  BY <1>1, <1>2, <1>3 DEF OrderInv, HandsInOrder, HandsAreFull, InTime
<1>6. ~selfStop => LastInOrder' /\ EmptyIsRaced'
  BY <1>1, <1>2, <1>3 DEF OrderInv, LastInOrder, EmptyIsRaced, InTime
<1> QED BY <1>1, <1>4, <1>5, <1>6 DEF OrderInv

LEMMA PushBackKeepsOrder ==
  ASSUME TInv, OrderInv, NEW p \in Producers, pushBack(p) PROVE OrderInv'
<1> USE TheThreads DEF TInv
<1>1. /\ queue \in Seq(Items) /\ queue' = Append(queue, offered(p))
      /\ at[p] = "push" /\ at'[p] = "idle"
      /\ \A q \in Producers : at'[q] = "push" => at[q] = "push"
      /\ \A w \in Workers : at'[w] = at[w] \/ (at[w] = "waiting" /\ at'[w] = "lock")
      /\ UNCHANGED <<hand, pushes, last, raced, selfStop>>
  <2>1. queue \in Seq(Items) /\ at \in [Threads -> WorkerSteps \cup {"idle", "push", "spawn"}]
    BY DEF TypeOK
  <2>2. /\ queue' = Append(queue, offered(p)) /\ at[p] = "push"
        /\ UNCHANGED <<hand, pushes, last, raced, selfStop>>
    BY DEF pushBack, history
  <2>3. /\ at'[p] = "idle" /\ \A q \in Producers : at'[q] = "push" => at[q] = "push"
        /\ \A w \in Workers : at'[w] = at[w] \/ (at[w] = "waiting" /\ at'[w] = "lock")
    BY <2>1 DEF pushBack, Go
  <2> QED BY <2>1, <2>2, <2>3
<1>2. /\ offered(p) \in Items /\ offered(p).by = p /\ offered(p).n = pushes[p]
      /\ pushes[p] \in Nat
  BY <1>1, ItemAssumption DEF offered, Items, TypeOK, PushersHaveItems
<1>3. /\ DOMAIN queue = 1 .. Len(queue) /\ Len(queue) \in Nat
      /\ DOMAIN queue' = 1 .. Len(queue) + 1
      /\ \A i \in DOMAIN queue : queue'[i] = queue[i] /\ queue[i] \in Items
      /\ queue'[Len(queue) + 1] = offered(p)
  BY <1>1, <1>2
<1>4. /\ \A it \in Items : it.by \in Producers /\ it.n \in Nat
      /\ \A q \in Producers : last[q] \in Nat
  BY DEF Items, TypeOK
<1>5. \A n \in Nat : InTime(p, n) => n < pushes[p]
  BY <1>1 DEF InTime
<1>6. QueueInOrder'
  <2>1. ASSUME NEW i \in DOMAIN queue' PROVE InTime(queue[i].by, queue[i].n)'
    <3>1. CASE i \in DOMAIN queue
      BY <1>1, <1>3, <1>4, <3>1 DEF OrderInv, QueueInOrder, InTime
    <3>2. CASE i = Len(queue) + 1
      BY <1>1, <1>2, <1>3, <3>2 DEF InTime
    <3> QED BY <1>3, <3>1, <3>2
  <2>2. ASSUME NEW i \in DOMAIN queue', NEW j \in DOMAIN queue', i < j,
               queue'[i].by = queue'[j].by
        PROVE  queue'[i].n < queue'[j].n
    <3>1. i \in DOMAIN queue
      BY <1>3, <2>2
    <3>2. CASE j \in DOMAIN queue
      BY <1>3, <2>2, <3>1, <3>2 DEF OrderInv, QueueInOrder
    <3>3. CASE j = Len(queue) + 1
      BY <1>2, <1>3, <1>4, <1>5, <2>2, <3>1, <3>3 DEF OrderInv, QueueInOrder
    <3> QED BY <1>3, <3>2, <3>3
  <2> QED BY <2>1, <2>2 DEF QueueInOrder
<1>7. HandsInOrder'
  BY <1>1, <1>2, <1>3, <1>4 DEF OrderInv, HandsInOrder, InTime
<1>8. HandsAreFull'
  BY <1>1 DEF OrderInv, HandsAreFull
<1>9. ASSUME ~selfStop PROVE LastInOrder' /\ EmptyIsRaced'
  <2>1. LastInOrder'
    BY <1>1, <1>2, <1>3, <1>4, <1>9 DEF OrderInv, LastInOrder, InTime
  <2>2. queue' # <<>>
    BY <1>3
  <2> QED BY <1>1, <1>9, <2>1, <2>2 DEF OrderInv, EmptyIsRaced
<1> QED BY <1>1, <1>6, <1>7, <1>8, <1>9 DEF OrderInv

LEMMA PopKeepsOrder ==
  ASSUME TInv, OrderInv, ~selfStop => WorkerInv, NEW w \in Workers, pop(w)
  PROVE  OrderInv'
<1> USE TheThreads DEF TInv
<1>1. /\ at[w] = "pop" /\ at'[w] = "handle"
      /\ \A t \in Threads \ {w} : at'[t] = at[t]
      /\ UNCHANGED <<pushes, last, raced, selfStop>>
      /\ hand' = [hand EXCEPT ![w] = hand'[w]]
      /\ hand[w] = None
  BY DEF pop, At, Go, TypeOK, history, OrderInv, HandsAreFull
<1>2. \A q \in Producers : at'[q] = at[q]
  BY <1>1
<1>3. HandsAreFull'
  BY <1>1 DEF OrderInv, HandsAreFull, TypeOK
<1>4. ~selfStop => \A v \in Workers : at[v] # "pop" \/ v = w
  BY <1>1 DEF WorkerInv, Joinable, Alive
<1>5. CASE queue = <<>>
  <2>1. hand'[w] = Blank /\ queue' = queue
    BY <1>5 DEF pop, TypeOK
  <2>2. QueueInOrder' /\ HandsInOrder'
    <3>1. QueueInOrder'
      BY <1>5, <2>1 DEF QueueInOrder
    <3>2. \A v \in Workers : hand'[v] \in Items => v # w /\ hand'[v] = hand[v]
      BY <1>1, <2>1, BlankAssumption DEF TypeOK
    <3> SUFFICES ASSUME NEW v \in Workers, hand'[v] \in Items
                 PROVE  /\ InTime(hand[v].by, hand[v].n)'
                        /\ \A u \in Workers \ {v} : hand'[u] # hand[v]
      BY <1>5, <2>1, <3>1, <3>2 DEF HandsInOrder
    <3>3. hand[v].by \in Producers /\ hand[v].n \in Nat
      BY <3>2 DEF Items
    <3>4. /\ InTime(hand[v].by, hand[v].n)
          /\ \A u \in Workers \ {v} : hand[u] # hand[v]
      BY <3>2 DEF OrderInv, HandsInOrder
    <3>5. \A u \in Workers \ {v} : hand'[u] # hand[v]
      BY <1>1, <2>1, <3>2, <3>4, BlankAssumption
    <3>6. InTime(hand[v].by, hand[v].n)'
      BY <1>1, <1>2, <3>2, <3>3, <3>4 DEF InTime
    <3> QED BY <3>5, <3>6
  <2>3. ASSUME ~selfStop PROVE LastInOrder' /\ EmptyIsRaced'
    <3>1. /\ \A v \in Workers \ {w} : hand'[v] = hand[v] /\ at'[v] = at[v]
          /\ hand'[w] \notin Items
      BY <1>1, <2>1, BlankAssumption DEF TypeOK
    <3>2. LastInOrder'
      BY <1>1, <1>2, <2>1, <2>3, <3>1 DEF OrderInv, LastInOrder, InTime
    <3>3. EmptyIsRaced'
      BY <1>1, <1>5, <2>1, <2>3, <3>1 DEF OrderInv, EmptyIsRaced
    <3> QED BY <3>2, <3>3
  <2> QED BY <1>1, <1>3, <2>2, <2>3 DEF OrderInv
<1>6. CASE queue # <<>>
  <2>1. /\ hand'[w] = queue[1] /\ queue' = Tail(queue) /\ queue \in Seq(Items)
    BY <1>6 DEF pop, TypeOK
  <2>2. /\ 1 \in DOMAIN queue /\ \A i \in DOMAIN queue : queue[i] \in Items /\ i \in Nat
        /\ \A i \in DOMAIN queue' : /\ i \in Nat /\ i + 1 \in DOMAIN queue /\ 1 < i + 1
                                    /\ queue'[i] = queue[i + 1]
        /\ \A i, j \in DOMAIN queue' : i < j => i + 1 < j + 1
    BY <1>6, <2>1
  <2>3. QueueInOrder'
    BY <1>1, <1>2, <2>2 DEF OrderInv, QueueInOrder, InTime, Items
  <2>4. HandsInOrder'
    <3>1. /\ InTime(hand[w].by, hand[w].n)'
          /\ \A i \in DOMAIN queue' : queue'[i].by = hand'[w].by => hand'[w].n < queue'[i].n
      BY <1>1, <1>2, <2>1, <2>2 DEF OrderInv, QueueInOrder, InTime, Items
    <3>2. ASSUME NEW v \in Workers \ {w}, hand[v] \in Items
          PROVE  /\ InTime(hand[v].by, hand[v].n)
                 /\ \A i \in DOMAIN queue' : queue'[i].by = hand[v].by => hand[v].n < queue'[i].n
                 /\ hand'[v] = hand[v] /\ hand[v] # hand'[w]
      <4>1. hand[v].by \in Producers /\ hand[v].n \in Nat
        BY <3>2 DEF Items
      <4>2. hand[v] # queue[1]
        BY <2>2, <3>2, <4>1 DEF OrderInv, HandsInOrder
      <4> QED BY <1>1, <1>2, <2>1, <2>2, <3>2, <4>1, <4>2 DEF OrderInv, HandsInOrder, InTime, TypeOK
    <3>3. \A v \in Workers \ {w} : hand'[v] = hand[v] /\ hand'[v] # hand'[w]
      BY <1>1, <2>1, <2>2, <3>2 DEF TypeOK
    <3>4. ASSUME NEW u \in Workers, hand'[u] \in Items
          PROVE  /\ InTime(hand[u].by, hand[u].n)'
                 /\ \A i \in DOMAIN queue' : queue'[i].by = hand'[u].by => hand'[u].n < queue'[i].n
                 /\ \A v \in Workers \ {u} : hand'[v] # hand'[u]
      <4>1. CASE u = w
        BY <3>1, <3>3, <4>1
      <4>2. CASE u # w
        <5>1. hand'[u] = hand[u] /\ hand[u].by \in Producers
          BY <3>3, <3>4, <4>2 DEF Items
        <5>2. InTime(hand[u].by, hand[u].n)'
          BY <1>1, <1>2, <3>2, <3>4, <4>2, <5>1 DEF InTime
        <5>3. \A v \in Workers \ {u} : hand'[v] # hand'[u]
          BY <3>3, <3>4, <4>2, <5>1 DEF OrderInv, HandsInOrder
        <5> QED BY <3>2, <3>4, <4>2, <5>1, <5>2, <5>3
      <4> QED BY <4>1, <4>2
    <3> QED BY <3>4 DEF HandsInOrder
  <2>5. ASSUME ~selfStop PROVE LastInOrder' /\ EmptyIsRaced'
    <3>1. LastInOrder'
      <4>1. \A p \in Producers : InTime(p, last[p])'
        BY <1>1, <1>2, <2>5 DEF OrderInv, LastInOrder, InTime
      <4>2. \A v \in Workers : hand'[v] = IF v = w THEN queue[1] ELSE hand[v]
        BY <1>1, <2>1 DEF TypeOK
      <4> QED BY <1>1, <2>2, <2>5, <4>1, <4>2 DEF OrderInv, LastInOrder
    <3>2. EmptyIsRaced'
      BY <1>1, <1>4, <2>1, <2>2, <2>5, BlankAssumption DEF OrderInv, EmptyIsRaced, TypeOK
    <3> QED BY <3>1, <3>2
  <2> QED BY <1>1, <1>3, <2>3, <2>4, <2>5 DEF OrderInv
<1> QED BY <1>5, <1>6

LEMMA HandleKeepsOrder ==
  ASSUME TInv, OrderInv, ~selfStop => WorkerInv, NEW w \in Workers, handle(w)
  PROVE  OrderInv' /\ (~selfStop => \A p \in Producers : last'[p] # last[p] => last'[p] > last[p])
<1> USE TheThreads DEF TInv, TypeOK
<1>1. /\ UNCHANGED <<queue, pushes, raced, selfStop>>
      /\ at[w] = "handle" /\ \A t \in Threads \ {w} : at'[t] = at[t]
      /\ at'[w] = "loop"
      /\ hand' = [hand EXCEPT ![w] = None]
  BY DEF handle, At, Go
<1>2. \A q \in Producers : at'[q] = at[q]
  BY <1>1
<1>3. QueueInOrder' /\ HandsAreFull'
  <2>0. \A i \in DOMAIN queue : queue[i] \in Items
    OBVIOUS
  <2>1. \A i \in DOMAIN queue : queue[i].by \in Producers
    BY <2>0 DEF Items
  <2>2. QueueInOrder'
    BY <1>1, <1>2, <2>1 DEF OrderInv, QueueInOrder, InTime
  <2> QED BY <1>1, <2>2 DEF OrderInv, HandsAreFull
<1>4. HandsInOrder'
  BY <1>1, <1>2, BlankAssumption DEF OrderInv, HandsInOrder, InTime, Items
<1>5. ASSUME ~selfStop
      PROVE  /\ LastInOrder' /\ EmptyIsRaced'
             /\ \A p \in Producers : last'[p] # last[p] => last'[p] > last[p]
  <2>1. \A v \in Workers \ {w} : hand[v] = None
    <3>1. \A v \in Workers : at[v] = "handle" => v = w
      BY <1>1, <1>5 DEF WorkerInv, Joinable, Alive
    <3> QED BY <3>1 DEF OrderInv, HandsAreFull
  <2>2. EmptyIsRaced'
    BY <1>1, <1>5, BlankAssumption DEF OrderInv, EmptyIsRaced
  <2>3. \A v \in Workers : hand'[v] \notin Items
    BY <1>1, <2>1, BlankAssumption
  <2>4. CASE hand[w] \in Items
    <3>1. last' = [last EXCEPT ![hand[w].by] = hand[w].n] /\ hand[w].by \in Producers
      BY <2>4 DEF handle, Items
    <3>2. /\ last[hand[w].by] < hand[w].n /\ InTime(hand[w].by, hand[w].n)
          /\ \A i \in DOMAIN queue : queue[i].by = hand[w].by => hand[w].n < queue[i].n
      BY <1>5, <2>4, <3>1 DEF OrderInv, HandsInOrder, LastInOrder
    <3>3. LastInOrder'
      BY <1>1, <1>2, <1>5, <2>3, <3>1, <3>2 DEF OrderInv, LastInOrder, InTime
    <3> QED BY <2>2, <3>1, <3>2, <3>3
  <2>5. CASE hand[w] \notin Items
    <3>1. last' = last
      BY <2>5 DEF handle
    <3> QED BY <1>1, <1>2, <1>5, <2>2, <2>3, <3>1 DEF OrderInv, LastInOrder, InTime
  <2> QED BY <2>4, <2>5
<1> QED BY <1>1, <1>3, <1>4, <1>5 DEF OrderInv

\* The other steps of a worker and those of the owner.
LEMMA OthersKeepOrder ==
  ASSUME TInv, OrderInv,
         \/ OwnerGoesOn \/ OwnerCalls
         \/ \E w \in Workers : /\ Worker(w) \/ spuriousWake(w) \/ stopFromHandler(w)
                               /\ ~pop(w) /\ ~handle(w)
         \/ UNCHANGED vars
  PROVE  OrderInv'
<1> USE TheThreads DEF TInv
<1>1. queue' = queue \/ clear \/ removeWithPredicate
  BY DEF OwnerGoesOn, OwnerCalls, Worker, stopProgress, loop, lock, test, park, check,
       spuriousWake, stopFromHandler, start, spawn, stop, StopTest, StopSet, StopNotify,
       StopJoin, vars
<1>2. /\ UNCHANGED <<hand, pushes, last>>
      /\ selfStop => selfStop'
  BY DEF OwnerGoesOn, OwnerCalls, Worker, stopProgress, loop, lock, test, park, check,
       spuriousWake, stopFromHandler, start, spawn, stop, StopTest, StopSet, StopNotify,
       StopJoin, clear, removeWithPredicate, vars, history
<1>3. /\ \A p \in Producers : at'[p] = at[p]
      /\ \A w \in Workers : /\ at[w] = "handle" => at'[w] = "handle"
                            /\ at'[w] = "pop" => at[w] = "pop" \/ (check(w) /\ queue # <<>>)
  <2>1. CASE start \/ \E w \in Workers : spawn(w)
    BY <2>1 DEF start, spawn, At, Go, TypeOK
  <2>2. CASE \E t \in Workers \cup {Owner} : stopProgress(t)
    BY <2>2 DEF stopProgress, StopSet, StopNotify, StopJoin, notifyOne, Go, TypeOK
  <2>3. CASE \E w \in Workers : loop(w) \/ lock(w) \/ test(w) \/ park(w) \/ spuriousWake(w)
    BY <2>3 DEF loop, lock, test, park, spuriousWake, At, Go, TypeOK
  <2>4. CASE \E w \in Workers : check(w)
    BY <2>4 DEF check, At, Go, TypeOK
  <2>5. CASE stop \/ clear \/ removeWithPredicate \/ UNCHANGED vars
               \/ \E w \in Workers : stopFromHandler(w)
    BY <2>5 DEF stop, stopFromHandler, StopTest, clear, removeWithPredicate, vars
  <2> QED BY <2>1, <2>2, <2>3, <2>4, <2>5 DEF OwnerGoesOn, OwnerCalls, Worker
<1>4. queue \in Seq(Items) /\ Len(queue) \in Nat /\ DOMAIN queue = 1 .. Len(queue)
  BY DEF TypeOK
<1>5. /\ queue' \in Seq(Items)
      /\ \E d \in Nat : \A j \in DOMAIN queue' : j + d \in DOMAIN queue /\ queue'[j] = queue[j + d]
  <2>1. CASE queue' = queue
    <3>1. \A j \in DOMAIN queue' : j + 0 \in DOMAIN queue /\ queue'[j] = queue[j + 0]
      BY <1>4, <2>1
    <3> QED BY <1>4, <2>1, <3>1
  <2>2. CASE clear
    BY <2>2 DEF clear
  <2>3. CASE removeWithPredicate
    <3>1. PICK k \in 1 .. Len(queue) : queue' = SubSeq(queue, k + 1, Len(queue))
      BY <2>3 DEF removeWithPredicate
    <3>2. /\ queue' \in Seq(Items) /\ Len(queue') = Len(queue) - k
          /\ \A j \in 1 .. Len(queue') : queue'[j] = queue[j + k]
          /\ DOMAIN queue' = 1 .. Len(queue')
      <4>1. k + 1 \in Int /\ Len(queue) \in Int /\ k \in Nat /\ k <= Len(queue)
        BY <1>4
      <4>2. \A i \in k + 1 .. Len(queue) : queue[i] \in Items
        BY <1>4, <4>1
      <4>3. queue' \in Seq(Items)
        BY <3>1, <4>1, <4>2, SubSeqProperties
      <4>4. Len(queue') = Len(queue) - k
        BY <3>1, <4>1, <4>2, SubSeqProperties
      <4>5. \A i \in 1 .. Len(queue) - (k + 1) + 1 : queue'[i] = queue[(k + 1) + i - 1]
        BY <1>4, <3>1, <4>1, SMTT(60)
      <4> QED BY <4>1, <4>3, <4>4, <4>5
    <3>3. \A j \in DOMAIN queue' : j + k \in DOMAIN queue /\ queue'[j] = queue[j + k]
      BY <1>4, <3>2
    <3>4. k \in Nat
      BY <1>4
    <3> QED BY <3>2, <3>3, <3>4
  <2> QED BY <1>1, <2>1, <2>2, <2>3
<1>6. ASSUME ~selfStop' PROVE EmptyIsRaced'
  <2>1. EmptyIsRaced
    BY <1>2, <1>6 DEF OrderInv
  <2>2. \A w \in Workers : w \in raced => w \in raced' \/ check(w)
    BY DEF OwnerGoesOn, OwnerCalls, Worker, stopProgress, loop, lock, test, park, check,
         spuriousWake, stopFromHandler, start, spawn, stop, StopTest, StopSet, StopNotify,
         StopJoin, clear, removeWithPredicate, vars, history
  <2>3. \A w \in Workers : clear \/ removeWithPredicate => (at[w] = "pop" => w \in raced')
    BY DEF clear, removeWithPredicate
  <2>4. \A w \in Workers : check(w) => hand[w] = None /\ queue' = queue
    BY DEF check, At, OrderInv, HandsAreFull
  <2> QED BY <1>1, <1>2, <1>3, <2>1, <2>2, <2>3, <2>4, BlankAssumption DEF EmptyIsRaced, check, At
<1>7. Drops
  BY <1>2, <1>3, <1>5 DEF Drops
<1> QED BY <1>2, <1>5, <1>6, <1>7, DropsKeepOrder

LEMMA NextKeepsOrder ==
  ASSUME TInv, OrderInv, ~selfStop => WorkerInv, [Next]_vars
  PROVE  OrderInv'
<1>1. CASE \E p \in Producers : Producer(p)
  BY <1>1, PushKeepsOrder, PushBackKeepsOrder DEF Producer
<1>2. CASE \E w \in Workers : pop(w) \/ handle(w)
  BY <1>2, PopKeepsOrder, HandleKeepsOrder
<1> QED BY <1>1, <1>2, OthersKeepOrder DEF Next

\* In every state what is handled, in hand, queued and about to be offered is in order.
THEOREM OrderInvariance == Spec => []OrderInv
<1>1. Init => OrderInv
  <2> SUFFICES ASSUME Init PROVE OrderInv
    OBVIOUS
  <2>1. /\ queue = <<>> /\ \A w \in Workers : hand[w] = None /\ at[w] = "unborn"
        /\ \A p \in Producers : last[p] = 0 /\ pushes[p] = 0 /\ at[p] = "idle"
    BY TheThreads DEF Init
  <2> QED BY <2>1, BlankAssumption DEF OrderInv, QueueInOrder, HandsInOrder, HandsAreFull,
           LastInOrder, EmptyIsRaced, InTime
<1>2. TInv /\ (~selfStop => WorkerInv) /\ OrderInv /\ [Next]_vars => OrderInv'
  BY NextKeepsOrder
<1> QED BY <1>1, <1>2, TypeInvariance, WorkersInvariance, PTL DEF Spec

\* The handler gets every item from one worker only (Queue::pop moves it out under the
\* mutex), and a default-constructed one only if the owner removed items between the wait
\* and the pop of Queue::run, or a handler called stop().
THEOREM WhatWasPushed == Spec => []HandedAsPushed
<1>1. OrderInv => HandedAsPushed
  <2> SUFFICES ASSUME OrderInv PROVE BlankOnlyIfRaced /\ HandedOnce
    BY DEF HandedAsPushed
  <2>1. BlankOnlyIfRaced
    BY DEF OrderInv, EmptyIsRaced, BlankOnlyIfRaced
  <2>2. ASSUME NEW v \in Workers, hand[v] \in Items, NEW i \in DOMAIN queue
        PROVE  queue[i] # hand[v]
    <3>1. hand[v].n \in Nat
      BY <2>2 DEF Items
    <3> QED BY <2>2, <3>1 DEF OrderInv, HandsInOrder
  <2>3. HandedOnce
    BY <2>2 DEF OrderInv, HandsInOrder, HandedOnce
  <2> QED BY <2>1, <2>3
<1> QED BY <1>1, OrderInvariance, PTL

\* With one worker the items of a producer are handled in the order of their push, each
\* once at most, across stop(), clear(), removeWithPredicate() and restarts.
THEOREM ItemsInOrder == Spec => HandledInOrder
<1> DEFINE Ordered ==
      ~selfStop => \A p \in Producers : last'[p] # last[p] => last'[p] > last[p]
<1>1. TInv /\ (~selfStop => WorkerInv) /\ OrderInv /\ [Next]_vars => [Ordered]_vars
  <2> SUFFICES ASSUME TInv, ~selfStop => WorkerInv, OrderInv, [Next]_vars PROVE Ordered
    OBVIOUS
  <2>1. (\E w \in Workers : handle(w)) \/ last' = last
    BY DEF Next, Worker, Producer, OwnerGoesOn, OwnerCalls, stopProgress, loop, lock, test,
         park, check, pop, spuriousWake, stopFromHandler, push, pushBack, start, spawn, stop,
         StopTest, StopSet, StopNotify, StopJoin, clear, removeWithPredicate, vars, history
  <2>2. CASE \E w \in Workers : handle(w)
    BY <2>2, HandleKeepsOrder
  <2>3. CASE last' = last
    BY <2>3
  <2> QED BY <2>1, <2>2, <2>3
<1> QED BY <1>1, TypeInvariance, WorkersInvariance, OrderInvariance, PTL DEF Spec, HandledInOrder
=============================================================================
