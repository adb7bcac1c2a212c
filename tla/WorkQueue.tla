------------------------------ MODULE WorkQueue ------------------------------
(***************************************************************************)
(* Queue<T> with a handler: producers push from their own threads, the     *)
(* owner starts, stops and clears it, and the thread start() spawns waits  *)
(* on cv_ and hands the items to handler_ one at a time. stopped_ is an    *)
(* atomic flag that is read and written without the mutex.                 *)
(***************************************************************************)
EXTENDS Naturals, Sequences

CONSTANTS Producers, \* threads that push
          Owner,     \* the thread that calls start, stop, clear, removeWithPredicate
          Workers,   \* the std::threads start() may spawn: bounds the starts
          None,      \* nobody: mutex_ is free, thread_ is not joinable, no item in hand
          Blank,     \* T(), what pop() returns when there is nothing to pop
          MaxItems   \* bound on the items of one producer

ASSUME WorkerAssumption ==
  /\ Workers \cap (Producers \cup {Owner}) = {}
  /\ Owner \notin Producers
  /\ None \notin Workers \cup Producers \cup {Owner}
ASSUME ItemAssumption == MaxItems \in Nat

VARIABLES
  stopped,  \* stopped_
  queue,    \* queue_, oldest first
  mutex,    \* who holds mutex_ between two of the steps below
  thread,   \* thread_, the worker that can be joined
  at,       \* at[t]: where thread t is
  stopping, \* stopping[t]: how far t is inside stop()
  hand,     \* hand[w]: the item worker w has popped and not yet handled
  pushes,   \* pushes[p]: how many items p has offered
  last,     \* history: last[p], the last item of p that was handled
  raced,    \* history: workers between wait() and pop() while items were removed
  missed,   \* history: stop() notified while the worker was about to wait
  calm,     \* history: the queue was cleared since it was stopped
  selfStop  \* history: a handler has called stop(), which detaches its thread

threadVars == <<stopped, thread, stopping>>
history    == <<last, raced, missed, calm, selfStop>>
vars == <<threadVars, queue, mutex, at, hand, pushes, history>>

Threads == Workers \cup Producers \cup {Owner}
Items == [by : Producers, n : 1 .. MaxItems]

ASSUME BlankAssumption == Blank # None /\ {Blank, None} \cap Items = {}

Go(t, l) == at' = [at EXCEPT ![t] = l]
At(t, l) == at[t] = l /\ stopping[t] = "no"
Alive(w) == at[w] \notin {"unborn", "exit"}

-----------------------------------------------------------------------------
(* The worker: while (!stopped_) run().                                    *)

loop(w) ==
  /\ At(w, "loop")
  /\ Go(w, IF stopped THEN "exit" ELSE "lock")
  /\ UNCHANGED <<threadVars, queue, mutex, hand, pushes, history>>

lock(w) ==
  /\ At(w, "lock") /\ mutex = None
  /\ mutex' = w
  /\ Go(w, "test")
  /\ UNCHANGED <<threadVars, queue, hand, pushes, history>>

\* the predicate of cv_.wait
waitPredicate == stopped \/ queue # <<>>

test(w) ==
  /\ At(w, "test")
  /\ Go(w, IF waitPredicate THEN "check" ELSE "park")
  /\ UNCHANGED <<threadVars, queue, mutex, hand, pushes, history>>

\* the wait itself, after the predicate was evaluated, releases the mutex
park(w) ==
  /\ At(w, "park")
  /\ mutex' = None
  /\ Go(w, "waiting")
  /\ UNCHANGED <<threadVars, queue, hand, pushes, history>>

spuriousWake(w) ==
  /\ At(w, "waiting")
  /\ Go(w, "lock")
  /\ UNCHANGED <<threadVars, queue, mutex, hand, pushes, history>>

check(w) ==
  /\ At(w, "check")
  /\ Go(w, IF queue = <<>> \/ stopped THEN "loop" ELSE "pop")
  /\ mutex' = None
  /\ raced' = raced \ {w}
  /\ UNCHANGED <<threadVars, queue, hand, pushes, last, missed, calm, selfStop>>

\* Mutant of pop: the item is copied, not removed.
popCopies(w) ==
  /\ At(w, "pop") /\ mutex = None
  /\ hand' = [hand EXCEPT ![w] = IF queue = <<>> THEN Blank ELSE Head(queue)]
  /\ Go(w, "handle")
  /\ UNCHANGED <<threadVars, queue, mutex, pushes, history>>

pop(w) ==
  /\ At(w, "pop") /\ mutex = None
  /\ IF queue = <<>> THEN hand' = [hand EXCEPT ![w] = Blank] /\ UNCHANGED queue
                     ELSE hand' = [hand EXCEPT ![w] = Head(queue)] /\ queue' = Tail(queue)
  /\ Go(w, "handle")
  /\ UNCHANGED <<threadVars, mutex, pushes, history>>

\* handler_ is given the item, and returns
handle(w) ==
  /\ At(w, "handle")
  /\ last' = IF hand[w] \in Items THEN [last EXCEPT ![hand[w].by] = hand[w].n] ELSE last
  /\ hand' = [hand EXCEPT ![w] = None]
  /\ Go(w, "loop")
  /\ UNCHANGED <<threadVars, queue, mutex, pushes, raced, missed, calm, selfStop>>

\* one waiting thread, if there is one, is woken
notifyOne ==
  IF \E w \in Workers : at[w] = "waiting"
    THEN \E w \in Workers : at[w] = "waiting" /\ Go(w, "lock")
    ELSE UNCHANGED at

-----------------------------------------------------------------------------
(* The producers.                                                          *)

offered(p) == [by |-> p, n |-> pushes[p]]

\* Mutant of push: the flag is not looked at.
pushUnchecked(p) ==
  /\ at[p] = "idle"
  /\ pushes[p] < MaxItems
  /\ pushes' = [pushes EXCEPT ![p] = @ + 1]
  /\ Go(p, "push")
  /\ UNCHANGED <<threadVars, queue, mutex, hand, history>>

\* if (stopped_) return; push(item, predicate) comes to the same: it holds the mutex for
\* the predicate, which changes nothing, and releases it before it calls push
push(p) ==
  /\ at[p] = "idle"
  /\ pushes[p] < MaxItems
  /\ pushes' = [pushes EXCEPT ![p] = @ + 1]
  /\ Go(p, IF stopped THEN "idle" ELSE "push")
  /\ UNCHANGED <<threadVars, queue, mutex, hand, history>>

\* Mutant of pushBack: nobody is woken.
pushBackSilently(p) ==
  /\ at[p] = "push" /\ mutex = None
  /\ queue' = Append(queue, offered(p))
  /\ Go(p, "idle")
  /\ UNCHANGED <<threadVars, mutex, hand, pushes, history>>

\* Mutant of pushBack: the newest item goes first.
pushBackInFront(p) ==
  /\ at[p] = "push" /\ mutex = None
  /\ queue' = <<offered(p)>> \o queue
  /\ \E a \in {at} \cup {[at EXCEPT ![w] = "lock"] : w \in {v \in Workers : at[v] = "waiting"}} :
       at' = [a EXCEPT ![p] = "idle"]
  /\ UNCHANGED <<threadVars, mutex, hand, pushes, history>>

pushBack(p) ==
  /\ at[p] = "push" /\ mutex = None
  /\ queue' = Append(queue, offered(p))
  /\ LET parked == {w \in Workers : at[w] = "waiting"} IN
     IF parked = {} THEN Go(p, "idle")
     ELSE \E w \in parked : at' = [at EXCEPT ![p] = "idle", ![w] = "lock"]
  /\ UNCHANGED <<threadVars, mutex, hand, pushes, history>>

-----------------------------------------------------------------------------
(* The owner, and stop(), which a handler may call too.                    *)

start ==
  /\ At(Owner, "idle")
  /\ stopped
  /\ \E w \in Workers : at[w] = "unborn"   \* the bound on starts
  /\ stopped' = FALSE
  /\ calm' = FALSE /\ missed' = FALSE
  /\ Go(Owner, "spawn")
  /\ UNCHANGED <<thread, stopping, queue, mutex, hand, pushes, last, raced, selfStop>>

\* assigning to a thread_ that is joinable ends the process: no step of this model
spawn(w) ==
  /\ At(Owner, "spawn") /\ thread = None
  /\ at[w] = "unborn"
  /\ thread' = w
  /\ at' = [at EXCEPT ![Owner] = "idle", ![w] = "loop"]
  /\ UNCHANGED <<stopped, stopping, queue, mutex, hand, pushes, history>>

\* if (stopped_) return;
StopTest(t) ==
  /\ stopping[t] = "no"
  /\ ~stopped
  /\ stopping' = [stopping EXCEPT ![t] = "set"]
  /\ UNCHANGED <<stopped, thread, queue, mutex, at, hand, pushes, last, raced, missed, calm>>

StopSet(t) ==
  /\ stopping[t] = "set"
  /\ stopped' = TRUE
  /\ stopping' = [stopping EXCEPT ![t] = "notify"]
  /\ UNCHANGED <<thread, queue, mutex, at, hand, pushes, history>>

\* Mutant of StopNotify: nobody is woken.
StopNotifyOmitted(t) ==
  /\ stopping[t] = "notify"
  /\ stopping' = [stopping EXCEPT ![t] = "join"]
  /\ UNCHANGED <<stopped, thread, queue, mutex, at, hand, pushes, history>>

StopNotify(t) ==
  /\ stopping[t] = "notify"
  /\ notifyOne
  /\ missed' = (missed \/ \E w \in Workers : at[w] = "park")
  /\ stopping' = [stopping EXCEPT ![t] = "join"]
  /\ UNCHANGED <<stopped, thread, queue, mutex, hand, pushes, last, raced, calm, selfStop>>

\* Mutant of StopJoin: the thread is left to itself.
StopDetaches(t) ==
  /\ stopping[t] = "join"
  /\ thread' = None
  /\ stopping' = [stopping EXCEPT ![t] = "no"]
  /\ UNCHANGED <<stopped, queue, mutex, at, hand, pushes, history>>

\* the thread is joined, or detached when it is the one that stops
StopJoin(t) ==
  /\ stopping[t] = "join"
  /\ thread \notin {t, None} => ~Alive(thread)
  /\ thread' = None
  /\ stopping' = [stopping EXCEPT ![t] = "no"]
  /\ UNCHANGED <<stopped, queue, mutex, at, hand, pushes, history>>

stopProgress(t) == StopSet(t) \/ StopNotify(t) \/ StopJoin(t)

stop == at[Owner] = "idle" /\ StopTest(Owner) /\ UNCHANGED selfStop
stopFromHandler(w) == at[w] = "handle" /\ StopTest(w) /\ selfStop' = TRUE

clear ==
  /\ At(Owner, "idle") /\ mutex = None
  /\ queue' = <<>>
  /\ calm' = (calm \/ stopped)
  /\ raced' = raced \cup {w \in Workers : at[w] = "pop"}
  /\ UNCHANGED <<threadVars, mutex, at, hand, pushes, last, missed, selfStop>>

\* the items at the front go as long as the predicate holds
removeWithPredicate ==
  /\ At(Owner, "idle") /\ mutex = None
  /\ \E k \in 1 .. Len(queue) : queue' = SubSeq(queue, k + 1, Len(queue))
  /\ raced' = raced \cup {w \in Workers : at[w] = "pop"}
  /\ UNCHANGED <<threadVars, mutex, at, hand, pushes, last, missed, calm, selfStop>>

-----------------------------------------------------------------------------
Init ==
  /\ stopped = TRUE /\ thread = None /\ queue = <<>> /\ mutex = None
  /\ at = [t \in Threads |-> IF t \in Workers THEN "unborn" ELSE "idle"]
  /\ stopping = [t \in Workers \cup {Owner} |-> "no"]
  /\ hand = [w \in Workers |-> None]
  /\ pushes = [p \in Producers |-> 0]
  /\ last = [p \in Producers |-> 0]
  /\ raced = {} /\ missed = FALSE /\ calm = TRUE /\ selfStop = FALSE

Worker(w) ==
  \/ loop(w) \/ lock(w) \/ test(w) \/ park(w) \/ check(w) \/ pop(w) \/ handle(w)
  \/ stopProgress(w)
Producer(p) == push(p) \/ pushBack(p)
OwnerGoesOn == (\E w \in Workers : spawn(w)) \/ stopProgress(Owner)
OwnerCalls == start \/ stop \/ clear \/ removeWithPredicate

Next ==
  \/ \E w \in Workers : Worker(w) \/ spuriousWake(w) \/ stopFromHandler(w)
  \/ \E p \in Producers : Producer(p)
  \/ OwnerGoesOn \/ OwnerCalls

\* Every thread that is not blocked goes on; spurious wake-ups may never happen, and
\* nothing makes the owner call or the producers push.
Fairness ==
  /\ \A w \in Workers : WF_vars(Worker(w))
  /\ \A p \in Producers : WF_vars(pushBack(p))
  /\ WF_vars(OwnerGoesOn)

Spec == Init /\ [][Next]_vars /\ Fairness

-----------------------------------------------------------------------------
(* Properties.                                                             *)

WorkerSteps == {"unborn", "loop", "lock", "test", "park", "waiting", "check", "pop",
                "handle", "exit"}

TypeOK ==
  /\ stopped \in BOOLEAN
  /\ queue \in Seq(Items)
  /\ mutex \in Workers \cup {None} /\ thread \in Workers \cup {None}
  /\ at \in [Threads -> WorkerSteps \cup {"idle", "push", "spawn"}]
  /\ \A w \in Workers : at[w] \in WorkerSteps
  /\ \A p \in Producers : at[p] \in {"idle", "push"}
  /\ at[Owner] \in {"idle", "spawn"}
  /\ stopping \in [Workers \cup {Owner} -> {"no", "set", "notify", "join"}]
  /\ hand \in [Workers -> Items \cup {Blank, None}]
  /\ pushes \in [Producers -> 0 .. MaxItems] /\ last \in [Producers -> 0 .. MaxItems]
  /\ raced \subseteq Workers /\ missed \in BOOLEAN /\ calm \in BOOLEAN /\ selfStop \in BOOLEAN

\* As long as no handler has called stop(), the thread that runs the handler is the one
\* that can be joined: once stop() has returned nothing is handed out, and start() never
\* adds a second worker or overwrites a joinable thread.
OneWorker == ~selfStop => \A w \in Workers : Alive(w) => thread = w

\* The items of one producer reach the handler in the order they were pushed, each at
\* most once, across stops and restarts (Queue::pushBack, popFront and run): as long as there
\* is one worker, that is no handler has called stop().
HandledInOrder ==
  [][~selfStop => \A p \in Producers : last'[p] # last[p] => last'[p] > last[p]]_vars

\* The handler is called with a default-constructed item only when the owner removed
\* items between the end of the wait and the pop (Queue::run releases the mutex there),
\* or when a handler has called stop() and two workers run.
BlankOnlyIfRaced == ~selfStop => \A w \in Workers : hand[w] = Blank => w \in raced

\* An item is in one place: never in the hands of two workers, nor in a worker's hands
\* and still queued.
HandedOnce ==
  \A v \in Workers : hand[v] \in Items =>
    /\ \A w \in Workers \ {v} : hand[w] # hand[v]
    /\ \A i \in DOMAIN queue : queue[i] # hand[v]

\* The handler is called with what was pushed, by one worker at a time.
HandedAsPushed == BlankOnlyIfRaced /\ HandedOnce

\* What a stopped queue that was cleared still gets are the pushes that had passed the
\* test of stopped_ before: one item of a producer at most.
LeftoversWereInFlight ==
  calm => \A i, j \in DOMAIN queue : i # j => queue[i].by # queue[j].by

\* stop() returns, unless it set the flag and notified between the worker's evaluation
\* of the wait predicate and its wait (stopped_ is not written under the mutex), or a
\* handler called stop() too.
StopReturns == stopping[Owner] = "join" ~> (stopping[Owner] = "no" \/ missed \/ selfStop)

\* A queue that runs empties, as long as no handler has called stop().
QueueIsServed == queue # <<>> ~> (queue = <<>> \/ stopped \/ selfStop)
=============================================================================
