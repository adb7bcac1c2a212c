--------------------------- MODULE SessionViewProofs ---------------------------
(***************************************************************************)
(* Proofs about SessionView, for any number of attempts and of calls: a    *)
(* view that stays running has a session.                                  *)
(***************************************************************************)
EXTENDS SessionView, TLAPS

-----------------------------------------------------------------------------
(* Types.                                                                  *)

Booleans ==
  /\ running \in BOOLEAN /\ stopRequested \in BOOLEAN /\ shouldReconnect \in BOOLEAN
  /\ reconnecting \in BOOLEAN /\ sessionReady \in BOOLEAN /\ host \in BOOLEAN
  /\ worker \in BOOLEAN /\ open \in BOOLEAN /\ restarts \in BOOLEAN

Places == /\ at \in [Threads -> Steps] /\ at[Media] \in {"done", "ask", "askSet", "close", "join"}
          /\ thread \in SocketThreads \cup {NoThread}

Waiting == main \in Seq(Blocks) /\ later \in [Blocks -> Nat]

Others == /\ role \in Roles /\ calls \in 0 .. MaxCalls
          /\ doing \in {"idle", "joinWorker", "closeSocket", "joinThread", "stopQueue"}

LEMMA TypeParts == TypeOK <=> Booleans /\ Places /\ Waiting /\ Others
  BY DEF TypeOK, Booleans, Places, Waiting, Others

LEMMA TypeInit == Init => TypeOK
<1> SUFFICES ASSUME Init PROVE TypeOK
  OBVIOUS
<1>1. Booleans
  BY DEF Init, Booleans
<1>4. Waiting
  <2>1. main \in Seq(Blocks)
    BY DEF Init
  <2>2. later \in [Blocks -> Nat]
    BY DEF Init
  <2> QED BY <2>1, <2>2 DEF Waiting
<1>2. Places
  BY DEF Init, Places, Threads, Steps
<1>3. Others
  BY CallAssumption DEF Init, Others
<1> QED BY <1>1, <1>2, <1>3, <1>4, TypeParts

(* What the actions put into the two queues of blocks.                     *)

LEMMA Posted ==
  ASSUME Waiting, NEW b \in Blocks, Post(b) PROVE Waiting'
  BY DEF Waiting, Post

LEMMA Delayed ==
  ASSUME Waiting, NEW b \in Blocks, NEW n \in Nat, later' = [later EXCEPT ![b] = n], UNCHANGED main
  PROVE  Waiting'
  BY DEF Waiting

LEMMA CloseKeepsWaiting == ASSUME Booleans, Waiting, socketDidClose PROVE Waiting'
<1>1. CASE shouldReconnect
  <2>1. later["reconnect"] + 1 \in Nat
    BY DEF Waiting, Blocks
  <2> QED BY <1>1, <2>1, Delayed DEF socketDidClose, Blocks
<1>2. CASE ~shouldReconnect
  BY <1>2, Posted DEF socketDidClose, Blocks
<1> QED BY <1>1, <1>2 DEF Booleans

LEMMA Going ==
  ASSUME Places, NEW t \in Threads, NEW l \in Steps, Go(t, l), UNCHANGED thread,
         t = Media => l \in {"done", "ask", "askSet", "close", "join"}
  PROVE  Places'
  BY DEF Places, Go, Threads

LEMMA ThreadsDiffer == Media \in Threads /\ \A g \in SocketThreads : g # Media /\ g \in Threads
  BY ThreadAssumption DEF Threads

(* The types, one part at a time.                                          *)

\* whoever requires a reconnection sets one flag at most
LEMMA Required ==
  ASSUME Booleans, NEW t, reconnectionRequired(t)
  PROVE  Booleans'
<1> SUFFICES UNCHANGED <<running, stopRequested, reconnecting, sessionReady, host, worker, open,
                        restarts>> /\ (shouldReconnect' = TRUE \/ UNCHANGED shouldReconnect)
  BY DEF Booleans
<1> QED BY DEF reconnectionRequired, askRead, askSet, flags, mainThread

LEMMA BooleansStep == ASSUME TypeOK, [Next]_vars PROVE Booleans'
<1>0. Booleans
  BY TypeParts
<1> USE <1>0 DEF Booleans, flags, session, mainThread
<1>1. ASSUME NEW g \in SocketThreads, SocketThread(g) PROVE Booleans'
  <2>1. CASE \/ resolve(g) \/ connectImpl(g) \/ chain(g) \/ close(g) \/ failedToConnect(g)
    <3>1. UNCHANGED <<flags, worker, restarts>> /\ (open' \in BOOLEAN \/ UNCHANGED open)
      BY <2>1 DEF resolve, connectImpl, chain, close, Closing, failedToConnect
    <3> QED BY <3>1
  <2>2. CASE reconnectionRequired(g)
    BY <2>2, Required
  <2>3. CASE socketDidConnect(g) \/ sessionStarted(g) \/ startMediaPacketRetriever(g)
    BY <2>3 DEF socketDidConnect, sessionStarted, startMediaPacketRetriever
  <2> QED BY <1>1, <2>1, <2>2, <2>3 DEF SocketThread
<1>2. ASSUME MediaFails \/ MediaThread PROVE Booleans'
  <2>1. CASE MediaFails \/ close(Media) \/ joinThread
    <3>1. UNCHANGED <<flags, worker, restarts>> /\ (open' \in BOOLEAN \/ UNCHANGED open)
      BY <2>1 DEF MediaFails, close, Closing, joinThread
    <3> QED BY <3>1
  <2>2. CASE reconnectionRequired(Media)
    BY <2>2, Required
  <2> QED BY <1>2, <2>1, <2>2 DEF MediaThread
<1>3. ASSUME MainThread PROVE Booleans'
  <2>1. CASE startWithHost
    BY <2>1 DEF startWithHost
  <2>2. CASE end
    BY <2>2 DEF end, StopUnless
  <2>3. CASE reconnectAfter
    BY <2>3 DEF reconnectAfter, ReconnectUnless
  <2>4. CASE joinWorker \/ closeSocket \/ mainJoinsThread \/ stopQueue
    <3>1. /\ UNCHANGED <<flags, restarts>> /\ (open' \in BOOLEAN \/ UNCHANGED open)
          /\ worker' \in BOOLEAN \/ UNCHANGED worker
      BY <2>4 DEF joinWorker, closeSocket, mainJoinsThread, stopQueue
    <3> QED BY <3>1
  <2> QED BY <1>3, <2>1, <2>2, <2>3, <2>4 DEF MainThread
<1>4. ASSUME Environment \/ (\E b \in Blocks : Due(b)) PROVE Booleans'
  <2>1. CASE callStart \/ callEnd \/ (\E b \in Blocks : Due(b))
    BY <2>1 DEF callStart, callEnd, Due
  <2>2. CASE Interruption
    BY <2>2 DEF Interruption
  <2> QED BY <1>4, <2>1, <2>2 DEF Environment
<1>5. CASE UNCHANGED vars
  BY <1>5 DEF vars, mainThread
<1> QED BY <1>1, <1>2, <1>3, <1>4, <1>5 DEF Next

LEMMA PlacesStep == ASSUME TypeOK, [Next]_vars PROVE Places'
<1>0. Places
  BY TypeParts
<1> USE <1>0, ThreadsDiffer DEF session, Steps
<1>1. ASSUME NEW g \in SocketThreads, SocketThread(g) PROVE Places'
  <2> SUFFICES UNCHANGED thread /\ \E l \in Steps : Go(g, l)
    BY Going
  <2> QED
    BY <1>1 DEF SocketThread, resolve, connectImpl, socketDidConnect, chain, sessionStarted,
       startMediaPacketRetriever, reconnectionRequired, askRead, askSet, close, Closing,
       failedToConnect
<1>2. ASSUME MediaFails \/ MediaThread PROVE Places'
  <2>1. CASE joinThread
    BY <2>1 DEF joinThread, Places, Go
  <2>2. CASE ~joinThread
    <3> SUFFICES /\ UNCHANGED thread
                 /\ \E l \in {"done", "ask", "askSet", "close", "join"} : Go(Media, l)
      BY Going
    <3> QED
      BY <1>2, <2>2 DEF Places, MediaFails, MediaThread, reconnectionRequired, askRead, askSet,
         close, Closing
  <2> QED BY <2>1, <2>2
<1>3. ASSUME MainThread PROVE Places'
  <2>1. CASE startWithHost
    <3>1. CASE running
      BY <3>1, <2>1 DEF startWithHost, Places
    <3>2. CASE ~running
      <4>1. PICK g \in SocketThreads : Go(g, "resolve") /\ thread' = g
        BY <2>1, <3>2 DEF startWithHost
      <4> QED BY <4>1 DEF Places, Go
    <3> QED BY <3>1, <3>2
  <2>2. CASE ~startWithHost
    BY <1>3, <2>2 DEF MainThread, end, StopUnless, reconnectAfter, ReconnectUnless, joinWorker,
       closeSocket, mainJoinsThread, stopQueue, Places
  <2> QED BY <2>1, <2>2
<1>4. ASSUME Environment \/ (\E b \in Blocks : Due(b)) PROVE Places'
  BY <1>4 DEF Environment, callStart, callEnd, Interruption, Due, Places
<1>5. CASE UNCHANGED vars
  BY <1>5 DEF vars, Places
<1> QED BY <1>1, <1>2, <1>3, <1>4, <1>5 DEF Next

LEMMA WaitingStep == ASSUME TypeOK, [Next]_vars PROVE Waiting'
<1>0. Booleans /\ Waiting
  BY TypeParts
<1> USE <1>0 DEF dispatch
<1>1. ASSUME UNCHANGED dispatch PROVE Waiting'
  BY <1>1 DEF Waiting
<1>2. ASSUME Taken, main # <<>> PROVE Waiting'
  BY <1>2 DEF Taken, Waiting
<1>3. ASSUME socketDidClose PROVE Waiting'
  BY <1>3, CloseKeepsWaiting
<1>4. ASSUME NEW g \in SocketThreads, SocketThread(g) PROVE Waiting'
  BY <1>1, <1>3, <1>4 DEF SocketThread, resolve, connectImpl, socketDidConnect, chain,
     sessionStarted, startMediaPacketRetriever, reconnectionRequired, askRead, askSet, close,
     Closing, failedToConnect
<1>5. ASSUME MediaFails \/ MediaThread PROVE Waiting'
  BY <1>1, <1>3, <1>5 DEF MediaFails, MediaThread, reconnectionRequired, askRead, askSet, close,
     Closing, joinThread
<1>6. ASSUME startWithHost PROVE Waiting'
  <2>1. CASE running
    BY <1>2, <1>6, <2>1 DEF startWithHost, Taking
  <2>2. CASE ~running
    <3>1. Tail(main) \in Seq(Blocks) /\ "end" \in Blocks /\ later["reconnect"] + 1 \in Nat
      BY <1>6 DEF Waiting, startWithHost, Taking, Blocks
    <3>2. main' \in Seq(Blocks)
      BY <3>1, <1>6, <2>2 DEF startWithHost
    <3>3. later' \in [Blocks -> Nat]
      BY <3>1, <1>6, <2>2 DEF startWithHost, Waiting
    <3> QED BY <3>2, <3>3 DEF Waiting
  <2> QED BY <2>1, <2>2
<1>7. ASSUME end \/ reconnectAfter PROVE Waiting'
  BY <1>2, <1>7 DEF end, StopUnless, reconnectAfter, ReconnectUnless, Taking
<1>8. ASSUME joinWorker \/ closeSocket \/ mainJoinsThread PROVE Waiting'
  BY <1>1, <1>3, <1>8 DEF joinWorker, closeSocket, mainJoinsThread
<1>9. ASSUME stopQueue PROVE Waiting'
  <2>1. later["start"] + 1 \in Nat /\ "start" \in Blocks
    BY DEF Waiting, Blocks
  <2> QED BY <1>9, <1>1, <2>1, Delayed DEF stopQueue, Waiting
<1>10. ASSUME NEW b \in Blocks, Due(b) PROVE Waiting'
  <2>1. later[b] - 1 \in Nat /\ Append(main, b) \in Seq(Blocks)
    BY <1>10 DEF Waiting, Due
  <2> QED BY <1>10, <2>1 DEF Due, Waiting
<1>11. ASSUME Environment PROVE Waiting'
  BY <1>1, <1>11, Posted DEF Environment, callStart, callEnd, Interruption, Blocks
<1>12. CASE UNCHANGED vars
  BY <1>1, <1>12 DEF vars
<1> QED BY <1>4, <1>5, <1>6, <1>7, <1>8, <1>9, <1>10, <1>11, <1>12 DEF Next, MainThread

LEMMA OthersStep == ASSUME TypeOK, [Next]_vars PROVE Others'
<1>0. Others
  BY TypeParts
<1> USE <1>0, CallAssumption DEF Others, mainThread, counted
<1>1. ASSUME NEW g \in SocketThreads, SocketThread(g) PROVE Others'
  BY <1>1 DEF SocketThread, resolve, connectImpl, socketDidConnect, chain, sessionStarted,
     startMediaPacketRetriever, reconnectionRequired, askRead, askSet, close, Closing,
     failedToConnect
<1>2. ASSUME MediaFails \/ MediaThread PROVE Others'
  BY <1>2 DEF MediaFails, MediaThread, reconnectionRequired, askRead, askSet, close, Closing,
     joinThread
<1>3. ASSUME MainThread PROVE Others'
  BY <1>3 DEF MainThread, startWithHost, end, StopUnless, EndSession, reconnectAfter,
     ReconnectUnless, joinWorker, closeSocket, mainJoinsThread, stopQueue
<1>4. ASSUME Environment \/ (\E b \in Blocks : Due(b)) PROVE Others'
  BY <1>4 DEF Environment, Calling, callStart, callEnd, Interruption, Due
<1>5. CASE UNCHANGED vars
  BY <1>5 DEF vars
<1> QED BY <1>1, <1>2, <1>3, <1>4, <1>5 DEF Next

\* Every variable keeps its type: a thread is where the session's code can put it, and the
\* main thread's blocks and delays are those the view posts.
THEOREM TypeCorrect == Spec => []TypeOK
<1>1. TypeOK /\ [Next]_vars => TypeOK'
  BY BooleansStep, PlacesStep, WaitingStep, OthersStep
     DEF TypeOK, Booleans, Places, Waiting, Others
<1> QED BY <1>1, TypeInit, PTL DEF Spec

-----------------------------------------------------------------------------
(* The inductive invariant.                                                *)

\* A running view is not in the middle of a block that stops it, and it could reconnect.
RunningIsIdle == running => doing = "idle" /\ host /\ ~stopRequested

\* Only a running view is announced as ready, unless its session started while it was ended.
ReadyWhileRunning == ~running /\ ~late => ~sessionReady

\* The watcher alone joins its worker and starts a retriever, which runs while the view does.
RetrieverRuns ==
  /\ doing = "joinWorker" => role = "watcher"
  /\ \A g \in SocketThreads : at[g] = "retriever" => role = "watcher"
  /\ role = "watcher" /\ worker /\ ~late => running \/ doing = "joinWorker"

\* startWithHost's assumption outlasts it: there is one socket thread at a time.
OneAttempt == \A g, h \in SocketThreads : Alive(g) /\ Alive(h) => g = h

\* The worker has nothing to send or to receive on until the attempt is over, so it
\* cannot close the socket under the thread that is connecting.
MediaComesAfter ==
  ~late /\ running => \A g \in SocketThreads : Alive(g) =>
    /\ at[Media] = "done"
    /\ role = "watcher" => ~worker
    /\ at[g] # "retriever" => ~sessionReady

\* From the callback of the connection to the close that the same thread makes, the
\* socket of a running view is open; and where the worker is about to close it.
Connected == {"connected", "chain", "started", "retriever", "ask", "askSet", "close"}
OpenOnceConnected ==
  ~late /\ running => /\ \A g \in SocketThreads : at[g] \in Connected => open
                      /\ at[Media] \in {"ask", "askSet", "close"} => open

\* A running view has a thread at work, a connection, or a block that will end it or
\* reconnect it; if it has none of these then two requests to reconnect crossed.
Has(s, b) == \E i \in 1 .. Len(s) : s[i] = b
Pending(b) == later[b] > 0 \/ Has(main, b)
SomethingFollows ==
  ~late /\ running =>
    \/ \E g \in SocketThreads : Alive(g)
    \/ open \/ Pending("end")
    \/ shouldReconnect /\ (reconnecting \/ Pending("reconnect"))

\* What is true between any two steps of the view.
IInv ==
  /\ TypeOK /\ RunningIsIdle /\ ReadyWhileRunning /\ RetrieverRuns /\ OneAttempt
  /\ WorkerFollowsRunning /\ MediaComesAfter /\ OpenOnceConnected /\ SomethingFollows

LEMMA InvInit == Init => IInv
<1> SUFFICES ASSUME Init PROVE IInv
  OBVIOUS
<1>1. TypeOK
  BY TypeInit
<1>2. at[Media] = "done" /\ \A g \in SocketThreads : at[g] = "unborn"
  BY ThreadsDiffer DEF Init
<1>3. RunningIsIdle /\ ReadyWhileRunning /\ WorkerFollowsRunning /\ MediaComesAfter
      /\ OpenOnceConnected /\ SomethingFollows
  BY DEF Init, RunningIsIdle, ReadyWhileRunning, WorkerFollowsRunning, MediaComesAfter,
     OpenOnceConnected, SomethingFollows
<1>4. RetrieverRuns /\ OneAttempt
  BY <1>2 DEF Init, RetrieverRuns, OneAttempt, Alive
<1> QED BY <1>1, <1>3, <1>4 DEF IInv

(* What stays pending.                                                     *)

LEMMA Appended ==
  ASSUME NEW s \in Seq(Blocks), NEW b \in Blocks, NEW c \in Blocks
  PROVE  Has(Append(s, b), c) <=> Has(s, c) \/ c = b
  BY DEF Has

LEMMA Removed ==
  ASSUME NEW s \in Seq(Blocks), s # <<>>, NEW c \in Blocks, Has(s, c), Head(s) # c
  PROVE  Has(Tail(s), c)
<1>1. PICK i \in 1 .. Len(s) : s[i] = c
  BY DEF Has
<1>2. i # 1
  BY <1>1
<1>3. i - 1 \in 1 .. Len(Tail(s)) /\ Tail(s)[i - 1] = c
  BY <1>1, <1>2
<1> QED BY <1>3 DEF Has

LEMMA PostedIsPending ==
  ASSUME Waiting, NEW b \in Blocks, Post(b)
  PROVE  Pending(b)' /\ \A c \in Blocks : Pending(c) => Pending(c)'
<1>1. \A c \in Blocks : Has(Append(main, b), c) <=> Has(main, c) \/ c = b
  BY Appended DEF Waiting
<1> QED BY <1>1 DEF Post, Pending

\* A lost connection is followed by the block that ends the session or reconnects.
LEMMA ClosedIsPending ==
  ASSUME Booleans, Waiting, socketDidClose
  PROVE  /\ shouldReconnect => Pending("reconnect")'
         /\ ~shouldReconnect => Pending("end")'
         /\ \A c \in Blocks : Pending(c) => Pending(c)'
<1>1. CASE shouldReconnect
  <2>1. later' = [later EXCEPT !["reconnect"] = later["reconnect"] + 1] /\ UNCHANGED main
    BY <1>1 DEF socketDidClose
  <2>2. \A c \in Blocks : later[c] \in Nat /\ later'[c] >= later[c]
    BY <2>1 DEF Waiting
  <2>3. later'["reconnect"] > 0
    BY <2>1 DEF Waiting, Blocks
  <2> QED BY <1>1, <2>1, <2>2, <2>3 DEF Pending
<1>2. CASE ~shouldReconnect
  BY <1>2, PostedIsPending DEF socketDidClose, Blocks
<1> QED BY <1>1, <1>2 DEF Booleans

LEMMA TakenStays ==
  ASSUME Waiting, NEW b \in Blocks, Taking(b), Taken
  PROVE  \A c \in Blocks : c # b /\ Pending(c) => Pending(c)'
<1>1. \A c \in Blocks : c # b /\ Has(main, c) => Has(Tail(main), c)
  BY Removed DEF Waiting, Taking
<1> QED BY <1>1 DEF Pending, Taken

-----------------------------------------------------------------------------
(* The steps of the session's threads.                                     *)

Parts == RunningIsIdle /\ ReadyWhileRunning /\ RetrieverRuns /\ OneAttempt
         /\ WorkerFollowsRunning /\ MediaComesAfter /\ OpenOnceConnected

LEMMA SocketSteps ==
  ASSUME IInv, NEW g \in SocketThreads,
         resolve(g) \/ connectImpl(g) \/ socketDidConnect(g) \/ chain(g)
  PROVE  Parts' /\ SomethingFollows'
<1> USE ThreadsDiffer DEF IInv, TypeOK, flags, mainThread, counted, dispatch, Parts,
    RunningIsIdle, ReadyWhileRunning, RetrieverRuns, OneAttempt, WorkerFollowsRunning,
    MediaComesAfter, OpenOnceConnected, SomethingFollows, Connected, Alive, Go
<1>1. ASSUME resolve(g) PROVE Parts' /\ SomethingFollows'
  BY <1>1 DEF resolve
<1>2. ASSUME connectImpl(g) PROVE Parts' /\ SomethingFollows'
  BY <1>2 DEF connectImpl
<1>3. ASSUME socketDidConnect(g) PROVE Parts' /\ SomethingFollows'
  BY <1>3 DEF socketDidConnect
<1>4. ASSUME chain(g) PROVE Parts' /\ SomethingFollows'
  BY <1>4 DEF chain
<1> QED BY <1>1, <1>2, <1>3, <1>4

\* The session starts while its connection is open, and the retriever after it.
LEMMA SessionStarts ==
  ASSUME IInv, NEW g \in SocketThreads,
         sessionStarted(g) \/ startMediaPacketRetriever(g)
  PROVE  Parts' /\ SomethingFollows'
<1>1. /\ at[g] \in {"started", "retriever"}
      /\ at' = [at EXCEPT ![g] = IF at[g] = "started" /\ role = "watcher" THEN "retriever"
                                 ELSE "done"]
      /\ UNCHANGED <<role, running, stopRequested, shouldReconnect, host, open, main, later, doing>>
      /\ ~late' => ~late /\ running
      /\ at[g] = "started" => UNCHANGED worker
      /\ at[g] = "retriever" => UNCHANGED <<sessionReady, reconnecting>> /\ worker'
  BY DEF sessionStarted, startMediaPacketRetriever, Go, flags, dispatch, counted
<1>2. /\ \A u \in SocketThreads : u # g => at'[u] = at[u]
      /\ at'[Media] = at[Media] /\ at'[g] \in {"retriever", "done"} /\ Alive(g)
      /\ at'[g] = "retriever" => role = "watcher" /\ at[g] = "started"
  BY <1>1, ThreadsDiffer DEF IInv, TypeOK, Alive
<1>3. \A u \in SocketThreads : Alive(u)' => u = g /\ at'[g] = "retriever"
  BY <1>2 DEF IInv, OneAttempt, Alive
<1>4. RunningIsIdle' /\ ReadyWhileRunning'
  BY <1>1 DEF IInv, RunningIsIdle, ReadyWhileRunning
<1>5. RetrieverRuns' /\ OneAttempt'
  BY <1>1, <1>2, <1>3 DEF IInv, RetrieverRuns, OneAttempt, Alive
<1>6. WorkerFollowsRunning'
  BY <1>1 DEF IInv, WorkerFollowsRunning, RetrieverRuns
<1>7. ~late' => open /\ at[Media] = "done" /\ (role = "watcher" /\ at[g] = "started" => ~worker)
  BY <1>1, <1>2 DEF IInv, OpenOnceConnected, Connected, MediaComesAfter
<1>8. MediaComesAfter' /\ OpenOnceConnected' /\ SomethingFollows'
  BY <1>1, <1>2, <1>3, <1>7 DEF MediaComesAfter, OpenOnceConnected, SomethingFollows
<1> QED BY <1>4, <1>5, <1>6, <1>8 DEF Parts

\* Its callback asks for a reconnection: the thread goes on, and the connection stays.
LEMMA Asks ==
  ASSUME IInv, NEW t \in Threads, reconnectionRequired(t)
  PROVE  Parts' /\ SomethingFollows'
<1> DEFINE asking == {"ask", "askSet"} failing == {"failAsk", "failAskSet"}
<1>1. /\ shouldReconnect => shouldReconnect'
      /\ UNCHANGED <<role, running, stopRequested, reconnecting, sessionReady, host, worker,
                     open, main, later, doing, late>>
  BY DEF reconnectionRequired, askRead, askSet, flags, dispatch, mainThread, counted
<1>9. /\ at[t] \in asking \cup failing
      /\ \E l \in asking \cup failing \cup {"close", "failClose"} :
           Go(t, l) /\ (at[t] \in asking <=> l \in asking \cup {"close"})
  <2>1. CASE at[t] = "ask" \/ at[t] = "askSet"
    BY <2>1 DEF reconnectionRequired, askRead, askSet
  <2>2. CASE at[t] = "failAsk" \/ at[t] = "failAskSet"
    BY <2>2 DEF reconnectionRequired, askRead, askSet
  <2> QED BY <2>1, <2>2 DEF reconnectionRequired, askRead, askSet
<1>2. PICK l \in asking \cup failing \cup {"close", "failClose"} :
        Go(t, l) /\ (at[t] \in asking <=> l \in asking \cup {"close"})
  BY <1>9
<1>3. /\ at' = [at EXCEPT ![t] = l] /\ at \in [Threads -> Steps] /\ l # "done" /\ l # "unborn"
      /\ l # "retriever" /\ at[t] # "retriever" /\ Alive(t) /\ Alive(t)'
      /\ \A u \in Threads : Alive(u)' <=> Alive(u)
  BY <1>9, <1>2 DEF IInv, TypeOK, Go, Alive
<1>4. RunningIsIdle' /\ ReadyWhileRunning' /\ WorkerFollowsRunning'
  BY <1>1 DEF IInv, RunningIsIdle, ReadyWhileRunning, WorkerFollowsRunning
<1>5. RetrieverRuns' /\ OneAttempt'
  BY <1>1, <1>3, ThreadsDiffer DEF IInv, RetrieverRuns, OneAttempt
<1>6. OpenOnceConnected'
  BY <1>1, <1>2, <1>3, <1>9, ThreadsDiffer DEF IInv, OpenOnceConnected, Connected
<1>7. MediaComesAfter'
  <2> SUFFICES ASSUME ~late, running, NEW g \in SocketThreads, Alive(g)
               PROVE  /\ at'[Media] = "done" /\ (role = "watcher" => ~worker)
                      /\ at'[g] # "retriever" => ~sessionReady
    BY <1>1, <1>3, ThreadsDiffer DEF MediaComesAfter
  <2>1. /\ at[Media] = "done" /\ (role = "watcher" => ~worker)
        /\ at[g] # "retriever" => ~sessionReady
    BY DEF IInv, MediaComesAfter
  <2>2. t # Media
    BY <1>3, <2>1 DEF Alive
  <2> QED BY <1>3, <2>1, <2>2, ThreadsDiffer
<1>8. SomethingFollows'
  <2>1. Pending("end")' = Pending("end") /\ Pending("reconnect")' = Pending("reconnect")
    BY <1>1 DEF Pending
  <2>2. (\E g \in SocketThreads : Alive(g)) <=> (\E g \in SocketThreads : Alive(g)')
    BY <1>3, ThreadsDiffer
  <2> QED BY <1>1, <2>1, <2>2 DEF IInv, SomethingFollows
<1> QED BY <1>4, <1>5, <1>6, <1>7, <1>8 DEF Parts

\* The thread that loses the connection of a running view posts what follows.
LEMMA Closes ==
  ASSUME IInv, NEW t \in Threads, close(t)
  PROVE  Parts' /\ SomethingFollows'
<1>1. /\ at[t] = "close" /\ (open' => open) /\ (\E l \in {"join", "done"} : Go(t, l))
      /\ t # Media => Go(t, "done")
      /\ UNCHANGED <<role, running, stopRequested, shouldReconnect, reconnecting, sessionReady,
                     host, worker, doing, late>>
  BY DEF close, Closing, flags, mainThread, counted, IInv, TypeOK
<1>2. PICK l \in {"join", "done"} : Go(t, l) /\ (t # Media => l = "done")
  BY <1>1
<1>3. at' = [at EXCEPT ![t] = l] /\ at \in [Threads -> Steps] /\ Alive(t)
  BY <1>1, <1>2 DEF IInv, TypeOK, Go, Alive
<1>4. \A g \in SocketThreads : (Alive(g)' => Alive(g)) /\ (at'[g] \in {at[g], "done"})
  BY <1>2, <1>3, ThreadsDiffer DEF Alive
<1>5. RunningIsIdle' /\ ReadyWhileRunning' /\ WorkerFollowsRunning'
  BY <1>1 DEF IInv, RunningIsIdle, ReadyWhileRunning, WorkerFollowsRunning
<1>6. RetrieverRuns' /\ OneAttempt'
  BY <1>1, <1>4 DEF IInv, RetrieverRuns, OneAttempt
<1>7. ASSUME ~late, running, NEW g \in SocketThreads, Alive(g)' PROVE FALSE
  <2>1. Alive(g) /\ at[Media] = "done"
    BY <1>4, <1>7 DEF IInv, MediaComesAfter
  <2>2. t \in SocketThreads /\ t = g
    BY <1>1, <1>3, <2>1 DEF IInv, OneAttempt, Threads
  <2> QED BY <1>2, <1>3, <1>7, <2>2, <2>1, <1>1 DEF Alive
<1>8. MediaComesAfter'
  BY <1>1, <1>7 DEF MediaComesAfter
<1>9. OpenOnceConnected'
  <2>1. \A g \in SocketThreads : at'[g] \in Connected => Alive(g)'
    BY DEF Connected, Alive
  <2>2. ASSUME ~late, running PROVE at'[Media] \notin {"ask", "askSet", "close"}
    <3>1. CASE t = Media
      BY <1>2, <1>3, <3>1
    <3>2. CASE t # Media
      BY <1>3, <2>2, <3>2, ThreadsDiffer DEF IInv, MediaComesAfter, Threads
    <3> QED BY <3>1, <3>2
  <2> QED BY <1>1, <1>7, <2>1, <2>2 DEF OpenOnceConnected
<1>10. SomethingFollows'
  <2> SUFFICES ASSUME ~late, running PROVE SomethingFollows'
    BY <1>1 DEF SomethingFollows
  <2>1. open
    BY <1>1, ThreadsDiffer DEF IInv, OpenOnceConnected, Connected, Threads
  <2>2. socketDidClose
    BY <2>1 DEF close, Closing
  <2> QED BY <1>1, <2>2, ClosedIsPending, TypeParts DEF IInv, SomethingFollows, Booleans
<1> QED BY <1>5, <1>6, <1>8, <1>9, <1>10 DEF Parts

\* A connection that failed is announced as closed, and what follows is posted.
LEMMA Fails ==
  ASSUME IInv, NEW g \in SocketThreads, failedToConnect(g)
  PROVE  Parts' /\ SomethingFollows'
<1>1. /\ at' = [at EXCEPT ![g] = "done"] /\ at[g] = "failClose"
      /\ UNCHANGED <<role, running, stopRequested, shouldReconnect, reconnecting, sessionReady,
                     host, worker, open, doing, late>>
  BY DEF failedToConnect, Go, flags, mainThread, counted
<1>2. \A u \in SocketThreads : (Alive(u)' => Alive(u)) /\ at'[u] \in {at[u], "done"}
  BY <1>1 DEF IInv, TypeOK, Alive
<1>3. at'[Media] = at[Media]
  BY <1>1, ThreadsDiffer DEF IInv, TypeOK
<1>4. RunningIsIdle' /\ ReadyWhileRunning' /\ WorkerFollowsRunning'
  BY <1>1 DEF IInv, RunningIsIdle, ReadyWhileRunning, WorkerFollowsRunning
<1>5. RetrieverRuns' /\ OneAttempt'
  BY <1>1, <1>2 DEF IInv, RetrieverRuns, OneAttempt
<1>6. \A u \in SocketThreads : Alive(u)' => at'[u] = at[u]
  BY <1>2 DEF Alive
<1>7. MediaComesAfter' /\ OpenOnceConnected'
  BY <1>1, <1>2, <1>3, <1>6 DEF IInv, MediaComesAfter, OpenOnceConnected, Connected
<1>8. SomethingFollows'
  BY <1>1, ClosedIsPending, TypeParts DEF IInv, failedToConnect, SomethingFollows, Booleans
<1> QED BY <1>4, <1>5, <1>7, <1>8 DEF Parts

\* The worker fails only where the session has started; its connection is still open.
LEMMA MediaSteps ==
  ASSUME IInv, MediaFails \/ joinThread
  PROVE  Parts' /\ SomethingFollows'
<1>1. /\ \E l \in {"ask", "close", "done"} :
             Go(Media, l) /\ (l # "done" => open /\ worker /\ (role = "broadcaster" => sessionReady)
                                            /\ at[Media] = "done")
      /\ UNCHANGED <<role, running, stopRequested, shouldReconnect, reconnecting, sessionReady,
                     host, worker, open, main, later, doing, late>>
  BY DEF MediaFails, joinThread, Go, flags, dispatch, mainThread, counted
<1>2. PICK l \in {"ask", "close", "done"} :
        /\ at' = [at EXCEPT ![Media] = l]
        /\ l # "done" => /\ open /\ worker /\ at[Media] = "done"
                         /\ role = "broadcaster" => sessionReady
  BY <1>1 DEF Go
<1>3. /\ at'[Media] = l
      /\ \A g \in SocketThreads : at'[g] = at[g] /\ (Alive(g)' <=> Alive(g))
  BY <1>2, ThreadsDiffer DEF IInv, TypeOK, Alive
<1>4. RunningIsIdle' /\ ReadyWhileRunning' /\ WorkerFollowsRunning'
  BY <1>1 DEF IInv, RunningIsIdle, ReadyWhileRunning, WorkerFollowsRunning
<1>5. RetrieverRuns' /\ OneAttempt'
  BY <1>1, <1>3 DEF IInv, RetrieverRuns, OneAttempt
<1>6. OpenOnceConnected'
  BY <1>1, <1>2, <1>3 DEF IInv, OpenOnceConnected
<1>7. MediaComesAfter'
  <2> SUFFICES ASSUME ~late, running, NEW g \in SocketThreads, Alive(g) PROVE l = "done"
    BY <1>1, <1>3 DEF IInv, MediaComesAfter
  <2>1. role = "broadcaster" \/ role = "watcher"
    BY RoleAssumption DEF IInv, TypeOK
  <2>2. at[g] = "retriever" => role = "watcher"
    BY DEF IInv, RetrieverRuns
  <2> QED BY <1>2, <2>1, <2>2 DEF IInv, MediaComesAfter
<1>8. SomethingFollows'
  <2>1. Pending("end")' = Pending("end") /\ Pending("reconnect")' = Pending("reconnect")
    BY <1>1 DEF Pending
  <2> QED BY <1>1, <1>3, <2>1 DEF IInv, SomethingFollows
<1> QED BY <1>4, <1>5, <1>6, <1>7, <1>8 DEF Parts

-----------------------------------------------------------------------------
(* The steps of the main thread.                                           *)

\* A block that starts the view finds nothing of the last session at work.
LEMMA Starts ==
  ASSUME IInv, startWithHost, ~running
  PROVE  Parts' /\ SomethingFollows'
<1>1. PICK g \in SocketThreads : at[g] = "unborn" /\ at' = [at EXCEPT ![g] = "resolve"]
  BY DEF startWithHost, Go
<1>2. /\ running' /\ ~stopRequested' /\ host' /\ worker' = (role = "broadcaster" \/ worker)
      /\ UNCHANGED <<role, sessionReady, reconnecting, doing, late>>
      /\ doing = "idle" /\ at[Media] = "done" /\ \A u \in SocketThreads : ~Alive(u)
  BY DEF startWithHost, Taking, mainThread, counted
<1>3. /\ at'[Media] = "done" /\ at'[g] = "resolve"
      /\ \A u \in SocketThreads : u # g => at'[u] = at[u] /\ ~Alive(u)'
  BY <1>1, <1>2, ThreadsDiffer DEF IInv, TypeOK, Alive
<1>4. RunningIsIdle' /\ ReadyWhileRunning'
  BY <1>2 DEF RunningIsIdle, ReadyWhileRunning
<1>5. RetrieverRuns' /\ OneAttempt'
  BY <1>2, <1>3 DEF IInv, RetrieverRuns, OneAttempt
<1>6. WorkerFollowsRunning'
  BY <1>2 DEF IInv, TypeOK, WorkerFollowsRunning
<1>7. MediaComesAfter'
  BY <1>2, <1>3 DEF IInv, RetrieverRuns, ReadyWhileRunning, MediaComesAfter
<1>8. OpenOnceConnected'
  BY <1>2, <1>3 DEF OpenOnceConnected, Connected, Alive
<1>9. Alive(g)'
  BY <1>3 DEF Alive
<1> QED BY <1>4, <1>5, <1>6, <1>7, <1>8, <1>9 DEF Parts, SomethingFollows

\* A block that does nothing, and what is still to come after it.
LEMMA Skips ==
  ASSUME IInv, NEW b \in Blocks, Taking(b), Taken,
         UNCHANGED <<flags, session, mainThread, counted>>,
         \/ b = "start" /\ running
         \/ b = "end" /\ ~running
         \/ b = "reconnect" /\ (~shouldReconnect \/ reconnecting)
  PROVE  Parts' /\ SomethingFollows'
<1> USE DEF flags, session, mainThread, counted
<1>1. Parts'
  BY DEF IInv, Parts, RunningIsIdle, ReadyWhileRunning, RetrieverRuns, OneAttempt, Alive,
     WorkerFollowsRunning, MediaComesAfter, OpenOnceConnected
<1>2. SomethingFollows'
  <2>1. \A c \in Blocks : c # b /\ Pending(c) => Pending(c)'
    BY TakenStays, TypeParts DEF IInv
  <2> QED BY <2>1 DEF IInv, SomethingFollows, Alive, Blocks
<1> QED BY <1>1, <1>2

\* A block that stops the view, before the session is ended.
LEMMA Stops ==
  ASSUME IInv, running' = FALSE, sessionReady' = FALSE, EndSession,
         doing = "idle", UNCHANGED <<role, session>>
  PROVE  Parts' /\ SomethingFollows'
<1>1. /\ doing' \in {"joinWorker", "closeSocket"} /\ UNCHANGED <<late, at, worker, open>>
      /\ role = "watcher" <=> doing' = "joinWorker"
  BY DEF EndSession, session
<1>2. RunningIsIdle' /\ ReadyWhileRunning' /\ WorkerFollowsRunning'
  BY <1>1 DEF RunningIsIdle, ReadyWhileRunning, WorkerFollowsRunning
<1>3. RetrieverRuns' /\ OneAttempt'
  BY <1>1 DEF IInv, RetrieverRuns, OneAttempt, Alive
<1>4. MediaComesAfter' /\ OpenOnceConnected' /\ SomethingFollows'
  BY DEF MediaComesAfter, OpenOnceConnected, SomethingFollows
<1> QED BY <1>2, <1>3, <1>4 DEF Parts

LEMMA Ends ==
  ASSUME IInv, end PROVE Parts' /\ SomethingFollows'
<1>1. CASE role = "watcher" /\ ~running
  BY <1>1, Skips DEF end, StopUnless, Blocks
<1>2. CASE ~(role = "watcher" /\ ~running)
  BY <1>2, Stops DEF end, StopUnless, Taking, counted
<1> QED BY <1>1, <1>2

\* A running view reconnects. A stopped one only says that it would.
LEMMA Reconnects ==
  ASSUME IInv, reconnectAfter PROVE Parts' /\ SomethingFollows'
<1>1. CASE ~shouldReconnect \/ reconnecting
  BY <1>1, Skips DEF reconnectAfter, ReconnectUnless, Blocks
<1>2. CASE shouldReconnect /\ ~reconnecting /\ host /\ ~stopRequested
  BY <1>2, Stops DEF reconnectAfter, ReconnectUnless, Taking, counted
<1>3. CASE shouldReconnect /\ ~reconnecting /\ ~(host /\ ~stopRequested)
  <2>1. /\ ~running
        /\ UNCHANGED <<role, running, stopRequested, host, sessionReady, session, mainThread>>
    BY <1>3 DEF reconnectAfter, ReconnectUnless, counted, IInv, RunningIsIdle
  <2> QED
    BY <2>1 DEF session, mainThread, IInv, Parts, RunningIsIdle, ReadyWhileRunning, RetrieverRuns,
       OneAttempt, Alive, WorkerFollowsRunning, MediaComesAfter, OpenOnceConnected, SomethingFollows
<1> QED BY <1>1, <1>2, <1>3

\* While a session is being ended the view is not running.
LEMMA Ending ==
  ASSUME IInv, joinWorker \/ closeSocket \/ mainJoinsThread \/ stopQueue
  PROVE  Parts' /\ SomethingFollows'
<1>1. /\ ~running /\ UNCHANGED <<role, running, host, stopRequested, sessionReady, at, late>>
      /\ (worker' => worker) /\ (doing = "joinWorker" => ~worker') /\ doing' # "joinWorker"
      /\ doing' = "idle" /\ role = "broadcaster" => worker' = running'
  BY DEF joinWorker, closeSocket, mainJoinsThread, stopQueue, flags, counted, IInv, TypeOK,
     RunningIsIdle
<1>2. RunningIsIdle' /\ ReadyWhileRunning'
  BY <1>1 DEF IInv, RunningIsIdle, ReadyWhileRunning
<1>3. RetrieverRuns' /\ OneAttempt'
  BY <1>1 DEF IInv, RetrieverRuns, OneAttempt, Alive
<1>4. WorkerFollowsRunning'
  BY <1>1 DEF WorkerFollowsRunning
<1>5. MediaComesAfter' /\ OpenOnceConnected' /\ SomethingFollows'
  BY <1>1 DEF MediaComesAfter, OpenOnceConnected, SomethingFollows
<1> QED BY <1>2, <1>3, <1>4, <1>5 DEF Parts

-----------------------------------------------------------------------------
(* Delays, the application and the system.                                 *)

\* What they add to the main queue takes nothing from what was pending.
LEMMA Adds ==
  ASSUME IInv, shouldReconnect => shouldReconnect', stopRequested' => stopRequested,
         UNCHANGED <<role, running, reconnecting, sessionReady, host, session, mainThread>>,
         \A c \in Blocks : Pending(c) => Pending(c)'
  PROVE  Parts' /\ SomethingFollows'
<1> USE DEF session, mainThread
<1>1. Parts'
  BY DEF IInv, Parts, RunningIsIdle, ReadyWhileRunning, RetrieverRuns, OneAttempt, Alive,
     WorkerFollowsRunning, MediaComesAfter, OpenOnceConnected
<1>2. SomethingFollows'
  BY DEF IInv, TypeOK, SomethingFollows, Alive, Blocks
<1> QED BY <1>1, <1>2

LEMMA DelaysEnd ==
  ASSUME IInv, NEW b \in Blocks, Due(b) PROVE Parts' /\ SomethingFollows'
<1>1. \A c \in Blocks : Has(Append(main, b), c) <=> Has(main, c) \/ c = b
  BY Appended DEF IInv, TypeOK
<1>2. /\ main' = Append(main, b)
      /\ \A c \in Blocks : c # b => later'[c] = later[c]
  BY DEF Due, IInv, TypeOK
<1>3. \A c \in Blocks : Pending(c) => Pending(c)'
  BY <1>1, <1>2 DEF Pending
<1> QED BY <1>3, Adds DEF Due, flags, counted

LEMMA Calls ==
  ASSUME IInv, Environment PROVE Parts' /\ SomethingFollows'
<1>1. \A b \in Blocks : Post(b) => \A c \in Blocks : Pending(c) => Pending(c)'
  BY PostedIsPending, TypeParts DEF IInv
<1>2. UNCHANGED dispatch => \A c \in Blocks : Pending(c) => Pending(c)'
  BY DEF dispatch, Pending
<1>3. /\ \A c \in Blocks : Pending(c) => Pending(c)'
      /\ (shouldReconnect => shouldReconnect') /\ (stopRequested' => stopRequested)
      /\ UNCHANGED <<role, running, reconnecting, sessionReady, host, session, mainThread>>
  <2>1. \A c \in Blocks : Pending(c) => Pending(c)'
    BY <1>1, <1>2 DEF Environment, callStart, callEnd, Interruption, Blocks
  <2>2. ASSUME Interruption
        PROVE  /\ (shouldReconnect => shouldReconnect') /\ (stopRequested' => stopRequested)
               /\ UNCHANGED <<role, running, reconnecting, sessionReady, host, session, mainThread>>
    <3>1. shouldReconnect' /\ (stopRequested' => stopRequested)
      BY <2>2 DEF Interruption
    <3> QED BY <2>2, <3>1 DEF Interruption, Calling
  <2> QED BY <2>1, <2>2 DEF Environment, callStart, callEnd, Calling, flags
<1> QED BY <1>3, Adds

-----------------------------------------------------------------------------
(* Every step keeps the invariant.                                         *)

LEMMA InvStep == IInv /\ [Next]_vars => IInv'
<1> SUFFICES ASSUME IInv, [Next]_vars PROVE IInv'
  OBVIOUS
<1>1. TypeOK'
  BY BooleansStep, PlacesStep, WaitingStep, OthersStep
     DEF IInv, TypeOK, Booleans, Places, Waiting, Others
<1>2. ASSUME NEW g \in SocketThreads, SocketThread(g) PROVE Parts' /\ SomethingFollows'
  BY <1>2, ThreadsDiffer, SocketSteps, SessionStarts, Asks, Closes, Fails DEF SocketThread
<1>3. ASSUME MediaFails \/ MediaThread PROVE Parts' /\ SomethingFollows'
  BY <1>3, ThreadsDiffer, MediaSteps, Asks, Closes DEF MediaThread
<1>4. ASSUME MainThread PROVE Parts' /\ SomethingFollows'
  <2>1. CASE startWithHost /\ running
    BY <2>1, Skips DEF startWithHost, Blocks
  <2> QED BY <1>4, <2>1, Starts, Ends, Reconnects, Ending DEF MainThread
<1>5. ASSUME Environment \/ (\E b \in Blocks : Due(b)) PROVE Parts' /\ SomethingFollows'
  BY <1>5, DelaysEnd, Calls
<1>6. ASSUME UNCHANGED vars PROVE Parts' /\ SomethingFollows'
  BY <1>6, Adds DEF vars, flags, counted, dispatch, Pending
<1>7. Parts' /\ SomethingFollows'
  BY <1>2, <1>3, <1>4, <1>5, <1>6 DEF Next
<1> QED BY <1>1, <1>7 DEF IInv, Parts

LEMMA InvHolds == Spec => []IInv
  BY InvInit, InvStep, PTL DEF Spec

\* With no thread at work and no block pending, what follows can only be a connection.
LEMMA InvFollows == IInv => FlagsFollowTheSession
<1> SUFFICES ASSUME IInv PROVE FlagsFollowTheSession
  OBVIOUS
<1>1. RunningHasSession
  <2> SUFFICES ASSUME Quiet, running, ~Wedged, ~late PROVE open
    BY DEF RunningHasSession
  <2>1. ~Pending("end") /\ ~Pending("reconnect")
    BY DEF Quiet, Pending, Has, Blocks
  <2>2. \A g \in SocketThreads : ~Alive(g)
    BY DEF Quiet, Threads
  <2> QED BY <2>1, <2>2 DEF IInv, SomethingFollows, Wedged
<1>2. StoppedIsNotReady
  BY DEF IInv, ReadyWhileRunning, StoppedIsNotReady
<1> QED BY <1>1, <1>2 DEF IInv, FlagsFollowTheSession

\* What the two views tell the application is so, however many attempts and calls there
\* are: a view that stays running has a session, the broadcaster's queue is started while
\* it is running and at no other time, and a stopped view is not left announced as ready.
THEOREM ViewFollowsItsSession == Spec => []FlagsFollowTheSession
  BY InvHolds, InvFollows, PTL
=============================================================================
