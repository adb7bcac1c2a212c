----------------------------- MODULE SessionView -----------------------------
(***************************************************************************)
(* KBRtmpBroadcasterSessionView and KBRtmpWatcherSessionView: how a view   *)
(* keeps a session going. The callbacks of RtmpSessionDelegate come on the *)
(* session's threads (or on the main thread, when it closes the socket)    *)
(* and only change flags and post blocks; the blocks run one at a time on  *)
(* the main thread. RtmpSession has the session in detail; here a socket   *)
(* thread keeps what the view can see of it: where it opens the socket,    *)
(* which callbacks it makes, and that the main thread may have to join it. *)
(***************************************************************************)
EXTENDS Naturals, Sequences

CONSTANTS Roles,         \* the kinds of view: one of them is chosen at the start
          SocketThreads, \* the attempts to connect: bounds the starts
          Media,         \* the queue's worker (broadcaster) or the retriever (watcher)
          NoThread,      \* thread_ holds no joinable thread
          MaxCalls       \* bound on the application's calls and the system's warnings

ASSUME RoleAssumption == Roles \subseteq {"broadcaster", "watcher"}
ASSUME ThreadAssumption == Media \notin SocketThreads /\ NoThread \notin SocketThreads \cup {Media}
ASSUME CallAssumption == MaxCalls \in Nat

VARIABLES
  role,     \* which of the two views this is
  running, stopRequested, shouldReconnect, reconnecting, sessionReady,
  host,     \* the view has a host to reconnect to
  worker,   \* the queue is started (broadcaster); the retriever runs (watcher)
  open,     \* the session's socket is open
  thread,   \* the socket thread that can be joined
  at,       \* at[t]: what thread t of the session is about to do
  main,     \* blocks waiting on the main queue
  later,    \* blocks dispatch_after holds: the two delays are not told apart
  doing,    \* what the main thread is in the middle of
  restarts, \* that is reconnectAfter's block, which starts again at its end
  calls,
  late      \* history: sessionStarted has come to a view that was not running

flags    == <<running, stopRequested, shouldReconnect, reconnecting, sessionReady, host>>
session  == <<worker, open, thread, at>>
dispatch == <<main, later>>
mainThread == <<doing, restarts, late>>
counted == <<role, calls>>
vars == <<flags, session, dispatch, mainThread, counted>>

Blocks  == {"start", "end", "reconnect"}
Threads == SocketThreads \cup {Media}
Steps   == {"unborn", "resolve", "connecting", "connected", "chain", "started", "retriever",
            "ask", "askSet", "close", "failAsk", "failAskSet", "failClose", "join", "done"}
Alive(g) == at[g] \notin {"unborn", "done"}
Go(t, l) == at' = [at EXCEPT ![t] = l]
Post(b) == main' = Append(main, b) /\ UNCHANGED later

-----------------------------------------------------------------------------
(* The delegate collectors' callbacks.                                     *)

\* Mutant of socketDidClose: a connection that is lost for good is left as it is.
socketDidCloseReconnectsOnly ==
  /\ later' = [later EXCEPT !["reconnect"] = IF shouldReconnect THEN @ + 1 ELSE @]
  /\ UNCHANGED main

\* [objc_ reconnectAfter:3] or [objc_ end]
socketDidClose ==
  IF shouldReconnect THEN /\ later' = [later EXCEPT !["reconnect"] = @ + 1]
                          /\ UNCHANGED main
                     ELSE Post("end")

\* reconnectionRequired: the flag is read, and then set
askRead(t, from, set, next) ==
  /\ at[t] = from
  /\ Go(t, IF reconnecting THEN next ELSE set)
  /\ UNCHANGED <<flags, worker, open, thread, dispatch, mainThread, counted>>
askSet(t, from, next) ==
  /\ at[t] = from
  /\ shouldReconnect' = TRUE
  /\ Go(t, next)
  /\ UNCHANGED <<running, stopRequested, reconnecting, sessionReady, host, worker, open, thread,
                 dispatch, mainThread, counted>>

reconnectionRequired(t) ==
  \/ askRead(t, "ask", "askSet", "close") \/ askSet(t, "askSet", "close")
  \/ askRead(t, "failAsk", "failAskSet", "failClose") \/ askSet(t, "failAskSet", "failClose")

socketDidConnect(g) ==
  /\ at[g] = "connected"
  /\ shouldReconnect' = FALSE
  /\ Go(g, "chain")
  /\ UNCHANGED <<running, stopRequested, reconnecting, sessionReady, host, worker, open, thread,
                 dispatch, mainThread, counted>>

sessionStarted(g) ==
  /\ at[g] = "started"
  /\ sessionReady' = TRUE /\ reconnecting' = FALSE   \* setSessionReady
  /\ Go(g, IF role = "watcher" THEN "retriever" ELSE "done")
  /\ late' = (late \/ ~running)
  /\ UNCHANGED <<running, stopRequested, shouldReconnect, host, worker, open, thread, dispatch,
                 doing, restarts, counted>>

-----------------------------------------------------------------------------
(* The session's threads, as the view sees them.                           *)

resolve(g) ==
  /\ at[g] = "resolve"
  /\ \/ open' = TRUE /\ Go(g, "connecting")
     \/ UNCHANGED open /\ Go(g, "failAsk")
  /\ UNCHANGED <<flags, worker, thread, dispatch, mainThread, counted>>

\* connected, refused, or closed meanwhile by the main thread
connectImpl(g) ==
  /\ at[g] = "connecting"
  /\ \/ open /\ Go(g, "connected")
     \/ Go(g, "failAsk")
  /\ UNCHANGED <<flags, worker, open, thread, dispatch, mainThread, counted>>

\* the command chain ends with the session started, with an error that is lost or
\* fatal, or with no one being told
chain(g) ==
  /\ at[g] = "chain"
  /\ \/ open /\ Go(g, "started")
     \/ \E l \in {"ask", "close", "done"} : Go(g, l)
  /\ UNCHANGED <<flags, worker, open, thread, dispatch, mainThread, counted>>

startMediaPacketRetriever(g) ==
  /\ at[g] = "retriever"
  /\ worker' = TRUE
  /\ Go(g, "done")
  /\ late' = (late \/ ~running)
  /\ UNCHANGED <<flags, open, thread, dispatch, doing, restarts, counted>>

\* the worker sends or receives while the socket is open, and its operation fails
MediaFails ==
  /\ at[Media] = "done"
  /\ worker /\ open
  /\ role = "broadcaster" => sessionReady
  /\ \E l \in {"ask", "close"} : Go(Media, l)
  /\ UNCHANGED <<flags, worker, open, thread, dispatch, mainThread, counted>>

Closing(t) ==
  /\ at[t] = "close"
  /\ IF open THEN /\ open' = FALSE
                  /\ socketDidClose
                  /\ Go(t, IF t = Media THEN "join" ELSE "done")
             ELSE /\ Go(t, "done")
                  /\ UNCHANGED <<open, dispatch>>
  /\ UNCHANGED <<flags, worker, thread, mainThread, counted>>

\* Mutant of close: the callback waits until the main queue has run its block.
closeWaitsForMain(t) == (open => doing = "idle" /\ main = <<>>) /\ Closing(t)

\* BaseSocket::close on thread t, up to the callback; another than the socket thread
\* then joins that one
close(t) == Closing(t)

\* thread_ can be joined: it has ended, or is not there
Joined == thread = NoThread \/ ~Alive(thread)

joinThread ==
  /\ at[Media] = "join"
  /\ Joined
  /\ thread' = NoThread
  /\ Go(Media, "done")
  /\ UNCHANGED <<flags, worker, open, dispatch, mainThread, counted>>

\* a connection that failed is notified as closed; the descriptor stays open
failedToConnect(g) ==
  /\ at[g] = "failClose"
  /\ socketDidClose
  /\ Go(g, "done")
  /\ UNCHANGED <<flags, worker, open, thread, mainThread, counted>>

SocketThread(g) ==
  \/ resolve(g) \/ connectImpl(g) \/ socketDidConnect(g) \/ chain(g) \/ sessionStarted(g)
  \/ startMediaPacketRetriever(g) \/ reconnectionRequired(g) \/ close(g) \/ failedToConnect(g)
MediaThread == reconnectionRequired(Media) \/ close(Media) \/ joinThread

-----------------------------------------------------------------------------
(* The blocks on the main thread.                                          *)

Taking(b) == doing = "idle" /\ main # <<>> /\ Head(main) = b
Taken == main' = Tail(main) /\ UNCHANGED later

\* if (![self isRunning]); the delays and the time a person takes outlast an attempt
startWithHost ==
  /\ Taking("start")
  /\ IF running
     THEN Taken /\ UNCHANGED <<flags, session>>
     ELSE /\ \A g \in SocketThreads : ~Alive(g)
          /\ at[Media] = "done"
          /\ running' = TRUE /\ stopRequested' = FALSE      \* markAsRunning
          /\ host' = TRUE
          /\ worker' = (role = "broadcaster" \/ worker)     \* queue->start()
          /\ UNCHANGED <<shouldReconnect, reconnecting, sessionReady>>
          /\ \E g \in SocketThreads :                       \* rtmpSession->start
               at[g] = "unborn" /\ Go(g, "resolve") /\ thread' = g
          /\ open' = FALSE
          /\ main' = IF open /\ ~shouldReconnect THEN Append(Tail(main), "end") ELSE Tail(main)
          /\ later' = IF open /\ shouldReconnect THEN [later EXCEPT !["reconnect"] = @ + 1]
                      ELSE later
  /\ UNCHANGED <<mainThread, counted>>

\* where rtmpSession->end() begins: the watcher joins its retriever first
EndSession == UNCHANGED late /\ doing' = IF role = "watcher" THEN "joinWorker" ELSE "closeSocket"

\* markAsStopped, whose setSessionReady sets reconnecting, and then the session's end
StopUnless(skipped, ready) ==
  /\ Taking("end")
  /\ Taken
  /\ IF skipped
     THEN UNCHANGED <<flags, mainThread>>
     ELSE /\ stopRequested' = TRUE
          /\ running' = FALSE /\ shouldReconnect' = FALSE
          /\ sessionReady' = ready /\ reconnecting' = ~ready
          /\ restarts' = FALSE /\ EndSession
          /\ UNCHANGED host
  /\ UNCHANGED <<session, counted>>

\* Mutant of end: markAsStopped leaves the session announced as ready.
endStaysReady == StopUnless(role = "watcher" /\ ~running, sessionReady)

\* only the watcher's tests isRunning
end == StopUnless(role = "watcher" /\ ~running, FALSE)

ReconnectUnless(skipped, runs) ==
  /\ Taking("reconnect")
  /\ Taken
  /\ IF skipped
     THEN UNCHANGED <<flags, mainThread>>
     ELSE /\ reconnecting' = TRUE
          /\ IF host /\ ~stopRequested
             THEN /\ running' = runs /\ sessionReady' = FALSE /\ shouldReconnect' = FALSE
                  /\ restarts' = TRUE /\ EndSession
             ELSE UNCHANGED <<running, sessionReady, shouldReconnect, mainThread>>
          /\ UNCHANGED <<stopRequested, host>>
  /\ UNCHANGED <<session, counted>>

\* Mutant of reconnectAfter: running is not reset, so the delayed start does nothing.
reconnectAfterStaysRunning == ReconnectUnless(~shouldReconnect \/ reconnecting, running)

\* the handler of reconnectAfter
reconnectAfter == ReconnectUnless(~shouldReconnect \/ reconnecting, FALSE)

\* RtmpWatcherSession::end: the retriever ends its round and is joined
joinWorker ==
  /\ doing = "joinWorker"
  /\ at[Media] = "done"
  /\ worker' = FALSE
  /\ doing' = "closeSocket"
  /\ UNCHANGED <<flags, open, thread, at, dispatch, restarts, late, counted>>

\* close() on the main thread, its callback included
closeSocket ==
  /\ doing = "closeSocket"
  /\ IF open THEN /\ open' = FALSE
                  /\ socketDidClose
                  /\ doing' = "joinThread"
             ELSE /\ doing' = "stopQueue"
                  /\ UNCHANGED <<open, dispatch>>
  /\ UNCHANGED <<flags, worker, thread, at, restarts, late, counted>>

mainJoinsThread ==
  /\ doing = "joinThread"
  /\ Joined
  /\ thread' = NoThread
  /\ doing' = "stopQueue"
  /\ UNCHANGED <<flags, worker, open, at, dispatch, restarts, late, counted>>

\* Mutant of stopQueue: the queue runs on.
stopQueueForgotten ==
  /\ doing = "stopQueue"
  /\ UNCHANGED worker
  /\ doing' = "idle"
  /\ later' = IF restarts THEN [later EXCEPT !["start"] = @ + 1] ELSE later
  /\ UNCHANGED <<flags, open, thread, at, main, restarts, late, counted>>

\* the broadcaster's queue is stopped, its worker joined; then the block ends, the
\* handler's with a delayed start
stopQueue ==
  /\ doing = "stopQueue"
  /\ IF role = "broadcaster" THEN at[Media] = "done" /\ worker' = FALSE ELSE UNCHANGED worker
  /\ doing' = "idle"
  /\ later' = IF restarts THEN [later EXCEPT !["start"] = @ + 1] ELSE later
  /\ UNCHANGED <<flags, open, thread, at, main, restarts, late, counted>>

\* Mutant of Due: the timer repeats.
DueTwice(b) ==
  /\ main' = Append(main, b)
  /\ later' = [later EXCEPT ![b] = @ - 1]
  /\ UNCHANGED <<flags, session, mainThread, counted>>

\* dispatch_after's time has come
Due(b) ==
  /\ later[b] > 0
  /\ later' = [later EXCEPT ![b] = @ - 1]
  /\ main' = Append(main, b)
  /\ UNCHANGED <<flags, session, mainThread, counted>>

MainThread ==
  \/ startWithHost \/ end \/ reconnectAfter
  \/ joinWorker \/ closeSocket \/ mainJoinsThread \/ stopQueue

-----------------------------------------------------------------------------
(* The application and the system.                                         *)

Calling == calls < MaxCalls /\ calls' = calls + 1 /\ UNCHANGED role

callStart == Calling /\ Post("start") /\ UNCHANGED <<flags, session, mainThread>>
callEnd   == Calling /\ Post("end") /\ UNCHANGED <<flags, session, mainThread>>

\* a memory warning (watcher), or the end of an audio interruption (broadcaster), which
\* sets the flag and posts reconnectAfter:0 only when the system lets the audio resume
Interruption ==
  /\ Calling
  /\ shouldReconnect' = TRUE
  /\ stopRequested' = (stopRequested /\ role = "broadcaster")
  /\ \/ Post("reconnect")
     \/ role = "broadcaster" /\ UNCHANGED dispatch
  /\ UNCHANGED <<running, reconnecting, sessionReady, host, session, mainThread>>

Environment == callStart \/ callEnd \/ Interruption

Init ==
  /\ role \in Roles
  /\ running = FALSE /\ stopRequested = FALSE /\ shouldReconnect = FALSE
  /\ reconnecting = FALSE /\ sessionReady = FALSE /\ host = FALSE
  /\ worker = FALSE /\ open = FALSE /\ thread = NoThread
  /\ at = [t \in Threads |-> IF t = Media THEN "done" ELSE "unborn"]
  /\ main = <<>> /\ later = [b \in Blocks |-> 0]
  /\ doing = "idle" /\ restarts = FALSE
  /\ calls = 0 /\ late = FALSE

Next ==
  \/ \E g \in SocketThreads : SocketThread(g)
  \/ MediaFails \/ MediaThread
  \/ MainThread \/ \E b \in Blocks : Due(b)
  \/ Environment

\* Every thread goes on, the main queue is served and delays come to an end. Nothing
\* makes the application call or an operation fail.
Fairness ==
  /\ \A g \in SocketThreads : WF_vars(SocketThread(g))
  /\ WF_vars(MediaThread) /\ WF_vars(MainThread)
  /\ \A b \in Blocks : WF_vars(Due(b))
Spec == Init /\ [][Next]_vars /\ Fairness

-----------------------------------------------------------------------------
(* Properties.                                                             *)

TypeOK ==
  /\ role \in Roles
  /\ running \in BOOLEAN /\ stopRequested \in BOOLEAN /\ shouldReconnect \in BOOLEAN
  /\ reconnecting \in BOOLEAN /\ sessionReady \in BOOLEAN /\ host \in BOOLEAN
  /\ worker \in BOOLEAN /\ open \in BOOLEAN
  /\ thread \in SocketThreads \cup {NoThread}
  /\ at \in [Threads -> Steps] /\ at[Media] \in {"done", "ask", "askSet", "close", "join"}
  /\ main \in Seq(Blocks) /\ later \in [Blocks -> Nat]
  /\ doing \in {"idle", "joinWorker", "closeSocket", "joinThread", "stopQueue"}
  /\ restarts \in BOOLEAN /\ calls \in 0 .. MaxCalls

\* nothing is going on and nothing is pending
Quiet ==
  /\ doing = "idle" /\ main = <<>> /\ \A b \in Blocks : later[b] = 0
  /\ \A t \in Threads : ~Alive(t)

\* The view was asked to reconnect while it was already reconnecting: both tests of
\* the flags, in reconnectionRequired and in reconnectAfter, now refuse.
Wedged == shouldReconnect /\ reconnecting

\* A view that stays running has a session: whatever fails, and whoever calls meanwhile,
\* the last block to run either started one or marked the view as stopped. It takes
\* that no session started while it was being ended: that one leaves flags or a
\* retriever behind (late), and the next connection is closed under its thread.
RunningHasSession == (Quiet /\ running /\ ~Wedged /\ ~late) => open

\* The broadcaster's queue is started exactly while the view is running, so a start
\* is never a second one and a stop finds its worker.
WorkerFollowsRunning == (role = "broadcaster" /\ doing = "idle") => worker = running

\* A stopped view with no connection is not left announced as ready, with the same
\* exception: no stale block or delayed reconnection leaves the flag behind.
StoppedIsNotReady == (Quiet /\ ~running /\ ~open /\ ~late) => ~sessionReady

\* What the flags tell the application is so, and the worker and the connection follow.
FlagsFollowTheSession == TypeOK /\ RunningHasSession /\ WorkerFollowsRunning /\ StoppedIsNotReady

\* The main thread is never blocked for good by the threads it joins, although their
\* callbacks post to it, close the socket and join one another.
MainReturns == doing # "idle" ~> doing = "idle"

\* A session that is lost while the view is running does not stay announced as ready:
\* the callbacks' blocks end it or start the next, unless two requests crossed or a
\* session had started while it was being ended.
OutOfAttempts == \A g \in SocketThreads : at[g] # "unborn"
LostIsNoticed ==
  (running /\ sessionReady /\ ~open) ~> (~sessionReady \/ open \/ Wedged \/ late \/ OutOfAttempts)
=============================================================================
