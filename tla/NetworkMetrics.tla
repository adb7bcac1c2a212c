---------------------------- MODULE NetworkMetrics ----------------------------
(***************************************************************************)
(* NetworkPerformanceMetrics, the once-a-second judge of the connection,   *)
(* with the threads that start and stop it (sessionReady and               *)
(* BaseSocket::close run on any thread of a session), those that count     *)
(* transferred bytes under its mutex, the timer threads start() spawns,    *)
(* and what the broadcaster view makes of a verdict: the bit rate it asks  *)
(* of the encoder, and the byte rate the metrics are measured against.     *)
(*                                                                         *)
(* Rates are bytes per second.  The speed measured at a tick is any of     *)
(* Speeds: the average of NetworkSpeedIndicator is not computed.           *)
(***************************************************************************)
EXTENDS Naturals, FiniteSets

CONSTANTS Callers,             \* threads of the session
          Timers,              \* the std::threads start() may spawn: bounds the starts
          None,
          Default,             \* the byte rate of the settings
          Speeds,              \* what a tick can measure
          Highest,             \* NetworkType runs from 1, VeryLow, to this one
          NetworkErrorLimit,
          StableNetworkTrigger,
          MaxCalls             \* bound on the calls of start(), stop() and updateData()

ASSUME ThreadAssumption == /\ IsFiniteSet(Callers) /\ IsFiniteSet(Timers)
                           /\ Callers \cap Timers = {} /\ None \notin Callers \cup Timers
ASSUME RateAssumption == Default \in Nat \ {0} /\ Speeds \subseteq Nat
ASSUME LimitAssumption == /\ Highest \in Nat /\ Highest > 1
                          /\ NetworkErrorLimit \in Nat /\ StableNetworkTrigger \in Nat
                          /\ MaxCalls \in Nat

VARIABLES
  stopped, thread, pending,  \* stopped_, thread_, the waits of timer_ not yet run
  mutex,                     \* who holds mutex_
  at,                        \* at[t]: where a thread is
  fate,                      \* "runs", or what made the process abort
  byteRate, oldCbs, stableNetCounter, networkErrorCounter, currentNetwork,
  calculated,                \* the view's calculatedBitRate, in bytes
  calls,
  overlapped,                \* history: two of start() and stop() were under way together
  contended,                 \* history: bytes were counted while start() was under way
  carried                    \* history: a session began with the type of an earlier one

timing  == <<stopped, thread, pending>>
profile == <<oldCbs, stableNetCounter, networkErrorCounter, currentNetwork>>
rates   == <<byteRate, calculated>>
history == <<overlapped, contended, carried>>
vars == <<timing, mutex, at, fate, profile, rates, calls, history>>

VeryLow == 1
CallerSteps == {"idle", "started", "clear", "launch", "sessionStarted",
                "stopping", "join", "ioStop", "updateData"}
TimerSteps  == {"unborn", "wait", "run", "profile", "exit"}
Busy(c)  == at[c] \notin {"idle", "updateData"}
Alive(t) == at[t] \notin {"unborn", "exit"}
Runs     == fate = "runs"
At(t, l) == Runs /\ at[t] = l   \* a process that was aborted does nothing more
Go(t, l) == at' = [at EXCEPT ![t] = l]

-----------------------------------------------------------------------------
(* The verdict of a tick: pure functions of the code.                      *)

\* newByteRateFromPercentage: ten per cent, in integers
newByteRateFromPercentage(r) == (r * 10) \div 100

byteRateShouldDrop(cbs) == cbs < byteRate \div 3

\* Mutants: they run past the ends.
LowerPastTheEnd(n) == n - 1
RaisePastTheEnd(n) == n + 1

\* operator-- and operator++ of NetworkType stop at the ends
Lower(n)  == IF n = VeryLow THEN n ELSE n - 1
Raise(n)  == IF n = Highest THEN n ELSE n + 1

Verdict(cbs) ==
  IF byteRateShouldDrop(cbs) \/ cbs = oldCbs
  THEN IF cbs = oldCbs /\ networkErrorCounter < NetworkErrorLimit THEN "error" ELSE "down"
  ELSE IF stableNetCounter > StableNetworkTrigger THEN "up" ELSE "stable"

setByteRate(r)          == byteRate' = r
updateCurrentMetrics(r) == IF r > 0 THEN setByteRate(r) ELSE UNCHANGED byteRate

\* Mutant: the encoder follows the verdict and the metrics are not told.
changesTheEncoderOnly(type, preferred) ==
  /\ calculated' = IF preferred = 0 THEN calculated ELSE
                   IF type = Highest /\ calculated # Default THEN Default ELSE preferred
  /\ UNCHANGED byteRate

\* the broadcaster's networkPerformanceMetricsChanged: back to the settings' rate
\* on the best network, unless it is there already; the preferred one otherwise
networkPerformanceMetricsChanged(type, preferred) ==
  LET rate == IF type = Highest /\ calculated # Default THEN Default ELSE preferred IN
  IF preferred = 0 THEN UNCHANGED rates
  ELSE /\ calculated' = rate
       /\ updateCurrentMetrics(rate)

notifyListenersIfNeeded(type, rate) ==
  IF type # currentNetwork THEN networkPerformanceMetricsChanged(type, rate)
                           ELSE UNCHANGED rates

handleNetworkProfiler(cbs) ==
  LET verdict == Verdict(cbs)
      share   == newByteRateFromPercentage(byteRate)
      type    == IF verdict = "down" THEN Lower(currentNetwork) ELSE
                 IF verdict = "up" THEN Raise(currentNetwork) ELSE currentNetwork
      rate    == IF verdict = "down" THEN byteRate - share ELSE byteRate + share
  IN
  /\ networkErrorCounter' = IF verdict \in {"down", "up"} THEN 0 ELSE
                            IF verdict = "error" THEN networkErrorCounter + 1 ELSE networkErrorCounter
  /\ stableNetCounter' = IF verdict \in {"down", "up"} THEN 0 ELSE
                         IF verdict = "stable" THEN stableNetCounter + 1 ELSE stableNetCounter
  /\ notifyListenersIfNeeded(type, rate)
  /\ currentNetwork' = type
  /\ oldCbs' = cbs

-----------------------------------------------------------------------------
(* start(), on the socket thread, from sessionReady.                       *)

Begin(c, l) ==
  /\ At(c, "idle") /\ calls < MaxCalls
  /\ calls' = calls + 1
  /\ Go(c, l)

Overlap(c) == overlapped' = (overlapped \/ \E d \in Callers \ {c} : Busy(d))

startTest(c) ==
  /\ stopped
  /\ Begin(c, "started") /\ Overlap(c)
  /\ contended' = (contended \/ \E d \in Callers : at[d] = "updateData")
  /\ UNCHANGED <<timing, mutex, fate, profile, rates, carried>>

startSet(c) ==
  /\ At(c, "started")
  /\ stopped' = FALSE
  /\ Go(c, "clear")
  /\ UNCHANGED <<thread, pending, mutex, fate, profile, rates, calls, history>>

\* try_lock, and unlock whether it succeeded or not: on a mutex another thread
\* holds unlock throws, and nothing catches it on the socket thread
clear(c) ==
  /\ At(c, "clear")
  /\ IF mutex = None
     THEN /\ oldCbs' = 0 /\ stableNetCounter' = 0 /\ networkErrorCounter' = 0
          /\ Go(c, "launch")
          /\ UNCHANGED fate
     ELSE /\ fate' = "clearThrew"
          /\ UNCHANGED <<at, oldCbs, stableNetCounter, networkErrorCounter>>
  /\ UNCHANGED <<timing, mutex, currentNetwork, rates, calls, history>>

\* the timer is armed and its thread made: thread_ is overwritten, which aborts
\* the process when it still is a joinable one
launch(c) ==
  /\ At(c, "launch")
  /\ pending' = pending + 1
  /\ IF thread # None
     THEN fate' = "overwrote" /\ UNCHANGED <<thread, at>>
     ELSE /\ \E t \in Timers :
               /\ at[t] = "unborn"
               /\ thread' = t
               /\ at' = [at EXCEPT ![t] = "wait", ![c] = "sessionStarted"]
          /\ UNCHANGED fate
  /\ UNCHANGED <<stopped, mutex, profile, rates, calls, history>>

\* the view sends the metadata, with the settings' rate
sessionStarted(c) ==
  /\ At(c, "sessionStarted")
  /\ updateCurrentMetrics(Default)   \* sendOnMetaDataMessage
  /\ carried' = (carried \/ currentNetwork # Highest)
  /\ Go(c, "idle")
  /\ UNCHANGED <<timing, mutex, fate, profile, calculated, calls, overlapped, contended>>

-----------------------------------------------------------------------------
(* stop(), on whichever thread closes the socket.                          *)

stopTest(c) ==
  /\ ~stopped
  /\ Begin(c, "stopping") /\ Overlap(c)
  /\ UNCHANGED <<timing, mutex, fate, profile, rates, contended, carried>>

\* Mutant of stop: it goes on without waiting for the thread.
stopDetaches(c) ==
  /\ At(c, "stopping")
  /\ stopped' = TRUE
  /\ thread' = None
  /\ Go(c, "ioStop")
  /\ UNCHANGED <<pending, mutex, fate, profile, rates, calls, history>>

\* Mutant of stop: the thread is not waited for, and still there.
stopForgetsTheThread(c) ==
  /\ At(c, "stopping")
  /\ stopped' = TRUE
  /\ Go(c, "ioStop")
  /\ UNCHANGED <<thread, pending, mutex, fate, profile, rates, calls, history>>

\* the cancelled wait is left to the timer's thread, which runs it like one that
\* has expired; the branch that detaches is for a handler that closes the socket,
\* which none does
stopSet(c) ==
  /\ At(c, "stopping")
  /\ stopped' = TRUE
  /\ Go(c, IF thread = None THEN "ioStop" ELSE "join")
  /\ UNCHANGED <<thread, pending, mutex, fate, profile, rates, calls, history>>

\* two threads that join the same one: the second join throws
join(c) ==
  /\ At(c, "join")
  /\ IF thread = None
     THEN fate' = "joinedTwice" /\ UNCHANGED <<thread, at>>
     ELSE /\ ~Alive(thread)
          /\ thread' = None
          /\ Go(c, "ioStop")
          /\ UNCHANGED fate
  /\ UNCHANGED <<stopped, pending, mutex, profile, rates, calls, history>>

\* io_service_.stop() and reset(): a thread that waits in run() leaves it if it
\* notices before the reset
ioStop(c) ==
  /\ At(c, "ioStop")
  /\ \E out \in SUBSET {t \in Timers : at[t] = "wait"} :
       at' = [t \in Callers \cup Timers |-> IF t \in out THEN "exit" ELSE
                                            IF t = c THEN "idle" ELSE at[t]]
  /\ UNCHANGED <<timing, mutex, fate, profile, rates, calls, history>>

-----------------------------------------------------------------------------
(* updateData(), at every transfer, and the timer's thread.                *)

updateDataLock(c) ==
  /\ mutex = None
  /\ Begin(c, "updateData")
  /\ mutex' = c
  /\ contended' = (contended \/ \E d \in Callers : at[d] \in {"started", "clear"})
  /\ UNCHANGED <<timing, fate, profile, rates, overlapped, carried>>

updateDataUnlock(c) ==
  /\ At(c, "updateData")
  /\ mutex' = None
  /\ Go(c, "idle")
  /\ UNCHANGED <<timing, fate, profile, rates, calls, history>>

\* io_service::run of timer thread t: a wait that expired or was cancelled, or,
\* when none is left, the end
fire(t) ==
  /\ At(t, "wait")
  /\ IF pending > 0 THEN pending' = pending - 1 /\ Go(t, "run")
                    ELSE Go(t, "exit") /\ UNCHANGED pending
  /\ UNCHANGED <<stopped, thread, mutex, fate, profile, rates, calls, history>>

\* Mutant of run: it does not look at stopped_.
runNeverLooks(t) ==
  /\ At(t, "run")
  /\ mutex = None /\ mutex' = t
  /\ Go(t, "profile")
  /\ UNCHANGED <<timing, fate, profile, rates, calls, history>>

run(t) ==
  /\ At(t, "run")
  /\ IF stopped THEN Go(t, "wait") /\ UNCHANGED mutex
                ELSE mutex = None /\ mutex' = t /\ Go(t, "profile")
  /\ UNCHANGED <<timing, fate, profile, rates, calls, history>>

\* Mutant of run: a speed of zero leaves the timer unarmed.
runLockedArmsOnlyForData(t) ==
  /\ At(t, "profile")
  /\ \E cbs \in Speeds :
       IF cbs > 0 THEN handleNetworkProfiler(cbs) /\ pending' = pending + 1
                  ELSE UNCHANGED <<profile, rates, pending>>
  /\ mutex' = None
  /\ Go(t, "wait")
  /\ UNCHANGED <<stopped, thread, fate, calls, history>>

\* the handler's body under the mutex; the timer is armed again in any case
runLocked(t) ==
  /\ At(t, "profile")
  /\ \E cbs \in Speeds : IF cbs > 0 THEN handleNetworkProfiler(cbs)
                                    ELSE UNCHANGED <<profile, rates>>
  /\ pending' = pending + 1
  /\ mutex' = None
  /\ Go(t, "wait")
  /\ UNCHANGED <<stopped, thread, fate, calls, history>>

-----------------------------------------------------------------------------
Init ==
  /\ stopped = TRUE /\ thread = None /\ pending = 0 /\ mutex = None
  /\ at = [t \in Callers \cup Timers |-> IF t \in Callers THEN "idle" ELSE "unborn"]
  /\ fate = "runs"
  /\ oldCbs = 0 /\ stableNetCounter = 0 /\ networkErrorCounter = 0
  /\ currentNetwork = Highest
  /\ byteRate = Default /\ calculated = Default
  /\ calls = 0
  /\ overlapped = FALSE /\ contended = FALSE /\ carried = FALSE

Call(c)   == startTest(c) \/ stopTest(c) \/ updateDataLock(c)
Caller(c) == \/ startSet(c) \/ clear(c) \/ launch(c) \/ sessionStarted(c)
             \/ stopSet(c) \/ join(c) \/ ioStop(c) \/ updateDataUnlock(c)
Timer(t)  == fire(t) \/ run(t) \/ runLocked(t)

Next == \/ \E c \in Callers : Call(c) \/ Caller(c)
        \/ \E t \in Timers : Timer(t)

\* threads go on, and a timer that is armed fires; nothing makes a session call
Fairness == /\ \A c \in Callers : WF_vars(Caller(c))
            /\ \A t \in Timers : WF_vars(Timer(t))

Spec == Init /\ [][Next]_vars /\ Fairness

-----------------------------------------------------------------------------
(* Properties.                                                             *)

TypeOK ==
  /\ stopped \in BOOLEAN /\ thread \in Timers \cup {None} /\ pending \in Nat
  /\ mutex \in Callers \cup Timers \cup {None}
  /\ at \in [Callers \cup Timers -> CallerSteps \cup TimerSteps]
  /\ fate \in {"runs", "clearThrew", "overwrote", "joinedTwice"}
  /\ byteRate \in Nat /\ calculated \in Nat /\ oldCbs \in Nat
  /\ stableNetCounter \in 0 .. StableNetworkTrigger + 1
  /\ networkErrorCounter \in 0 .. NetworkErrorLimit
  /\ currentNetwork \in VeryLow .. Highest
  /\ calls \in 0 .. MaxCalls
  /\ overlapped \in BOOLEAN /\ contended \in BOOLEAN /\ carried \in BOOLEAN

\* start() and stop() called one at a time, and no transfer during start(), are
\* enough for the process to live: clear() finds the mutex free, no joinable
\* thread is overwritten and none is joined twice.
OneOwnerIsSafe == ~overlapped /\ ~contended => Runs

\* Called one at a time they also leave one timer thread at most, with one wait
\* at most (two waits would cancel each other for ever, each arming the other),
\* and a stop() that has returned leaves no thread.
OneTimer ==
  ~overlapped => /\ Cardinality({t \in Timers : Alive(t)}) <= 1
                 /\ pending <= 1
                 /\ (stopped /\ \A c \in Callers : ~Busy(c)) => \A t \in Timers : ~Alive(t)

\* The metrics tick as long as they are started: a timer thread that waits while
\* nobody stopped it has a wait to run, whatever it measured before.
StartedMetricsTick ==
  ~overlapped => \A t \in Timers : (at[t] = "wait" /\ ~stopped) => pending = 1

\* One owner, one timer thread, and one wait that is always there.
OneOwnerOneTimer == TypeOK /\ OneOwnerIsSafe /\ OneTimer /\ StartedMetricsTick

\* The rate is above that of the settings only in a session that began with the
\* network type of an earlier one, which clear() leaves as it is.
AboveSettingsOnlyIfCarried == (byteRate > Default \/ calculated > Default) => carried

\* The encoder and the metrics agree on every verdict: a worse type never raises
\* the rate, a better one never lowers it but to that of the settings, and without
\* a change of type, at either end of the scale too, the rate moves only when a
\* session begins.
RateFollowsType ==
  [][/\ currentNetwork' < currentNetwork => byteRate' <= byteRate /\ calculated' = byteRate'
     /\ currentNetwork' > currentNetwork => byteRate' >= byteRate \/ byteRate' = Default
     /\ (currentNetwork' = currentNetwork /\ byteRate' # byteRate) =>
          \E c \in Callers : at[c] = "sessionStarted" /\ at'[c] = "idle"]_vars

\* The encoder has the rate that the verdicts on the network give, and no other.
RateFollowsVerdicts == []AboveSettingsOnlyIfCarried /\ RateFollowsType

\* stop() always returns: the handler it may find in the middle arms the timer
\* once more, finds stopped_ set when that expires, and ends; unless a start()
\* that overlaps it lets the thread go on.
StopReturns ==
  \A c \in Callers : at[c] = "join" ~> (at[c] # "join" \/ overlapped \/ ~Runs)
=============================================================================
