------------------------ MODULE NetworkMetricsProofs ------------------------
(* Proofs about NetworkMetrics, for any number of threads and calls, any   *)
(* settings and any length of the scale of networks.                       *)
EXTENDS NetworkMetrics, FiniteSetTheorems, TLAPS

-----------------------------------------------------------------------------
(* Ten per cent in integers.                                               *)

\* A tenth is a part of the rate, and what is left of a rate is one.
LEMMA ShareIsLess ==
  ASSUME NEW r \in Nat
  PROVE  /\ newByteRateFromPercentage(r) \in Nat
         /\ r - newByteRateFromPercentage(r) \in Nat
         /\ r > 0 => r - newByteRateFromPercentage(r) > 0
  BY DEF newByteRateFromPercentage

\* The lower of two rates stays the lower when both drop.
LEMMA DropIsMonotone ==
  ASSUME NEW x \in Nat, NEW y \in Nat, x <= y
  PROVE  x - newByteRateFromPercentage(x) <= y - newByteRateFromPercentage(y)
  BY DEF newByteRateFromPercentage

\* A raise makes good one drop at most.
LEMMA RaiseUndoesADrop ==
  ASSUME NEW x \in Nat, NEW y \in Nat, x <= y - newByteRateFromPercentage(y)
  PROVE  x + newByteRateFromPercentage(x) <= y
<1>1. newByteRateFromPercentage(x) <= newByteRateFromPercentage(y)
  BY DEF newByteRateFromPercentage
<1>2. newByteRateFromPercentage(x) \in Nat /\ newByteRateFromPercentage(y) \in Nat
  BY DEF newByteRateFromPercentage
<1> QED BY <1>1, <1>2

\* The ends of the scale of networks.
LEMMA Scale ==
  ASSUME NEW n \in VeryLow .. Highest
  PROVE  /\ Lower(n) \in VeryLow .. Highest /\ Raise(n) \in VeryLow .. Highest
         /\ Lower(n) <= n /\ (Lower(n) # n => Lower(n) = n - 1)
         /\ n <= Raise(n) /\ (Raise(n) # n => Raise(n) = n + 1)
  BY LimitAssumption DEF Lower, Raise, VeryLow

\* What a tick does to the profile: the type moves by one, and the rates with it.
LEMMA Profiled ==
  ASSUME TypeOK, NEW cbs \in Nat, handleNetworkProfiler(cbs)
  PROVE  /\ oldCbs' \in Nat
         /\ networkErrorCounter' \in 0 .. NetworkErrorLimit
         /\ stableNetCounter' \in 0 .. StableNetworkTrigger + 1
         /\ \/ currentNetwork' = currentNetwork /\ UNCHANGED rates
            \/ /\ currentNetwork' = currentNetwork - 1 /\ currentNetwork' \in VeryLow .. Highest
               /\ networkPerformanceMetricsChanged(currentNetwork', byteRate - newByteRateFromPercentage(byteRate))
            \/ /\ currentNetwork' = currentNetwork + 1 /\ currentNetwork' \in VeryLow .. Highest
               /\ networkPerformanceMetricsChanged(currentNetwork', byteRate + newByteRateFromPercentage(byteRate))
<1> DEFINE verdict == Verdict(cbs)
<1> DEFINE share == newByteRateFromPercentage(byteRate)
<1> USE DEF handleNetworkProfiler, notifyListenersIfNeeded
<1>0. currentNetwork \in VeryLow .. Highest /\ currentNetwork \in Int
  BY LimitAssumption DEF TypeOK, VeryLow
<1>1. oldCbs' \in Nat
  OBVIOUS
<1>2. networkErrorCounter' \in 0 .. NetworkErrorLimit
  BY LimitAssumption DEF TypeOK, Verdict
<1>3. stableNetCounter' \in 0 .. StableNetworkTrigger + 1
  BY LimitAssumption DEF TypeOK, Verdict
<1>4. CASE verdict = "down"
  <2>1. currentNetwork' = Lower(currentNetwork)
    BY <1>4
  <2>2. IF currentNetwork' # currentNetwork
        THEN networkPerformanceMetricsChanged(currentNetwork', byteRate - share)
        ELSE UNCHANGED rates
    BY <1>4, <2>1
  <2> QED BY <1>0, <1>1, <1>2, <1>3, <2>1, <2>2, Scale
<1>5. CASE verdict = "up"
  <2>1. currentNetwork' = Raise(currentNetwork)
    BY <1>5
  <2>2. IF currentNetwork' # currentNetwork
        THEN networkPerformanceMetricsChanged(currentNetwork', byteRate + share)
        ELSE UNCHANGED rates
    BY <1>5, <2>1
  <2> QED BY <1>0, <1>1, <1>2, <1>3, <2>1, <2>2, Scale
<1>6. CASE verdict \notin {"down", "up"}
  <2>1. currentNetwork' = currentNetwork /\ UNCHANGED rates
    BY <1>6
  <2> QED BY <1>1, <1>2, <1>3, <2>1
<1> QED BY <1>4, <1>5, <1>6

-----------------------------------------------------------------------------
(* Types.                                                                  *)

\* A drop or a raise leaves rates.
LEMMA RatesAreRates ==
  ASSUME TypeOK, NEW type, NEW r \in Nat, networkPerformanceMetricsChanged(type, r)
  PROVE  byteRate' \in Nat /\ calculated' \in Nat
  BY RateAssumption DEF TypeOK, networkPerformanceMetricsChanged, updateCurrentMetrics, setByteRate, rates

LEMMA TypeInit == Init => TypeOK
<1> SUFFICES ASSUME Init PROVE TypeOK
  OBVIOUS
<1>1. at \in [Callers \cup Timers -> CallerSteps \cup TimerSteps]
  BY DEF Init, CallerSteps, TimerSteps
<1>2. currentNetwork \in VeryLow .. Highest /\ byteRate \in Nat /\ calculated \in Nat
  BY RateAssumption, LimitAssumption DEF Init, VeryLow
<1>3. /\ calls \in 0 .. MaxCalls /\ oldCbs \in Nat /\ stableNetCounter \in 0 .. StableNetworkTrigger + 1
      /\ networkErrorCounter \in 0 .. NetworkErrorLimit /\ pending \in Nat
  BY LimitAssumption DEF Init
<1> QED BY <1>1, <1>2, <1>3 DEF Init, TypeOK

LEMMA TypeNext == TypeOK /\ [Next]_vars => TypeOK'
<1> SUFFICES ASSUME TypeOK, [Next]_vars PROVE TypeOK'
  OBVIOUS
<1> USE DEF TypeOK, At, Go, timing, profile, rates, history
<1>1. ASSUME NEW c \in Callers, startTest(c) PROVE TypeOK'
  BY <1>1, LimitAssumption DEF startTest, Begin, Overlap, CallerSteps
<1>2. ASSUME NEW c \in Callers, stopTest(c) PROVE TypeOK'
  BY <1>2, LimitAssumption DEF stopTest, Begin, Overlap, CallerSteps
<1>3. ASSUME NEW c \in Callers, updateDataLock(c) PROVE TypeOK'
  BY <1>3, LimitAssumption DEF updateDataLock, Begin, CallerSteps
<1>4. ASSUME NEW c \in Callers, startSet(c) PROVE TypeOK'
  BY <1>4 DEF startSet, CallerSteps
<1>5. ASSUME NEW c \in Callers, clear(c) PROVE TypeOK'
  BY <1>5, LimitAssumption DEF clear, CallerSteps
<1>6. ASSUME NEW c \in Callers, launch(c) PROVE TypeOK'
  BY <1>6 DEF launch, CallerSteps, TimerSteps
<1>7. ASSUME NEW c \in Callers, sessionStarted(c) PROVE TypeOK'
  BY <1>7, RateAssumption DEF sessionStarted, updateCurrentMetrics, setByteRate, CallerSteps
<1>8. ASSUME NEW c \in Callers, stopSet(c) PROVE TypeOK'
  BY <1>8 DEF stopSet, CallerSteps
<1>9. ASSUME NEW c \in Callers, join(c) PROVE TypeOK'
  BY <1>9 DEF join, CallerSteps
<1>10. ASSUME NEW c \in Callers, ioStop(c) PROVE TypeOK'
  BY <1>10 DEF ioStop, CallerSteps, TimerSteps
<1>11. ASSUME NEW c \in Callers, updateDataUnlock(c) PROVE TypeOK'
  BY <1>11 DEF updateDataUnlock, CallerSteps
<1>12. ASSUME NEW t \in Timers, fire(t) PROVE TypeOK'
  BY <1>12 DEF fire, TimerSteps
<1>13. ASSUME NEW t \in Timers, run(t) PROVE TypeOK'
  BY <1>13 DEF run, TimerSteps
<1>14. ASSUME NEW t \in Timers, runLocked(t) PROVE TypeOK'
  <2>1. PICK cbs \in Speeds : IF cbs > 0 THEN handleNetworkProfiler(cbs) ELSE UNCHANGED <<profile, rates>>
    BY <1>14 DEF runLocked
  <2>2. /\ oldCbs' \in Nat /\ networkErrorCounter' \in 0 .. NetworkErrorLimit
        /\ stableNetCounter' \in 0 .. StableNetworkTrigger + 1
        /\ currentNetwork' \in VeryLow .. Highest /\ byteRate' \in Nat /\ calculated' \in Nat
    <3>1. CASE cbs > 0
      <4>1. cbs \in Nat /\ handleNetworkProfiler(cbs)
        BY <2>1, <3>1, RateAssumption
      <4>2. /\ byteRate - newByteRateFromPercentage(byteRate) \in Nat
            /\ byteRate + newByteRateFromPercentage(byteRate) \in Nat
        <5>1. byteRate \in Nat
          OBVIOUS
        <5>2. /\ newByteRateFromPercentage(byteRate) \in Nat
              /\ byteRate - newByteRateFromPercentage(byteRate) \in Nat
          BY <5>1, ShareIsLess
        <5> QED BY <5>1, <5>2
      <4> QED BY <4>1, <4>2, Profiled, RatesAreRates
    <3>2. CASE ~(cbs > 0)
      BY <2>1, <3>2
    <3> QED BY <3>1, <3>2
  <2>3. pending' \in Nat /\ mutex' = None /\ at' = [at EXCEPT ![t] = "wait"]
    BY <1>14 DEF runLocked
  <2>4. UNCHANGED <<stopped, thread, fate, calls, history>>
    BY <1>14 DEF runLocked
  <2> QED BY <2>2, <2>3, <2>4 DEF TimerSteps
<1>15. CASE UNCHANGED vars
  BY <1>15 DEF vars
<1> QED BY <1>1, <1>2, <1>3, <1>4, <1>5, <1>6, <1>7, <1>8, <1>9, <1>10, <1>11, <1>12, <1>13, <1>14, <1>15
        DEF Next, Call, Caller, Timer

\* Every variable has its type, for any number of threads and calls.
THEOREM TypeCorrect == Spec => []TypeOK
  BY TypeInit, TypeNext, PTL DEF Spec

-----------------------------------------------------------------------------
(* One owner.  A call that is under way says what stop_ and thread_ are,   *)
(* and the thread that lives is the one in thread_: so a call that begins  *)
(* alone finds the metrics started or stopped, and nothing in between.     *)

\* Callers are where callers are, timers where timers are.
Steps == /\ \A c \in Callers : at[c] \in CallerSteps
         /\ \A t \in Timers : at[t] \in TimerSteps

\* The mutex is free, or held by a thread that is at work under it.
MutexHeld == \/ mutex = None
             \/ mutex \in Callers /\ at[mutex] = "updateData"
             \/ mutex \in Timers /\ at[mutex] = "profile"

\* Without contention no start() is before the end of clear() while bytes are counted.
Apart == ~contended => \A c, d \in Callers : at[c] \in {"started", "clear"} => at[d] # "updateData"

AreStopped == stopped /\ thread = None
AreStarted == ~stopped /\ thread \in Timers /\ Alive(thread)

OneBusy == \A c, d \in Callers : Busy(c) /\ Busy(d) => c = d

\* What a call under way knows.
Knows(c) ==
  /\ at[c] \in {"started", "ioStop"} => AreStopped
  /\ at[c] \in {"clear", "launch"} => ~stopped /\ thread = None
  /\ at[c] \in {"sessionStarted", "stopping"} => AreStarted
  /\ at[c] = "join" => stopped /\ thread \in Timers

Resting == (\A c \in Callers : ~Busy(c)) => AreStopped \/ AreStarted

\* The thread that lives is the one in thread_, and it has at most one wait.
OneAlive ==
  /\ \A t \in Timers : Alive(t) => t = thread
  /\ thread = None => pending = 0
  /\ \A t \in Timers : t = thread =>
        /\ at[t] # "unborn"
        /\ at[t] \in {"run", "profile", "exit"} => pending = 0
        /\ at[t] = "wait" => pending <= 1 /\ (~stopped => pending = 1)

Owned == /\ OneBusy /\ (\A c \in Callers : Knows(c)) /\ Resting /\ OneAlive
         /\ fate = "runs" \/ contended

OwnerInv == TypeOK /\ Steps /\ MutexHeld /\ Apart /\ (~overlapped => Owned)

LEMMA OwnerInit == Init => OwnerInv
<1> SUFFICES ASSUME Init PROVE OwnerInv
  OBVIOUS
<1>1. TypeOK
  BY TypeInit
<1>2. /\ \A c \in Callers : at[c] = "idle"
      /\ \A t \in Timers : at[t] = "unborn"
  BY ThreadAssumption DEF Init
<1>3. Steps /\ MutexHeld /\ Apart
  BY <1>2 DEF Init, Steps, MutexHeld, Apart, CallerSteps, TimerSteps
<1>4. OneBusy /\ (\A c \in Callers : Knows(c)) /\ Resting
  BY <1>2 DEF Init, OneBusy, Knows, Resting, AreStopped, Busy
<1>5. OneAlive
  BY <1>2, ThreadAssumption DEF Init, OneAlive, Alive
<1> QED BY <1>1, <1>3, <1>4, <1>5 DEF OwnerInv, Owned, Init

\* Every step leaves threads where their kind may be, and the mutex with who works under it.
LEMMA PlacesNext == OwnerInv /\ [Next]_vars => Steps' /\ MutexHeld' /\ Apart'
<1> SUFFICES ASSUME OwnerInv, [Next]_vars PROVE Steps' /\ MutexHeld' /\ Apart'
  OBVIOUS
<1> USE ThreadAssumption DEF OwnerInv, TypeOK, Steps, MutexHeld, Apart, At, Go, timing, history, CallerSteps, TimerSteps
<1>1. ASSUME NEW c \in Callers, startTest(c) PROVE Steps' /\ MutexHeld' /\ Apart'
  BY <1>1 DEF startTest, Begin, Overlap
<1>2. ASSUME NEW c \in Callers, stopTest(c) PROVE Steps' /\ MutexHeld' /\ Apart'
  BY <1>2 DEF stopTest, Begin, Overlap
<1>3. ASSUME NEW c \in Callers, updateDataLock(c) PROVE Steps' /\ MutexHeld' /\ Apart'
  BY <1>3 DEF updateDataLock, Begin
<1>4. ASSUME NEW c \in Callers, startSet(c) PROVE Steps' /\ MutexHeld' /\ Apart'
  BY <1>4 DEF startSet
<1>5. ASSUME NEW c \in Callers, clear(c) PROVE Steps' /\ MutexHeld' /\ Apart'
  BY <1>5 DEF clear
<1>6. ASSUME NEW c \in Callers, launch(c) PROVE Steps' /\ MutexHeld' /\ Apart'
  BY <1>6 DEF launch
<1>7. ASSUME NEW c \in Callers, sessionStarted(c) PROVE Steps' /\ MutexHeld' /\ Apart'
  BY <1>7 DEF sessionStarted
<1>8. ASSUME NEW c \in Callers, stopSet(c) PROVE Steps' /\ MutexHeld' /\ Apart'
  BY <1>8 DEF stopSet
<1>9. ASSUME NEW c \in Callers, join(c) PROVE Steps' /\ MutexHeld' /\ Apart'
  BY <1>9 DEF join
<1>10. ASSUME NEW c \in Callers, ioStop(c) PROVE Steps' /\ MutexHeld' /\ Apart'
  BY <1>10 DEF ioStop
<1>11. ASSUME NEW c \in Callers, updateDataUnlock(c) PROVE Steps' /\ MutexHeld' /\ Apart'
  BY <1>11 DEF updateDataUnlock
<1>12. ASSUME NEW t \in Timers, fire(t) PROVE Steps' /\ MutexHeld' /\ Apart'
  BY <1>12 DEF fire
<1>13. ASSUME NEW t \in Timers, run(t) PROVE Steps' /\ MutexHeld' /\ Apart'
  BY <1>13 DEF run
<1>14. ASSUME NEW t \in Timers, runLocked(t) PROVE Steps' /\ MutexHeld' /\ Apart'
  BY <1>14 DEF runLocked
<1>15. CASE UNCHANGED vars
  BY <1>15 DEF vars
<1> QED BY <1>1, <1>2, <1>3, <1>4, <1>5, <1>6, <1>7, <1>8, <1>9, <1>10, <1>11, <1>12, <1>13, <1>14, <1>15
        DEF Next, Call, Caller, Timer

\* Every step of a single owner leaves a call that knows what it leaves behind.
LEMMA OwnedNext == OwnerInv /\ [Next]_vars /\ ~overlapped' => Owned'
<1> SUFFICES ASSUME OwnerInv, [Next]_vars, ~overlapped' PROVE Owned'
  OBVIOUS
<1> USE ThreadAssumption DEF OwnerInv, TypeOK, Steps, Owned, OneBusy, Knows, Resting, OneAlive, AreStopped,
        AreStarted, Busy, Alive, Runs, At, Go, timing, history, CallerSteps, TimerSteps
<1>1. ASSUME NEW c \in Callers, startTest(c) PROVE Owned'
  <2>1. ~overlapped /\ \A d \in Callers : ~Busy(d)
    BY <1>1 DEF startTest, Begin, Overlap
  <2>2. OneBusy'
    BY <2>1, <1>1 DEF startTest, Begin, Overlap
  <2>3. (\A d \in Callers : Knows(d))'
    BY <2>1, <1>1 DEF startTest, Begin, Overlap
  <2>4. Resting'
    BY <2>1, <1>1 DEF startTest, Begin, Overlap
  <2>5. OneAlive'
    BY <2>1, <1>1 DEF startTest, Begin, Overlap
  <2>6. (fate = "runs" \/ contended)'
    BY <2>1, <1>1 DEF startTest, Begin, Overlap
  <2> QED BY <2>2, <2>3, <2>4, <2>5, <2>6
<1>2. ASSUME NEW c \in Callers, stopTest(c) PROVE Owned'
  <2>1. ~overlapped /\ \A d \in Callers : ~Busy(d)
    BY <1>2 DEF stopTest, Begin, Overlap
  <2>2. OneBusy'
    BY <2>1, <1>2 DEF stopTest, Begin, Overlap
  <2>3. (\A d \in Callers : Knows(d))'
    BY <2>1, <1>2 DEF stopTest, Begin, Overlap
  <2>4. Resting'
    BY <2>1, <1>2 DEF stopTest, Begin, Overlap
  <2>5. OneAlive'
    BY <2>1, <1>2 DEF stopTest, Begin, Overlap
  <2>6. (fate = "runs" \/ contended)'
    BY <2>1, <1>2 DEF stopTest, Begin, Overlap
  <2> QED BY <2>2, <2>3, <2>4, <2>5, <2>6
<1>3. ASSUME NEW c \in Callers, updateDataLock(c) PROVE Owned'
  <2>1. ~overlapped
    BY <1>3 DEF updateDataLock, Begin
  <2>2. OneBusy'
    BY <2>1, <1>3 DEF updateDataLock, Begin
  <2>3. (\A d \in Callers : Knows(d))'
    BY <2>1, <1>3 DEF updateDataLock, Begin
  <2>4. Resting'
    BY <2>1, <1>3 DEF updateDataLock, Begin
  <2>5. OneAlive'
    BY <2>1, <1>3 DEF updateDataLock, Begin
  <2>6. (fate = "runs" \/ contended)'
    BY <2>1, <1>3 DEF updateDataLock, Begin
  <2> QED BY <2>2, <2>3, <2>4, <2>5, <2>6
<1>4. ASSUME NEW c \in Callers, startSet(c) PROVE Owned'
  <2>1. ~overlapped
    BY <1>4 DEF startSet
  <2>2. OneBusy'
    BY <2>1, <1>4 DEF startSet
  <2>3. (\A d \in Callers : Knows(d))'
    BY <2>1, <1>4 DEF startSet
  <2>4. Resting'
    BY <2>1, <1>4 DEF startSet
  <2>5. OneAlive'
    BY <2>1, <1>4 DEF startSet
  <2>6. (fate = "runs" \/ contended)'
    BY <2>1, <1>4 DEF startSet
  <2> QED BY <2>2, <2>3, <2>4, <2>5, <2>6
<1>5. ASSUME NEW c \in Callers, clear(c) PROVE Owned'
  <2>1. ~overlapped
    BY <1>5 DEF clear
  <2>2. OneBusy'
    BY <2>1, <1>5 DEF clear
  <2>3. (\A d \in Callers : Knows(d))'
    BY <2>1, <1>5 DEF clear
  <2>4. Resting'
    BY <2>1, <1>5 DEF clear
  <2>5. OneAlive'
    BY <2>1, <1>5 DEF clear
  <2>6. (fate = "runs" \/ contended)'
    BY <2>1, <1>5 DEF clear, MutexHeld, Apart
  <2> QED BY <2>2, <2>3, <2>4, <2>5, <2>6
<1>6. ASSUME NEW c \in Callers, launch(c) PROVE Owned'
  <2>1. ~overlapped
    BY <1>6 DEF launch
  <2>2. OneBusy'
    BY <2>1, <1>6 DEF launch
  <2>3. (\A d \in Callers : Knows(d))'
    BY <2>1, <1>6 DEF launch
  <2>4. Resting'
    BY <2>1, <1>6 DEF launch
  <2>5. OneAlive'
    BY <2>1, <1>6 DEF launch
  <2>6. (fate = "runs" \/ contended)'
    BY <2>1, <1>6 DEF launch
  <2> QED BY <2>2, <2>3, <2>4, <2>5, <2>6
<1>7. ASSUME NEW c \in Callers, sessionStarted(c) PROVE Owned'
  <2>1. ~overlapped
    BY <1>7 DEF sessionStarted
  <2>2. OneBusy'
    BY <2>1, <1>7 DEF sessionStarted
  <2>3. (\A d \in Callers : Knows(d))'
    BY <2>1, <1>7 DEF sessionStarted
  <2>4. Resting'
    BY <2>1, <1>7 DEF sessionStarted
  <2>5. OneAlive'
    BY <2>1, <1>7 DEF sessionStarted
  <2>6. (fate = "runs" \/ contended)'
    BY <2>1, <1>7 DEF sessionStarted
  <2> QED BY <2>2, <2>3, <2>4, <2>5, <2>6
<1>8. ASSUME NEW c \in Callers, stopSet(c) PROVE Owned'
  <2>1. ~overlapped
    BY <1>8 DEF stopSet
  <2>2. OneBusy'
    BY <2>1, <1>8 DEF stopSet
  <2>3. (\A d \in Callers : Knows(d))'
    BY <2>1, <1>8 DEF stopSet
  <2>4. Resting'
    BY <2>1, <1>8 DEF stopSet
  <2>5. OneAlive'
    BY <2>1, <1>8 DEF stopSet
  <2>6. (fate = "runs" \/ contended)'
    BY <2>1, <1>8 DEF stopSet
  <2> QED BY <2>2, <2>3, <2>4, <2>5, <2>6
<1>9. ASSUME NEW c \in Callers, join(c) PROVE Owned'
  <2>1. ~overlapped
    BY <1>9 DEF join
  <2>2. OneBusy'
    BY <2>1, <1>9 DEF join
  <2>3. (\A d \in Callers : Knows(d))'
    BY <2>1, <1>9 DEF join
  <2>4. Resting'
    BY <2>1, <1>9 DEF join
  <2>5. OneAlive'
    BY <2>1, <1>9 DEF join
  <2>6. (fate = "runs" \/ contended)'
    BY <2>1, <1>9 DEF join
  <2> QED BY <2>2, <2>3, <2>4, <2>5, <2>6
<1>10. ASSUME NEW c \in Callers, ioStop(c) PROVE Owned'
  <2>1. ~overlapped
    BY <1>10 DEF ioStop
  <2>2. OneBusy'
    BY <2>1, <1>10 DEF ioStop
  <2>3. (\A d \in Callers : Knows(d))'
    BY <2>1, <1>10 DEF ioStop
  <2>4. Resting'
    BY <2>1, <1>10 DEF ioStop
  <2>5. OneAlive'
    BY <2>1, <1>10 DEF ioStop
  <2>6. (fate = "runs" \/ contended)'
    BY <2>1, <1>10 DEF ioStop
  <2> QED BY <2>2, <2>3, <2>4, <2>5, <2>6
<1>11. ASSUME NEW c \in Callers, updateDataUnlock(c) PROVE Owned'
  <2>1. ~overlapped
    BY <1>11 DEF updateDataUnlock
  <2>2. OneBusy'
    BY <2>1, <1>11 DEF updateDataUnlock
  <2>3. (\A d \in Callers : Knows(d))'
    BY <2>1, <1>11 DEF updateDataUnlock
  <2>4. Resting'
    BY <2>1, <1>11 DEF updateDataUnlock
  <2>5. OneAlive'
    BY <2>1, <1>11 DEF updateDataUnlock
  <2>6. (fate = "runs" \/ contended)'
    BY <2>1, <1>11 DEF updateDataUnlock
  <2> QED BY <2>2, <2>3, <2>4, <2>5, <2>6
<1>12. ASSUME NEW t \in Timers, fire(t) PROVE Owned'
  <2>1. ~overlapped
    BY <1>12 DEF fire
  <2>2. OneBusy'
    BY <2>1, <1>12 DEF fire
  <2>3. (\A d \in Callers : Knows(d))'
    BY <2>1, <1>12 DEF fire
  <2>4. Resting'
    BY <2>1, <1>12 DEF fire
  <2>5. OneAlive'
    BY <2>1, <1>12 DEF fire
  <2>6. (fate = "runs" \/ contended)'
    BY <2>1, <1>12 DEF fire
  <2> QED BY <2>2, <2>3, <2>4, <2>5, <2>6
<1>13. ASSUME NEW t \in Timers, run(t) PROVE Owned'
  <2>1. ~overlapped
    BY <1>13 DEF run
  <2>2. OneBusy'
    BY <2>1, <1>13 DEF run
  <2>3. (\A d \in Callers : Knows(d))'
    BY <2>1, <1>13 DEF run
  <2>4. Resting'
    BY <2>1, <1>13 DEF run
  <2>5. OneAlive'
    BY <2>1, <1>13 DEF run
  <2>6. (fate = "runs" \/ contended)'
    BY <2>1, <1>13 DEF run
  <2> QED BY <2>2, <2>3, <2>4, <2>5, <2>6
<1>14. ASSUME NEW t \in Timers, runLocked(t) PROVE Owned'
  <2>1. ~overlapped
    BY <1>14 DEF runLocked
  <2>2. OneBusy'
    BY <2>1, <1>14 DEF runLocked
  <2>3. (\A d \in Callers : Knows(d))'
    BY <2>1, <1>14 DEF runLocked
  <2>4. Resting'
    BY <2>1, <1>14 DEF runLocked
  <2>5. OneAlive'
    BY <2>1, <1>14 DEF runLocked
  <2>6. (fate = "runs" \/ contended)'
    BY <2>1, <1>14 DEF runLocked
  <2> QED BY <2>2, <2>3, <2>4, <2>5, <2>6
<1>15. CASE UNCHANGED vars
  BY <1>15 DEF vars
<1> QED BY <1>1, <1>2, <1>3, <1>4, <1>5, <1>6, <1>7, <1>8, <1>9, <1>10, <1>11, <1>12, <1>13, <1>14, <1>15
        DEF Next, Call, Caller, Timer

\* One thread that lives is a timer at most.
LEMMA OwnerImplies == OwnerInv => OneOwnerOneTimer
<1> SUFFICES ASSUME OwnerInv PROVE OneOwnerOneTimer
  OBVIOUS
<1>1. TypeOK /\ OneOwnerIsSafe
  BY DEF OwnerInv, Owned, OneOwnerIsSafe, Runs
<1>2. ASSUME ~overlapped PROVE Cardinality({t \in Timers : Alive(t)}) <= 1
  <2> DEFINE alive == {t \in Timers : Alive(t)}
  <2>1. alive = {} \/ alive = {thread}
    BY <1>2 DEF OwnerInv, Owned, OneAlive
  <2>2. Cardinality({}) = 0 /\ Cardinality({thread}) = 1
    BY FS_EmptySet, FS_Singleton
  <2> HIDE DEF alive
  <2>3. Cardinality(alive) <= 1
    BY <2>1, <2>2
  <2> QED BY <2>3 DEF alive
<1>3. ASSUME ~overlapped PROVE pending <= 1
  <2>1. thread \in Timers \/ thread = None
    BY DEF OwnerInv, TypeOK
  <2>2. thread \in Timers => at[thread] \in {"wait", "run", "profile", "exit"}
    BY <1>3 DEF OwnerInv, Owned, OneAlive, Steps, TimerSteps
  <2> QED BY <1>3, <2>1, <2>2 DEF OwnerInv, Owned, OneAlive
<1>4. ASSUME ~overlapped, stopped, \A c \in Callers : ~Busy(c)
      PROVE  \A t \in Timers : ~Alive(t)
  BY <1>4, ThreadAssumption DEF OwnerInv, Owned, Resting, AreStopped, AreStarted, OneAlive
<1>5. StartedMetricsTick
  BY DEF OwnerInv, Owned, OneAlive, StartedMetricsTick, Alive
<1> QED BY <1>1, <1>2, <1>3, <1>4, <1>5 DEF OneOwnerOneTimer, OneTimer

\* start() and stop() one at a time, and no transfer during start(): the process
\* lives, with one timer thread at most, one wait, and none after stop().
THEOREM OneOwner == Spec => []OneOwnerOneTimer
<1>1. OwnerInv /\ [Next]_vars => OwnerInv'
  <2> SUFFICES ASSUME OwnerInv, [Next]_vars PROVE OwnerInv'
    OBVIOUS
  <2>1. TypeOK'
    BY TypeNext DEF OwnerInv
  <2> QED BY <2>1, PlacesNext, OwnedNext DEF OwnerInv
<1> QED BY <1>1, OwnerInit, OwnerImplies, PTL DEF Spec

-----------------------------------------------------------------------------
(* The rate.  In a session that began on the best network, every type has  *)
(* the rate that the drops down to it leave of the settings', and the rate *)
(* asked for is no higher than that of the type: a drop takes both a step  *)
(* down, and a raise makes good one drop at most.                          *)

\* ceiling[n] is what the drops from Highest to n leave of Default.
Ceiling(ceiling) ==
  /\ ceiling[Highest] = Default
  /\ byteRate <= ceiling[currentNetwork]
  /\ \A n \in currentNetwork .. Highest - 1 :
       ceiling[n] = ceiling[n + 1] - newByteRateFromPercentage(ceiling[n + 1])

RateInv ==
  /\ TypeOK
  /\ byteRate > 0
  /\ ~carried => /\ calculated <= Default
                 /\ \E ceiling \in [VeryLow .. Highest -> 0 .. Default] : Ceiling(ceiling)

LEMMA RateInit == Init => RateInv
<1> SUFFICES ASSUME Init PROVE RateInv
  OBVIOUS
<1>1. TypeOK /\ byteRate > 0 /\ calculated <= Default
  BY TypeInit, RateAssumption DEF Init
<1> DEFINE ceiling == [n \in VeryLow .. Highest |-> Default]
<1>2. ceiling \in [VeryLow .. Highest -> 0 .. Default]
  BY RateAssumption
<1>3. Ceiling(ceiling)
  <2>1. Highest \in VeryLow .. Highest /\ Highest .. Highest - 1 = {}
    BY LimitAssumption DEF VeryLow
  <2>2. currentNetwork = Highest /\ byteRate = Default
    BY DEF Init
  <2> QED BY <2>1, <2>2, RateAssumption DEF Ceiling
<1> QED BY <1>1, <1>2, <1>3 DEF RateInv

\* Outside the timer's handler and the begin of a session the rates stay.
LEMMA RatesStay ==
  ASSUME TypeOK, [Next]_vars
  PROVE  \/ UNCHANGED <<byteRate, calculated, currentNetwork, carried>>
         \/ \E c \in Callers : sessionStarted(c)
         \/ \E t \in Timers : runLocked(t)
<1> USE DEF rates, history, profile
<1>1. ASSUME NEW c \in Callers, Call(c) \/ Caller(c), ~sessionStarted(c)
      PROVE  UNCHANGED <<byteRate, calculated, currentNetwork, carried>>
  BY <1>1 DEF Call, Caller, startTest, stopTest, updateDataLock, startSet, clear, launch, stopSet, join, ioStop, updateDataUnlock
<1>2. ASSUME NEW t \in Timers, Timer(t), ~runLocked(t)
      PROVE  UNCHANGED <<byteRate, calculated, currentNetwork, carried>>
  BY <1>2 DEF Timer, fire, run
<1>3. CASE UNCHANGED vars
  BY <1>3 DEF vars
<1> QED BY <1>1, <1>2, <1>3 DEF Next

\* A session begins with the settings' rate.
LEMMA RateBegins ==
  ASSUME TypeOK, NEW c \in Callers, sessionStarted(c)
  PROVE  /\ byteRate' = Default /\ calculated' = calculated /\ currentNetwork' = currentNetwork
         /\ ~carried' => ~carried /\ currentNetwork = Highest
         /\ at[c] = "sessionStarted" /\ at'[c] = "idle"
<1>1. at'[c] = "idle"
  BY DEF TypeOK, sessionStarted, Go
<1>2. byteRate' = Default
  BY RateAssumption DEF sessionStarted, updateCurrentMetrics, setByteRate
<1>3. calculated' = calculated /\ currentNetwork' = currentNetwork /\ at[c] = "sessionStarted"
  BY DEF sessionStarted, At, profile
<1>4. ASSUME ~carried' PROVE ~carried /\ currentNetwork = Highest
  BY <1>4 DEF sessionStarted
<1> QED BY <1>1, <1>2, <1>3, <1>4

\* The handler of the timer moves the type by one, and the rates with it, or neither.
LEMMA RateMoves ==
  ASSUME TypeOK, byteRate > 0, NEW t \in Timers, runLocked(t)
  PROVE  /\ carried' = carried
         /\ \/ currentNetwork' = currentNetwork /\ byteRate' = byteRate /\ calculated' = calculated
            \/ /\ currentNetwork' = currentNetwork - 1 /\ currentNetwork' \in VeryLow .. Highest
               /\ byteRate' = byteRate - newByteRateFromPercentage(byteRate)
               /\ calculated' = byteRate' /\ byteRate' > 0
            \/ /\ currentNetwork' = currentNetwork + 1 /\ currentNetwork' \in VeryLow .. Highest
               /\ calculated' = byteRate' /\ byteRate' > 0
               /\ byteRate' = byteRate + newByteRateFromPercentage(byteRate)
                  \/ (currentNetwork' = Highest /\ byteRate' = Default)
<1>1. carried' = carried
  BY DEF runLocked, history
<1>2. PICK cbs \in Speeds : IF cbs > 0 THEN handleNetworkProfiler(cbs) ELSE UNCHANGED <<profile, rates>>
  BY DEF runLocked
<1>3. byteRate \in Nat /\ currentNetwork \in VeryLow .. Highest /\ currentNetwork \in Nat /\ Highest \in Nat
  BY LimitAssumption DEF TypeOK, VeryLow
<1>4. CASE ~(cbs > 0)
  BY <1>1, <1>2, <1>4 DEF profile, rates
<1>5. CASE cbs > 0
  <2>1. handleNetworkProfiler(cbs) /\ cbs \in Nat
    BY <1>2, <1>5, RateAssumption
  <2>2. CASE currentNetwork' = currentNetwork /\ UNCHANGED rates
    BY <1>1, <2>2 DEF rates
  <2> DEFINE share == newByteRateFromPercentage(byteRate)
  <2>3. share \in Nat /\ byteRate - share \in Nat /\ byteRate - share > 0 /\ byteRate + share > 0
    <3>1. share \in Nat /\ byteRate - share \in Nat /\ (byteRate > 0 => byteRate - share > 0)
      BY <1>3, ShareIsLess
    <3> HIDE DEF share
    <3> QED BY <1>3, <3>1
  <2> HIDE DEF share
  <2>4. CASE /\ currentNetwork' = currentNetwork - 1 /\ currentNetwork' \in VeryLow .. Highest
             /\ networkPerformanceMetricsChanged(currentNetwork', byteRate - share)
    <3>1. currentNetwork' # Highest
      BY <1>3, <2>4
    <3>2. byteRate' = byteRate - share /\ calculated' = byteRate'
      BY <2>3, <2>4, <3>1 DEF networkPerformanceMetricsChanged, updateCurrentMetrics, setByteRate
    <3> QED BY <1>1, <2>3, <2>4, <3>2 DEF share
  <2>5. CASE /\ currentNetwork' = currentNetwork + 1 /\ currentNetwork' \in VeryLow .. Highest
             /\ networkPerformanceMetricsChanged(currentNetwork', byteRate + share)
    <3>1. calculated' = byteRate' /\ (byteRate' = byteRate + share
                                      \/ (currentNetwork' = Highest /\ byteRate' = Default))
      BY <2>3, <2>5, RateAssumption DEF networkPerformanceMetricsChanged, updateCurrentMetrics, setByteRate
    <3>2. byteRate' > 0
      BY <2>3, <3>1, RateAssumption
    <3> QED BY <1>1, <2>5, <3>1, <3>2 DEF share
  <2> QED BY <2>1, <2>2, <2>4, <2>5, Profiled DEF share
<1> QED BY <1>4, <1>5

\* A ceiling stays one: a drop finds or makes the next step down.
LEMMA CeilingNext ==
  ASSUME RateInv, [Next]_vars, ~carried'
  PROVE  \E ceiling \in [VeryLow .. Highest -> 0 .. Default] : Ceiling(ceiling)'
<1> DEFINE Scaled == [VeryLow .. Highest -> 0 .. Default]
<1>0. /\ TypeOK /\ byteRate > 0 /\ byteRate \in Nat /\ Default \in Nat /\ Highest \in Nat
      /\ currentNetwork \in VeryLow .. Highest /\ currentNetwork \in Nat
  BY RateAssumption, LimitAssumption DEF RateInv, TypeOK, VeryLow
<1>1. CASE UNCHANGED <<byteRate, calculated, currentNetwork, carried>>
  BY <1>1 DEF RateInv, Ceiling
<1>2. ASSUME NEW c \in Callers, sessionStarted(c) PROVE \E ceiling \in Scaled : Ceiling(ceiling)'
  <2>1. /\ byteRate' = Default /\ currentNetwork' = currentNetwork
        /\ ~carried /\ currentNetwork = Highest
    BY <1>0, <1>2, RateBegins
  <2>2. PICK ceiling \in Scaled : Ceiling(ceiling)
    BY <2>1 DEF RateInv
  <2>3. byteRate' <= ceiling[currentNetwork']
    BY <1>0, <2>1, <2>2 DEF Ceiling
  <2>4. Ceiling(ceiling)'
    BY <2>1, <2>2, <2>3 DEF Ceiling
  <2> QED BY <2>4
<1>3. ASSUME NEW t \in Timers, runLocked(t) PROVE \E ceiling \in Scaled : Ceiling(ceiling)'
  <2> DEFINE share == newByteRateFromPercentage(byteRate)
  <2>1. ~carried /\ share \in Nat
    BY <1>0, <1>3, RateMoves, ShareIsLess
  <2>2. PICK ceiling \in Scaled : Ceiling(ceiling)
    BY <2>1 DEF RateInv
  <2>3. \A n \in VeryLow .. Highest : ceiling[n] \in Nat /\ ceiling[n] <= Default
    BY <1>0, <2>2
  <2>4. CASE currentNetwork' = currentNetwork /\ byteRate' = byteRate
    BY <2>2, <2>4 DEF Ceiling
  <2>5. CASE /\ currentNetwork' = currentNetwork - 1 /\ currentNetwork' \in VeryLow .. Highest
             /\ byteRate' = byteRate - share
    <3> DEFINE top  == ceiling[currentNetwork]
    <3> DEFINE down == top - newByteRateFromPercentage(top)
    <3> DEFINE next == [ceiling EXCEPT ![currentNetwork - 1] = down]
    <3>1. top \in Nat /\ top <= Default /\ byteRate <= top
      BY <1>0, <2>2, <2>3 DEF Ceiling
    <3>2. newByteRateFromPercentage(top) \in Nat /\ down \in Nat
      BY <3>1, ShareIsLess
    <3>3. byteRate - share <= down
      BY <1>0, <3>1, DropIsMonotone
    <3>4. down <= Default
      <4> HIDE DEF top
      <4> QED BY <1>0, <3>1, <3>2
    <3> HIDE DEF down
    <3>5. next \in Scaled
      <4>1. down \in 0 .. Default
        BY <1>0, <3>2, <3>4
      <4> QED BY <2>2, <4>1
    <3>6. /\ next[currentNetwork - 1] = down
          /\ \A n \in currentNetwork .. Highest : next[n] = ceiling[n]
      BY <1>0, <2>2, <2>5 DEF VeryLow
    <3> HIDE DEF next
    <3>7. next[Highest] = Default /\ byteRate' <= next[currentNetwork']
      BY <1>0, <2>2, <2>5, <3>3, <3>6 DEF Ceiling
    <3>8. ASSUME NEW n \in currentNetwork' .. Highest - 1
          PROVE  next[n] = next[n + 1] - newByteRateFromPercentage(next[n + 1])
      <4>1. CASE n = currentNetwork - 1
        BY <1>0, <4>1, <3>6 DEF down
      <4>2. CASE n # currentNetwork - 1
        <5>1. n \in currentNetwork .. Highest - 1 /\ n + 1 \in currentNetwork .. Highest
          BY <1>0, <2>5, <4>2
        <5>2. next[n] = ceiling[n] /\ next[n + 1] = ceiling[n + 1]
          BY <1>0, <3>6, <5>1
        <5> QED BY <2>2, <5>1, <5>2 DEF Ceiling
      <4> QED BY <4>1, <4>2
    <3> QED BY <3>5, <3>7, <3>8 DEF Ceiling
  <2>6. CASE /\ currentNetwork' = currentNetwork + 1 /\ currentNetwork' \in VeryLow .. Highest
             /\ (byteRate' = byteRate + share \/ (currentNetwork' = Highest /\ byteRate' = Default))
    <3>1. byteRate' <= ceiling[currentNetwork + 1]
      <4>1. CASE byteRate' = byteRate + share
        <5>1. /\ ceiling[currentNetwork] \in Nat /\ ceiling[currentNetwork + 1] \in Nat
              /\ byteRate <= ceiling[currentNetwork]
          BY <1>0, <2>2, <2>3, <2>6 DEF Ceiling
        <5>2. currentNetwork \in currentNetwork .. Highest - 1
          BY <1>0, <2>6
        <5>3. ceiling[currentNetwork] = ceiling[currentNetwork + 1]
                                        - newByteRateFromPercentage(ceiling[currentNetwork + 1])
          BY <2>2, <5>2 DEF Ceiling
        <5>4. byteRate <= ceiling[currentNetwork + 1] - newByteRateFromPercentage(ceiling[currentNetwork + 1])
          BY <5>1, <5>3
        <5>5. byteRate + newByteRateFromPercentage(byteRate) <= ceiling[currentNetwork + 1]
          BY <1>0, <5>1, <5>4, RaiseUndoesADrop
        <5> QED BY <4>1, <5>5
      <4>2. CASE currentNetwork' = Highest /\ byteRate' = Default
        BY <1>0, <2>2, <2>6, <4>2 DEF Ceiling
      <4> QED BY <2>6, <4>1, <4>2
    <3>2. currentNetwork' .. Highest - 1 \subseteq currentNetwork .. Highest - 1
      BY <1>0, <2>6
    <3> QED BY <2>2, <2>6, <3>1, <3>2 DEF Ceiling
  <2> HIDE DEF share
  <2> QED BY <1>0, <1>3, <2>4, <2>5, <2>6, RateMoves DEF share
<1> HIDE DEF Scaled
<1>4. \E ceiling \in Scaled : Ceiling(ceiling)'
  BY <1>0, <1>1, <1>2, <1>3, RatesStay DEF Scaled
<1> QED BY <1>4 DEF Scaled

LEMMA RateNext == RateInv /\ [Next]_vars => RateInv'
<1> SUFFICES ASSUME RateInv, [Next]_vars PROVE RateInv'
  OBVIOUS
<1>1. TypeOK /\ byteRate > 0 /\ Default \in Nat \ {0} /\ TypeOK'
  BY TypeNext, RateAssumption DEF RateInv
<1>2. byteRate' > 0
  BY <1>1, RatesStay, RateBegins, RateMoves
<1>3. ASSUME ~carried' PROVE calculated' <= Default
  <2>1. PICK ceiling \in [VeryLow .. Highest -> 0 .. Default] : Ceiling(ceiling)'
    BY <1>3, CeilingNext
  <2>2. currentNetwork' \in VeryLow .. Highest /\ byteRate' \in Nat
    BY <1>1 DEF TypeOK
  <2>3. byteRate' <= Default
    <3>1. byteRate' <= ceiling[currentNetwork'] /\ ceiling[currentNetwork'] \in 0 .. Default
      BY <2>1, <2>2 DEF Ceiling
    <3> QED BY <1>1, <2>2, <3>1
  <2>4. calculated' = calculated \/ calculated' = byteRate'
    BY <1>1, RatesStay, RateBegins, RateMoves
  <2>5. ~carried
    BY <1>1, <1>3, RatesStay, RateBegins, RateMoves
  <2> QED BY <2>3, <2>4, <2>5 DEF RateInv
<1> QED BY <1>1, <1>2, <1>3, CeilingNext DEF RateInv

LEMMA RateImplies == RateInv => AboveSettingsOnlyIfCarried
<1> SUFFICES ASSUME RateInv, ~carried PROVE byteRate <= Default /\ calculated <= Default
  BY RateAssumption DEF RateInv, TypeOK, AboveSettingsOnlyIfCarried
<1>1. PICK ceiling \in [VeryLow .. Highest -> 0 .. Default] : Ceiling(ceiling)
  BY DEF RateInv
<1>2. byteRate <= ceiling[currentNetwork] /\ ceiling[currentNetwork] \in 0 .. Default /\ byteRate \in Nat
  BY <1>1 DEF RateInv, TypeOK, Ceiling
<1> QED BY <1>2, RateAssumption DEF RateInv

\* What a step does to the rate, with the type and without it.
RateStep ==
  /\ currentNetwork' < currentNetwork => byteRate' <= byteRate /\ calculated' = byteRate'
  /\ currentNetwork' > currentNetwork => byteRate' >= byteRate \/ byteRate' = Default
  /\ (currentNetwork' = currentNetwork /\ byteRate' # byteRate) =>
       \E c \in Callers : at[c] = "sessionStarted" /\ at'[c] = "idle"

LEMMA RateSteps == RateInv /\ [Next]_vars => [RateStep]_vars
<1> SUFFICES ASSUME RateInv, [Next]_vars PROVE RateStep
  OBVIOUS
<1>0. TypeOK /\ byteRate > 0 /\ byteRate \in Nat /\ currentNetwork \in Nat
  BY LimitAssumption DEF RateInv, TypeOK, VeryLow
<1>1. CASE UNCHANGED <<byteRate, calculated, currentNetwork, carried>>
  BY <1>0, <1>1 DEF RateStep
<1>2. ASSUME NEW c \in Callers, sessionStarted(c) PROVE RateStep
  <2>1. currentNetwork' = currentNetwork /\ at[c] = "sessionStarted" /\ at'[c] = "idle"
    BY <1>0, <1>2, RateBegins
  <2> QED BY <1>0, <2>1 DEF RateStep
<1>3. ASSUME NEW t \in Timers, runLocked(t) PROVE RateStep
  <2> DEFINE share == newByteRateFromPercentage(byteRate)
  <2>1. share \in Nat /\ byteRate - share \in Nat
    BY <1>0, ShareIsLess
  <2>2. \/ currentNetwork' = currentNetwork /\ byteRate' = byteRate
        \/ currentNetwork' = currentNetwork - 1 /\ byteRate' = byteRate - share /\ calculated' = byteRate'
        \/ currentNetwork' = currentNetwork + 1 /\ (byteRate' = byteRate + share \/ byteRate' = Default)
    BY <1>0, <1>3, RateMoves
  <2> HIDE DEF share
  <2> QED BY <1>0, <2>1, <2>2 DEF RateStep
<1> QED BY <1>0, <1>1, <1>2, <1>3, RatesStay

\* The encoder and the metrics agree on every verdict, and the rate is above the
\* settings' only in a session that began with the type of an earlier one.
THEOREM RateFollows == Spec => RateFollowsVerdicts
<1>1. Spec => []AboveSettingsOnlyIfCarried
  BY RateInit, RateNext, RateImplies, PTL DEF Spec
<1>2. Spec => [][RateStep]_vars
  BY RateInit, RateNext, RateSteps, PTL DEF Spec
<1> QED BY <1>1, <1>2 DEF RateFollowsVerdicts, RateFollowsType, RateStep

=============================================================================
