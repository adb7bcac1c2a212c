----------------------------- MODULE AudioSession -----------------------------
(***************************************************************************)
(* KBAVAudioSessionManager, the one owner of the system's AVAudioSession,  *)
(* and its clients: KBAudioCaptureSession (the microphone of the           *)
(* broadcaster view) and a KBAudioRendererSession for every watcher view.  *)
(* Each client asks for the session to be active before it makes its audio *)
(* unit and gives it up when it ends; the manager counts, up to two.       *)
(*                                                                         *)
(* Nothing is locked and the calls come on several threads: the main       *)
(* thread starts and ends the capture and ends the renderers, the thread   *)
(* of the permission dialog starts the capture, and a watcher's retriever  *)
(* starts its renderer.  What the system answers is nondeterministic.      *)
(***************************************************************************)
EXTENDS Naturals, FiniteSets

CONSTANTS Renderers,   \* the audio renderers, one per watcher view
          Capture,     \* the audio capture session
          Main,        \* the main thread
          Permission,  \* the thread that requestRecordPermission answers on
          MaxCalls,    \* bound on starts, ends and interruptions
          MaxFailures  \* bound on the calls the system refuses

ASSUME ClientAssumption == /\ IsFiniteSet(Renderers)
                           /\ Renderers \cap {Capture, Main, Permission} = {} /\ Main # Permission
ASSUME BoundAssumption == MaxCalls \in Nat /\ MaxFailures \in Nat

VARIABLES
  unit, running,      \* of every client: _audioUnit is set, running
  activeCount, active, recording,
  category,           \* the system's category is PlayAndRecord
  system,             \* the system's session is active
  observer,           \* interruptions are observed
  at,                 \* at[t]: where thread t is in a start or an end
  client,             \* client[t]: of which client
  read,               \* read[t]: the count it has read
  interruption,       \* "none", "began", "ended", or "over": the capture has started again since
  calls, failures,
  spoiled             \* history: what the properties allow for

clients == <<unit, running>>
manager == <<activeCount, active, observer, system>>
kind    == <<recording, category>>
place   == <<at, client, read>>
bounds  == <<calls, failures>>
vars == <<clients, manager, kind, place, interruption, bounds, spoiled>>

Clients == Renderers \cup {Capture}
Threads == Renderers \cup {Main, Permission}  \* a renderer stands for its retriever too
Starting == {"prepare", "raise", "raised", "activate", "component", "output"}
Ending   == {"lower", "lowered", "deactivate", "drop"}
Reasons  == {"raced", "overflow", "shared", "activation", "deactivation", "component", "output", "category"}
Quiet    == \A t \in Threads : at[t] \notin Starting \cup Ending
Go(t, l) == at' = [at EXCEPT ![t] = l]
Spoil(s) == spoiled' = spoiled \cup s
Fails    == failures < MaxFailures /\ failures' = failures + 1
Succeeds == UNCHANGED failures

-----------------------------------------------------------------------------
(* The manager.                                                            *)

\* Mutant: it is told by the flag alone.
isRecordingFlag == recording

isRecording == activeCount > 0 /\ recording

\* Mutant: it counts every client.
increasedFurther(n) == n + 1
increased(n) == IF n = 2 THEN 2 ELSE n + 1
decreased(n) == IF n = 0 THEN 0 ELSE n - 1

\* Mutant: the first to leave deactivates.
canDeactivateEarly(n) == n < 2
canDeactivate(n) == n < 1

switchToCategory ==
  \/ Succeeds /\ category' = TRUE /\ UNCHANGED spoiled
  \/ Fails /\ Spoil({"category"}) /\ UNCHANGED category

\* the flag is set although the system refused the category
switchToCategoryPlayAndRecord ==
  IF category THEN UNCHANGED <<kind, failures, spoiled>>
  ELSE recording' = TRUE /\ switchToCategory

prepareForRecordingIfNeeded(t) ==
  /\ at[t] = "prepare"
  /\ IF isRecording THEN UNCHANGED <<kind, failures, spoiled>> ELSE switchToCategoryPlayAndRecord
  /\ Go(t, "raise")
  /\ UNCHANGED <<clients, manager, client, read, interruption, calls>>

\* the counter is read and written by threads that do not know of each other
readCount(t) ==
  /\ at[t] \in {"raise", "lower"}
  /\ read' = [read EXCEPT ![t] = activeCount]
  /\ Go(t, IF at[t] = "raise" THEN "raised" ELSE "lowered")
  /\ UNCHANGED <<clients, manager, kind, client, interruption, bounds, spoiled>>

increaseActiveCounter(t) ==
  /\ at[t] = "raised"
  /\ activeCount' = increased(read[t])
  /\ Spoil(IF read[t] = 2 THEN {"overflow"} ELSE {})
  /\ Go(t, "activate")
  /\ UNCHANGED <<clients, active, observer, system, kind, client, read, interruption, bounds>>

decreaseActiveCounter(t) ==
  /\ at[t] = "lowered"
  /\ activeCount' = decreased(read[t])
  /\ spoiled' = IF activeCount' = 0 THEN spoiled \ {"category"} ELSE spoiled
  /\ Go(t, "deactivate")
  /\ UNCHANGED <<clients, active, observer, system, kind, client, read, interruption, bounds>>

\* Mutant of activate: the observer that a deactivation took away stays away.
activateUnobserved(t) ==
  /\ at[t] = "activate"
  /\ IF active THEN UNCHANGED <<active, observer, system, failures, spoiled>>
     ELSE /\ UNCHANGED observer
          /\ \/ Succeeds /\ active' = TRUE /\ system' = TRUE /\ UNCHANGED spoiled
             \/ Fails /\ Spoil({"activation"}) /\ UNCHANGED <<active, system>>
  /\ Go(t, "component")
  /\ UNCHANGED <<clients, activeCount, kind, client, read, interruption, calls>>

\* setActive:true, once the count is raised
activate(t) ==
  /\ at[t] = "activate"
  /\ IF active THEN UNCHANGED <<active, observer, system, failures, spoiled>>
     ELSE /\ observer' = TRUE
          /\ \/ Succeeds /\ active' = TRUE /\ system' = TRUE /\ UNCHANGED spoiled
             \/ Fails /\ Spoil({"activation"}) /\ UNCHANGED <<active, system>>
  /\ Go(t, "component")
  /\ UNCHANGED <<clients, activeCount, kind, client, read, interruption, calls>>

\* Mutant of deactivate: an inactive session is not told so.
deactivateForgets(t) ==
  /\ at[t] = "deactivate"
  /\ IF active /\ canDeactivate(activeCount) THEN system' = FALSE /\ observer' = FALSE
                                             ELSE UNCHANGED <<system, observer>>
  /\ Go(t, "drop")
  /\ UNCHANGED <<clients, active, activeCount, kind, client, read, interruption, bounds, spoiled>>

\* setActive:false, once the count is lowered
deactivate(t) ==
  /\ at[t] = "deactivate"
  /\ IF ~active \/ ~canDeactivate(activeCount)
     THEN UNCHANGED <<active, observer, system, failures, spoiled>>
     ELSE /\ observer' = FALSE
          /\ \/ Succeeds /\ active' = FALSE /\ system' = FALSE /\ UNCHANGED spoiled
             \/ Fails /\ Spoil({"deactivation"}) /\ UNCHANGED <<active, system>>
  /\ Go(t, "drop")
  /\ UNCHANGED <<clients, activeCount, kind, client, read, interruption, calls>>

-----------------------------------------------------------------------------
(* The clients.                                                            *)

Begin(t, c, l) ==
  /\ at[t] = "idle"
  /\ Go(t, l)
  /\ client' = [client EXCEPT ![t] = c]
  /\ Spoil((IF Quiet THEN {} ELSE {"raced"})
           \cup (IF t # Main /\ interruption \in {"began", "ended"} THEN {"shared"} ELSE {}))
  /\ UNCHANGED <<clients, manager, kind, read, failures>>

Call == calls < MaxCalls /\ calls' = calls + 1

\* start of the capture: the main thread tests running first, the permission's
\* answer does not
captureStart ==
  /\ ~running[Capture]
  /\ Begin(Main, Capture, IF unit[Capture] THEN "output" ELSE "prepare")
  /\ interruption # "began" /\ Call
  /\ UNCHANGED interruption
permissionGranted ==
  /\ Begin(Permission, Capture, IF unit[Capture] THEN "output" ELSE "prepare")
  /\ UNCHANGED <<interruption, calls>>

\* startIfNeeded, when the retriever has unpacked an audio format
rendererStart(r) ==
  /\ ~running[r] /\ ~unit[r]
  /\ Begin(r, r, "prepare")
  /\ Call
  /\ UNCHANGED interruption

\* end, on the main thread: it stops the unit first
End(c) ==
  /\ running[c] /\ unit[c]
  /\ Begin(Main, c, "lower")
endClient(c) == End(c) /\ Call /\ UNCHANGED interruption

\* AudioComponentInstanceNew: the capture gives up, the renderer tries to start nothing
component(t) ==
  /\ at[t] = "component"
  /\ LET c == client[t] IN
     \/ /\ Succeeds /\ unit' = [unit EXCEPT ![c] = TRUE] /\ UNCHANGED spoiled
        /\ Go(t, "output")
     \/ /\ Fails /\ Spoil({"component"}) /\ UNCHANGED unit
        /\ Go(t, IF c = Capture /\ ~unit[c] THEN IF t = Permission THEN "done" ELSE "idle"
                                            ELSE "output")
  /\ UNCHANGED <<running, manager, kind, client, read, interruption, calls>>

\* AudioOutputUnitStart, of a unit or of none
output(t) ==
  /\ at[t] = "output"
  /\ LET c == client[t] IN
     /\ \/ /\ unit[c] /\ Succeeds
           /\ running' = [running EXCEPT ![c] = TRUE]
           /\ interruption' = IF c = Capture /\ interruption = "ended" THEN "over" ELSE interruption
           /\ UNCHANGED spoiled
        \/ /\ IF unit[c] THEN Fails /\ Spoil({"output"}) ELSE UNCHANGED <<failures, spoiled>>
           /\ running' = IF c = Capture THEN [running EXCEPT ![c] = FALSE] ELSE running
           /\ UNCHANGED interruption
  /\ Go(t, IF t = Permission THEN "done" ELSE "idle")
  /\ UNCHANGED <<unit, manager, kind, client, read, calls>>

\* Mutant of drop: the unit stays, for the next start.
dropKeepsTheUnit(t) ==
  /\ at[t] = "drop"
  /\ running' = [running EXCEPT ![client[t]] = FALSE]
  /\ Go(t, "idle")
  /\ UNCHANGED <<unit, manager, kind, client, read, interruption, bounds, spoiled>>

drop(t) ==
  /\ at[t] = "drop"
  /\ running' = [running EXCEPT ![client[t]] = FALSE]
  /\ unit' = [unit EXCEPT ![client[t]] = FALSE]
  /\ Go(t, "idle")
  /\ UNCHANGED <<manager, kind, client, read, interruption, bounds, spoiled>>

-----------------------------------------------------------------------------
(* Interruptions: a call comes in, and the system takes the session away.  *)

interruptionBegan ==
  /\ interruption \in {"none", "over"} /\ system /\ at[Main] = "idle" /\ Call
  /\ interruption' = "began"
  /\ system' = FALSE
  /\ Spoil(IF ~Quiet \/ \E r \in Renderers : unit[r] THEN {"shared"} ELSE {})
  /\ UNCHANGED <<clients, activeCount, active, observer, kind, place, failures>>

\* handleInterruptionState: the delegate, a broadcaster view, ends the capture, and
\* starts it again when the system says so; without an observer nobody is told
audioInterruptionEnded ==
  /\ interruption = "began" /\ at[Main] = "idle"
  /\ interruption' = "ended"
  /\ IF observer /\ running[Capture] /\ unit[Capture]
     THEN End(Capture)
     ELSE UNCHANGED <<clients, manager, kind, place, failures, spoiled>>
  /\ UNCHANGED calls

-----------------------------------------------------------------------------
Init ==
  /\ unit = [c \in Clients |-> FALSE] /\ running = [c \in Clients |-> FALSE]
  /\ activeCount = 0 /\ active = FALSE /\ recording = FALSE /\ category = FALSE /\ system = FALSE
  /\ observer = TRUE
  /\ at = [t \in Threads |-> "idle"]
  /\ client = [t \in Threads |-> IF t \in Renderers THEN t ELSE Capture] /\ read = [t \in Threads |-> 0]
  /\ interruption = "none"
  /\ calls = 0 /\ failures = 0 /\ spoiled = {}

setActive(t) == \/ readCount(t) \/ increaseActiveCounter(t) \/ decreaseActiveCounter(t)
                \/ activate(t) \/ deactivate(t)
initializeAudioIfNeeded(t) == prepareForRecordingIfNeeded(t) \/ component(t)

Next ==
  \/ captureStart \/ permissionGranted
  \/ \E r \in Renderers : rendererStart(r)
  \/ \E c \in Clients : endClient(c)
  \/ \E t \in Threads : initializeAudioIfNeeded(t) \/ setActive(t) \/ output(t) \/ drop(t)
  \/ interruptionBegan \/ audioInterruptionEnded

Spec == Init /\ [][Next]_vars

-----------------------------------------------------------------------------
(* Properties.  Each names what spoils it.                                 *)

TypeOK ==
  /\ unit \in [Clients -> BOOLEAN] /\ running \in [Clients -> BOOLEAN]
  /\ activeCount \in 0 .. 2 /\ read \in [Threads -> 0 .. 2]
  /\ active \in BOOLEAN /\ recording \in BOOLEAN /\ category \in BOOLEAN
  /\ system \in BOOLEAN /\ observer \in BOOLEAN
  /\ at \in [Threads -> Starting \cup Ending \cup {"idle", "done"}]
  /\ client \in [Threads -> Clients]
  /\ interruption \in {"none", "began", "ended", "over"}
  /\ calls \in 0 .. MaxCalls /\ failures \in 0 .. MaxFailures
  /\ spoiled \subseteq Reasons

\* A client that runs has an active session: nobody else's end takes it away. Not so
\* when the system refused to activate it, when two threads were in the manager
\* together, or when more than two clients made the counter stop at two.
RunningIsActive ==
  (Quiet /\ spoiled \cap {"raced", "overflow", "activation"} = {} /\ interruption = "none")
    => \A c \in Clients : running[c] => system

\* When every client has ended the session is given back, so that the music another
\* application played goes on; unless a unit that could not be made, a failed
\* deactivation or a race has left the count or the flag up.
QuietIsInactive ==
  (Quiet /\ spoiled \cap {"raced", "deactivation", "component"} = {})
    => ((\A c \in Clients : ~unit[c]) => ~active /\ activeCount = 0)

\* The system's session is active exactly while somebody uses it.
ActiveWhileUsed == TypeOK /\ RunningIsActive /\ QuietIsInactive

\* While a client runs, interruptions are observed: deactivation detaches the
\* observer and the next activation attaches it again. A deactivation that fails
\* leaves the session active without it, and no later start attaches it.
InterruptionsAreSeen ==
  (Quiet /\ spoiled \cap {"raced", "overflow", "deactivation"} = {})
    => \A c \in Clients : running[c] => observer

\* A category the system refused is asked for again once every client has left: a
\* client runs in another only when the refusal is more recent than that.
RefusedCategoryIsRetried ==
  (Quiet /\ spoiled \cap {"raced", "overflow", "category"} = {})
    => \A c \in Clients : running[c] => category

\* What the system takes away or refuses is noticed, and asked for again.
SystemIsHeeded == InterruptionsAreSeen /\ RefusedCategoryIsRetried

\* A capture that starts again after an interruption has an active session, provided
\* it was the only client: the manager takes the session of the others to be active
\* still, and does not activate it.
ResumedIsActive ==
  (Quiet /\ spoiled = {} /\ interruption = "over") => (running[Capture] => system)
=============================================================================
