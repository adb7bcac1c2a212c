--------------------------- MODULE AudioSessionProofs ---------------------------
(* Proofs about AudioSession, for any number of renderers, calls and failures. *)
EXTENDS AudioSession, FiniteSetTheorems, TLAPS

-----------------------------------------------------------------------------
(* Types.                                                                  *)

LEMMA TypeInit == Init => TypeOK
<1> SUFFICES ASSUME Init PROVE TypeOK
  OBVIOUS
<1>1. unit \in [Clients -> BOOLEAN] /\ running \in [Clients -> BOOLEAN]
  BY DEF Init
<1>3. spoiled \subseteq Reasons /\ activeCount \in 0 .. 2 /\ calls \in 0 .. MaxCalls /\ failures \in 0 .. MaxFailures
  BY BoundAssumption DEF Init
<1>2. /\ read \in [Threads -> 0 .. 2] /\ client \in [Threads -> Clients]
      /\ at \in [Threads -> Starting \cup Ending \cup {"idle", "done"}]
  BY DEF Init, Clients
<1> QED BY <1>1, <1>2, <1>3 DEF Init, TypeOK

LEMMA Known == Main \in Threads /\ Permission \in Threads /\ Capture \in Clients
               /\ Renderers \subseteq Threads /\ Renderers \subseteq Clients
  BY DEF Threads, Clients

Maps == /\ unit \in [Clients -> BOOLEAN] /\ running \in [Clients -> BOOLEAN]
        /\ client \in [Threads -> Clients]
        /\ at \in [Threads -> Starting \cup Ending \cup {"idle", "done"}]

Flags == /\ active \in BOOLEAN /\ recording \in BOOLEAN /\ category \in BOOLEAN
         /\ system \in BOOLEAN /\ observer \in BOOLEAN

Counts == /\ activeCount \in 0 .. 2 /\ read \in [Threads -> 0 .. 2]
          /\ interruption \in {"none", "began", "ended", "over"}
          /\ calls \in 0 .. MaxCalls /\ failures \in 0 .. MaxFailures

LEMMA TypeParts == TypeOK <=> Maps /\ Flags /\ Counts /\ spoiled \subseteq Reasons
  BY DEF TypeOK, Maps, Flags, Counts

LEMMA MapsNext == TypeOK /\ [Next]_vars => Maps'
<1> SUFFICES ASSUME TypeOK, [Next]_vars PROVE Maps'
  OBVIOUS
<1>0. Maps /\ Maps
  BY TypeParts
<1> USE <1>0, Known, BoundAssumption DEF Maps, Starting, Ending, clients, manager, kind, place, bounds, Go, Spoil
<1>1. ASSUME captureStart PROVE Maps'
  BY <1>1 DEF captureStart, Begin, Call
<1>2. ASSUME permissionGranted PROVE Maps'
  BY <1>2 DEF permissionGranted, Begin
<1>3. ASSUME NEW r \in Renderers, rendererStart(r) PROVE Maps'
  BY <1>3 DEF rendererStart, Begin, Call
<1>4. ASSUME NEW c \in Clients, endClient(c) PROVE Maps'
  BY <1>4 DEF endClient, End, Begin, Call
<1>5. ASSUME NEW t \in Threads, prepareForRecordingIfNeeded(t) PROVE Maps'
  BY <1>5 DEF prepareForRecordingIfNeeded, switchToCategoryPlayAndRecord, switchToCategory, isRecording, Fails, Succeeds
<1>6. ASSUME NEW t \in Threads, component(t) PROVE Maps'
  BY <1>6 DEF component, Fails, Succeeds
<1>7. ASSUME NEW t \in Threads, readCount(t) PROVE Maps'
  BY <1>7 DEF readCount
<1>8. ASSUME NEW t \in Threads, increaseActiveCounter(t) PROVE Maps'
  BY <1>8 DEF increaseActiveCounter, increased
<1>9. ASSUME NEW t \in Threads, decreaseActiveCounter(t) PROVE Maps'
  BY <1>9 DEF decreaseActiveCounter, decreased
<1>10. ASSUME NEW t \in Threads, activate(t) PROVE Maps'
  BY <1>10 DEF activate, Fails, Succeeds
<1>11. ASSUME NEW t \in Threads, deactivate(t) PROVE Maps'
  BY <1>11 DEF deactivate, canDeactivate, Fails, Succeeds
<1>12. ASSUME NEW t \in Threads, output(t) PROVE Maps'
  BY <1>12 DEF output, Fails, Succeeds
<1>13. ASSUME NEW t \in Threads, drop(t) PROVE Maps'
  BY <1>13 DEF drop
<1>14. ASSUME interruptionBegan PROVE Maps'
  BY <1>14 DEF interruptionBegan, Call
<1>15. ASSUME audioInterruptionEnded PROVE Maps'
  BY <1>15 DEF audioInterruptionEnded, End, Begin
<1>16. CASE UNCHANGED vars
  BY <1>16 DEF vars
<1> QED BY <1>1, <1>2, <1>3, <1>4, <1>5, <1>6, <1>7, <1>8, <1>9, <1>10, <1>11, <1>12, <1>13, <1>14, <1>15, <1>16
        DEF Next, setActive, initializeAudioIfNeeded

LEMMA FlagsNext == TypeOK /\ [Next]_vars => Flags'
<1> SUFFICES ASSUME TypeOK, [Next]_vars PROVE Flags'
  OBVIOUS
<1>0. Flags /\ Maps
  BY TypeParts
<1> USE <1>0, Known, BoundAssumption DEF Flags, clients, manager, kind, place, bounds, Go, Spoil
<1>1. ASSUME captureStart PROVE Flags'
  BY <1>1 DEF captureStart, Begin, Call
<1>2. ASSUME permissionGranted PROVE Flags'
  BY <1>2 DEF permissionGranted, Begin
<1>3. ASSUME NEW r \in Renderers, rendererStart(r) PROVE Flags'
  BY <1>3 DEF rendererStart, Begin, Call
<1>4. ASSUME NEW c \in Clients, endClient(c) PROVE Flags'
  BY <1>4 DEF endClient, End, Begin, Call
<1>5. ASSUME NEW t \in Threads, prepareForRecordingIfNeeded(t) PROVE Flags'
  BY <1>5 DEF prepareForRecordingIfNeeded, switchToCategoryPlayAndRecord, switchToCategory, isRecording, Fails, Succeeds
<1>6. ASSUME NEW t \in Threads, component(t) PROVE Flags'
  BY <1>6 DEF component, Fails, Succeeds
<1>7. ASSUME NEW t \in Threads, readCount(t) PROVE Flags'
  BY <1>7 DEF readCount
<1>8. ASSUME NEW t \in Threads, increaseActiveCounter(t) PROVE Flags'
  BY <1>8 DEF increaseActiveCounter, increased
<1>9. ASSUME NEW t \in Threads, decreaseActiveCounter(t) PROVE Flags'
  BY <1>9 DEF decreaseActiveCounter, decreased
<1>10. ASSUME NEW t \in Threads, activate(t) PROVE Flags'
  BY <1>10 DEF activate, Fails, Succeeds
<1>11. ASSUME NEW t \in Threads, deactivate(t) PROVE Flags'
  BY <1>11 DEF deactivate, canDeactivate, Fails, Succeeds
<1>12. ASSUME NEW t \in Threads, output(t) PROVE Flags'
  BY <1>12 DEF output, Fails, Succeeds
<1>13. ASSUME NEW t \in Threads, drop(t) PROVE Flags'
  BY <1>13 DEF drop
<1>14. ASSUME interruptionBegan PROVE Flags'
  BY <1>14 DEF interruptionBegan, Call
<1>15. ASSUME audioInterruptionEnded PROVE Flags'
  BY <1>15 DEF audioInterruptionEnded, End, Begin
<1>16. CASE UNCHANGED vars
  BY <1>16 DEF vars
<1> QED BY <1>1, <1>2, <1>3, <1>4, <1>5, <1>6, <1>7, <1>8, <1>9, <1>10, <1>11, <1>12, <1>13, <1>14, <1>15, <1>16
        DEF Next, setActive, initializeAudioIfNeeded

LEMMA CountsNext == TypeOK /\ [Next]_vars => Counts'
<1> SUFFICES ASSUME TypeOK, [Next]_vars PROVE Counts'
  OBVIOUS
<1>0. Counts /\ Maps
  BY TypeParts
<1> USE <1>0, Known, BoundAssumption DEF Counts, Maps, clients, manager, kind, place, bounds, Go, Spoil
<1>1. ASSUME captureStart PROVE Counts'
  BY <1>1 DEF captureStart, Begin, Call
<1>2. ASSUME permissionGranted PROVE Counts'
  BY <1>2 DEF permissionGranted, Begin
<1>3. ASSUME NEW r \in Renderers, rendererStart(r) PROVE Counts'
  BY <1>3 DEF rendererStart, Begin, Call
<1>4. ASSUME NEW c \in Clients, endClient(c) PROVE Counts'
  BY <1>4 DEF endClient, End, Begin, Call
<1>5. ASSUME NEW t \in Threads, prepareForRecordingIfNeeded(t) PROVE Counts'
  BY <1>5 DEF prepareForRecordingIfNeeded, switchToCategoryPlayAndRecord, switchToCategory, isRecording, Fails, Succeeds
<1>6. ASSUME NEW t \in Threads, component(t) PROVE Counts'
  BY <1>6 DEF component, Fails, Succeeds
<1>7. ASSUME NEW t \in Threads, readCount(t) PROVE Counts'
  BY <1>7 DEF readCount
<1>8. ASSUME NEW t \in Threads, increaseActiveCounter(t) PROVE Counts'
  BY <1>8 DEF increaseActiveCounter, increased
<1>9. ASSUME NEW t \in Threads, decreaseActiveCounter(t) PROVE Counts'
  BY <1>9 DEF decreaseActiveCounter, decreased
<1>10. ASSUME NEW t \in Threads, activate(t) PROVE Counts'
  BY <1>10 DEF activate, Fails, Succeeds
<1>11. ASSUME NEW t \in Threads, deactivate(t) PROVE Counts'
  BY <1>11 DEF deactivate, canDeactivate, Fails, Succeeds
<1>12. ASSUME NEW t \in Threads, output(t) PROVE Counts'
  BY <1>12 DEF output, Fails, Succeeds
<1>13. ASSUME NEW t \in Threads, drop(t) PROVE Counts'
  BY <1>13 DEF drop
<1>14. ASSUME interruptionBegan PROVE Counts'
  BY <1>14 DEF interruptionBegan, Call
<1>15. ASSUME audioInterruptionEnded PROVE Counts'
  BY <1>15 DEF audioInterruptionEnded, End, Begin
<1>16. CASE UNCHANGED vars
  BY <1>16 DEF vars
<1> QED BY <1>1, <1>2, <1>3, <1>4, <1>5, <1>6, <1>7, <1>8, <1>9, <1>10, <1>11, <1>12, <1>13, <1>14, <1>15, <1>16
        DEF Next, setActive, initializeAudioIfNeeded

LEMMA SpoiledNext == TypeOK /\ [Next]_vars => spoiled' \subseteq Reasons
<1> SUFFICES ASSUME TypeOK, [Next]_vars PROVE spoiled' \subseteq Reasons
  OBVIOUS
<1>0. spoiled \subseteq Reasons /\ Maps
  BY TypeParts
<1> USE <1>0, Known, BoundAssumption DEF Reasons, clients, manager, kind, place, bounds, Go, Spoil
<1>1. ASSUME captureStart PROVE spoiled' \subseteq Reasons
  BY <1>1 DEF captureStart, Begin, Call
<1>2. ASSUME permissionGranted PROVE spoiled' \subseteq Reasons
  BY <1>2 DEF permissionGranted, Begin
<1>3. ASSUME NEW r \in Renderers, rendererStart(r) PROVE spoiled' \subseteq Reasons
  BY <1>3 DEF rendererStart, Begin, Call
<1>4. ASSUME NEW c \in Clients, endClient(c) PROVE spoiled' \subseteq Reasons
  BY <1>4 DEF endClient, End, Begin, Call
<1>5. ASSUME NEW t \in Threads, prepareForRecordingIfNeeded(t) PROVE spoiled' \subseteq Reasons
  BY <1>5 DEF prepareForRecordingIfNeeded, switchToCategoryPlayAndRecord, switchToCategory, isRecording, Fails, Succeeds
<1>6. ASSUME NEW t \in Threads, component(t) PROVE spoiled' \subseteq Reasons
  BY <1>6 DEF component, Fails, Succeeds
<1>7. ASSUME NEW t \in Threads, readCount(t) PROVE spoiled' \subseteq Reasons
  BY <1>7 DEF readCount
<1>8. ASSUME NEW t \in Threads, increaseActiveCounter(t) PROVE spoiled' \subseteq Reasons
  BY <1>8 DEF increaseActiveCounter, increased
<1>9. ASSUME NEW t \in Threads, decreaseActiveCounter(t) PROVE spoiled' \subseteq Reasons
  BY <1>9 DEF decreaseActiveCounter, decreased
<1>10. ASSUME NEW t \in Threads, activate(t) PROVE spoiled' \subseteq Reasons
  BY <1>10 DEF activate, Fails, Succeeds
<1>11. ASSUME NEW t \in Threads, deactivate(t) PROVE spoiled' \subseteq Reasons
  BY <1>11 DEF deactivate, canDeactivate, Fails, Succeeds
<1>12. ASSUME NEW t \in Threads, output(t) PROVE spoiled' \subseteq Reasons
  BY <1>12 DEF output, Fails, Succeeds
<1>13. ASSUME NEW t \in Threads, drop(t) PROVE spoiled' \subseteq Reasons
  BY <1>13 DEF drop
<1>14. ASSUME interruptionBegan PROVE spoiled' \subseteq Reasons
  BY <1>14 DEF interruptionBegan, Call
<1>15. ASSUME audioInterruptionEnded PROVE spoiled' \subseteq Reasons
  BY <1>15 DEF audioInterruptionEnded, End, Begin
<1>16. CASE UNCHANGED vars
  BY <1>16 DEF vars
<1> QED BY <1>1, <1>2, <1>3, <1>4, <1>5, <1>6, <1>7, <1>8, <1>9, <1>10, <1>11, <1>12, <1>13, <1>14, <1>15, <1>16
        DEF Next, setActive, initializeAudioIfNeeded

LEMMA TypeNext == TypeOK /\ [Next]_vars => TypeOK'
  BY TypeParts, MapsNext, FlagsNext, CountsNext, SpoiledNext DEF TypeOK, Maps, Flags, Counts

\* Every variable has its type.
THEOREM TypeCorrect == Spec => []TypeOK
  BY TypeInit, TypeNext, PTL DEF Spec

-----------------------------------------------------------------------------
(* One thread at a time.  As long as no two are in the manager together,   *)
(* what a thread has read is the count, and a client that runs has a unit. *)

Working(t) == at[t] \in Starting \cup Ending

Alone ==
  /\ \A t, u \in Threads : Working(t) /\ Working(u) => t = u
  /\ \A c \in Clients : running[c] => unit[c]
  /\ \A t \in Threads :
       /\ at[t] \in Starting \ {"output"} => ~unit[client[t]]
       /\ at[t] \in Ending => unit[client[t]]
       /\ at[t] \in {"raised", "lowered"} => read[t] = activeCount
       /\ at[t] \in {"activate", "component"} => activeCount > 0

AloneInv == TypeOK /\ ("raced" \notin spoiled => Alone)

\* A call that does not spoil the session finds no other thread at work.
LEMMA Begun ==
  ASSUME NEW t \in Threads, NEW c, NEW l, Begin(t, c, l), "raced" \notin spoiled'
  PROVE  Quiet /\ "raced" \notin spoiled
  BY DEF Begin, Spoil

LEMMA AloneNext == AloneInv /\ [Next]_vars => AloneInv'
<1> SUFFICES ASSUME AloneInv, [Next]_vars, "raced" \notin spoiled' PROVE Alone'
  BY TypeNext DEF AloneInv
<1>0. Maps /\ Counts
  BY TypeParts DEF AloneInv
<1> USE <1>0, Known DEF AloneInv, Alone, Working, Maps, Counts, Starting, Ending, clients, manager, kind, place, bounds, Go, Spoil
<1>1. ASSUME captureStart PROVE Alone'
  <2>1. Quiet /\ "raced" \notin spoiled
    BY <1>1, Known, Begun DEF captureStart
  <2> QED BY <1>1, <2>1 DEF captureStart, Begin, Call, Quiet
<1>2. ASSUME permissionGranted PROVE Alone'
  <2>1. Quiet /\ "raced" \notin spoiled
    BY <1>2, Known, Begun DEF permissionGranted
  <2> QED BY <1>2, <2>1 DEF permissionGranted, Begin, Quiet
<1>3. ASSUME NEW r \in Renderers, rendererStart(r) PROVE Alone'
  <2>1. Quiet /\ "raced" \notin spoiled
    BY <1>3, Known, Begun DEF rendererStart
  <2> QED BY <1>3, <2>1 DEF rendererStart, Begin, Call, Quiet
<1>4. ASSUME NEW c \in Clients, endClient(c) PROVE Alone'
  <2>1. Quiet /\ "raced" \notin spoiled
    BY <1>4, Known, Begun DEF endClient, End
  <2> QED BY <1>4, <2>1 DEF endClient, End, Begin, Call, Quiet
<1>5. ASSUME NEW t \in Threads, prepareForRecordingIfNeeded(t) PROVE Alone'
  BY <1>5 DEF prepareForRecordingIfNeeded, switchToCategoryPlayAndRecord, switchToCategory, isRecording, Fails, Succeeds
<1>6. ASSUME NEW t \in Threads, component(t) PROVE Alone'
  BY <1>6 DEF component, Fails, Succeeds
<1>7. ASSUME NEW t \in Threads, readCount(t) PROVE Alone'
  BY <1>7 DEF readCount
<1>8. ASSUME NEW t \in Threads, increaseActiveCounter(t) PROVE Alone'
  BY <1>8 DEF increaseActiveCounter, increased
<1>9. ASSUME NEW t \in Threads, decreaseActiveCounter(t) PROVE Alone'
  BY <1>9 DEF decreaseActiveCounter, decreased
<1>10. ASSUME NEW t \in Threads, activate(t) PROVE Alone'
  BY <1>10 DEF activate, Fails, Succeeds
<1>11. ASSUME NEW t \in Threads, deactivate(t) PROVE Alone'
  BY <1>11 DEF deactivate, canDeactivate, Fails, Succeeds
<1>12. ASSUME NEW t \in Threads, output(t) PROVE Alone'
  BY <1>12 DEF output, Fails, Succeeds
<1>13. ASSUME NEW t \in Threads, drop(t) PROVE Alone'
  BY <1>13 DEF drop
<1>14. ASSUME interruptionBegan PROVE Alone'
  BY <1>14 DEF interruptionBegan, Call
<1>15. ASSUME audioInterruptionEnded PROVE Alone'
  <2>1. CASE observer /\ running[Capture] /\ unit[Capture]
    <3>1. Quiet /\ "raced" \notin spoiled
      BY <1>15, <2>1, Known, Begun DEF audioInterruptionEnded, End
    <3> QED BY <1>15, <2>1, <3>1 DEF audioInterruptionEnded, End, Begin, Quiet
  <2>2. CASE ~(observer /\ running[Capture] /\ unit[Capture])
    BY <1>15, <2>2 DEF audioInterruptionEnded
  <2> QED BY <2>1, <2>2
<1>16. CASE UNCHANGED vars
  BY <1>16 DEF vars
<1> QED BY <1>1, <1>2, <1>3, <1>4, <1>5, <1>6, <1>7, <1>8, <1>9, <1>10, <1>11, <1>12, <1>13, <1>14, <1>15, <1>16
        DEF Next, setActive, initializeAudioIfNeeded

-----------------------------------------------------------------------------
(* The count is the number of clients with a unit, up to what is refused:  *)
(* a unit that could not be made leaves it too high, a third client too low.*)

Users == {c \in Clients : unit[c]}
Raised  == IF \E t \in Threads : at[t] \in {"activate", "component"} THEN 1 ELSE 0
Lowered == IF \E t \in Threads : at[t] \in {"deactivate", "drop"} THEN 1 ELSE 0

Balanced ==
  /\ "component" \notin spoiled => activeCount + Lowered <= Cardinality(Users) + Raised
  /\ "overflow" \notin spoiled => Cardinality(Users) + Raised <= activeCount + Lowered

BalanceInv == "raced" \notin spoiled => Balanced

LEMMA UsersAreFinite == IsFiniteSet(Users) /\ Cardinality(Users) \in Nat
<1>1. IsFiniteSet(Renderers \cup {Capture})
  BY ClientAssumption, FS_AddElement
<1>2. Users \subseteq Clients /\ Clients = Renderers \cup {Capture}
  BY DEF Users, Clients
<1>3. IsFiniteSet(Users)
  BY <1>1, <1>2, FS_Subset
<1> QED BY <1>3, FS_CardinalityType

\* With one thread at work, it alone is on the way up or down.
LEMMA OneMoves ==
  ASSUME TypeOK, Alone, NEW t \in Threads, Working(t)
  PROVE  /\ Raised = IF at[t] \in {"activate", "component"} THEN 1 ELSE 0
         /\ Lowered = IF at[t] \in {"deactivate", "drop"} THEN 1 ELSE 0
<1>1. \A u \in Threads : at[u] \in {"activate", "component", "deactivate", "drop"} => u = t
  BY DEF Alone, Working, Starting, Ending
<1> QED BY <1>1 DEF Raised, Lowered

LEMMA OneMoved ==
  ASSUME TypeOK, Alone, NEW t \in Threads, Working(t), \A u \in Threads \ {t} : at'[u] = at[u]
  PROVE  /\ Raised' = IF at'[t] \in {"activate", "component"} THEN 1 ELSE 0
         /\ Lowered' = IF at'[t] \in {"deactivate", "drop"} THEN 1 ELSE 0
<1>1. \A u \in Threads \ {t} : at'[u] \notin {"activate", "component", "deactivate", "drop"}
  BY DEF Alone, Working, Starting, Ending
<1> QED BY <1>1 DEF Raised, Lowered

LEMMA BalanceNext == AloneInv /\ BalanceInv /\ [Next]_vars => BalanceInv'
<1> SUFFICES ASSUME AloneInv, BalanceInv, [Next]_vars, "raced" \notin spoiled' PROVE Balanced'
  BY DEF BalanceInv
<1>0. Maps /\ Counts /\ TypeOK
  BY TypeParts DEF AloneInv
<1>1. Cardinality(Users) \in Nat /\ Cardinality(Users') \in Nat /\ IsFiniteSet(Users) /\ IsFiniteSet(Users')
  <2>1. IsFiniteSet(Users) /\ Cardinality(Users) \in Nat
    BY UsersAreFinite
  <2>2. (IsFiniteSet(Users) /\ Cardinality(Users) \in Nat)'
    BY UsersAreFinite, PTL
  <2> QED BY <2>1, <2>2
<1>2. ASSUME Alone, Balanced, UNCHANGED <<activeCount, unit>>, Raised' = Raised, Lowered' = Lowered,
             \A x \in {"component", "overflow"} : x \in spoiled => x \in spoiled'
      PROVE  Balanced'
  <2>1. Users' = Users
    BY <1>2 DEF Users
  <2> QED BY <1>2, <2>1 DEF Balanced
\* a call begins while nobody moves, and the thread that begins does not yet
<1>3. ASSUME Quiet, "raced" \notin spoiled, UNCHANGED <<activeCount, unit>>,
             \A t \in Threads : at'[t] = at[t] \/ at'[t] \in {"prepare", "output", "lower"},
             \A x \in {"component", "overflow"} : x \in spoiled => x \in spoiled'
      PROVE  Balanced'
  <2>1. \A t \in Threads : at[t] \notin {"activate", "component", "deactivate", "drop"}
    BY <1>3 DEF Quiet, Starting, Ending
  <2>2. \A t \in Threads : at'[t] \notin {"activate", "component", "deactivate", "drop"}
    BY <1>3, <2>1
  <2>3. Raised = 0 /\ Lowered = 0 /\ Raised' = 0 /\ Lowered' = 0
    BY <2>1, <2>2 DEF Raised, Lowered
  <2>4. Alone /\ Balanced
    BY <1>3 DEF AloneInv, BalanceInv
  <2> QED BY <1>2, <1>3, <2>3, <2>4
<1> USE DEF clients, manager, kind, place, bounds, Go, Spoil
<1>11. ASSUME captureStart PROVE Balanced'
  <2>1. Quiet /\ "raced" \notin spoiled
    BY <1>11, Known, Begun DEF captureStart
  <2>2. \A u \in Threads : at'[u] = at[u] \/ at'[u] \in {"prepare", "output", "lower"}
    BY <1>11, <1>0, Known DEF captureStart, Begin, Call, Maps
  <2>3. /\ UNCHANGED <<activeCount, unit>>
        /\ \A x \in {"component", "overflow"} : x \in spoiled => x \in spoiled'
    BY <1>11 DEF captureStart, Begin, Call
  <2> QED BY <2>1, <2>2, <2>3, <1>3
<1>12. ASSUME permissionGranted PROVE Balanced'
  <2>1. Quiet /\ "raced" \notin spoiled
    BY <1>12, Known, Begun DEF permissionGranted
  <2>2. \A u \in Threads : at'[u] = at[u] \/ at'[u] \in {"prepare", "output", "lower"}
    BY <1>12, <1>0, Known DEF permissionGranted, Begin, Maps
  <2>3. /\ UNCHANGED <<activeCount, unit>>
        /\ \A x \in {"component", "overflow"} : x \in spoiled => x \in spoiled'
    BY <1>12 DEF permissionGranted, Begin
  <2> QED BY <2>1, <2>2, <2>3, <1>3
<1>13. ASSUME NEW r \in Renderers, rendererStart(r) PROVE Balanced'
  <2>1. Quiet /\ "raced" \notin spoiled
    BY <1>13, Known, Begun DEF rendererStart
  <2>2. \A u \in Threads : at'[u] = at[u] \/ at'[u] \in {"prepare", "output", "lower"}
    BY <1>13, <1>0, Known DEF rendererStart, Begin, Call, Maps
  <2>3. /\ UNCHANGED <<activeCount, unit>>
        /\ \A x \in {"component", "overflow"} : x \in spoiled => x \in spoiled'
    BY <1>13 DEF rendererStart, Begin, Call
  <2> QED BY <2>1, <2>2, <2>3, <1>3
<1>14. ASSUME NEW c \in Clients, endClient(c) PROVE Balanced'
  <2>1. Quiet /\ "raced" \notin spoiled
    BY <1>14, Known, Begun DEF endClient, End
  <2>2. \A u \in Threads : at'[u] = at[u] \/ at'[u] \in {"prepare", "output", "lower"}
    BY <1>14, <1>0, Known DEF endClient, End, Begin, Call, Maps
  <2>3. /\ UNCHANGED <<activeCount, unit>>
        /\ \A x \in {"component", "overflow"} : x \in spoiled => x \in spoiled'
    BY <1>14 DEF endClient, End, Begin, Call
  <2> QED BY <2>1, <2>2, <2>3, <1>3
<1>15. ASSUME NEW t \in Threads, prepareForRecordingIfNeeded(t) PROVE Balanced'
  <2>1. Alone /\ Balanced
    BY <1>15 DEF AloneInv, BalanceInv, prepareForRecordingIfNeeded, switchToCategoryPlayAndRecord, switchToCategory, isRecording, Fails, Succeeds
  <2>2. at[t] = "prepare" /\ Working(t) /\ \A u \in Threads \ {t} : at'[u] = at[u]
    BY <1>15, <1>0 DEF prepareForRecordingIfNeeded, switchToCategoryPlayAndRecord, switchToCategory, isRecording, Fails, Succeeds, Working, Starting, Ending, Maps
  <2>3. /\ UNCHANGED <<activeCount, unit>>
        /\ \A x \in {"component", "overflow"} : x \in spoiled => x \in spoiled'
    BY <1>15 DEF prepareForRecordingIfNeeded, switchToCategoryPlayAndRecord, switchToCategory, isRecording, Fails, Succeeds
  <2>4. \/ at[t] \notin {"activate", "component", "deactivate", "drop"} /\ at'[t] \notin {"activate", "component", "deactivate", "drop"}
        \/ at[t] = "activate" /\ at'[t] = "component"
        \/ at[t] = "deactivate" /\ at'[t] = "drop"
    BY <1>15, <1>0 DEF prepareForRecordingIfNeeded, switchToCategoryPlayAndRecord, switchToCategory, isRecording, Fails, Succeeds, Maps
  <2>5. Raised' = Raised /\ Lowered' = Lowered
    BY <1>0, <2>1, <2>2, <2>4, OneMoves, OneMoved
  <2> QED BY <1>2, <2>1, <2>3, <2>5
<1>16. ASSUME NEW t \in Threads, component(t) PROVE Balanced'
  <2>1. Alone /\ Balanced
    BY <1>16 DEF AloneInv, BalanceInv, component, Fails, Succeeds
  <2>2. at[t] = "component" /\ Working(t) /\ \A u \in Threads \ {t} : at'[u] = at[u]
    BY <1>16, <1>0 DEF component, Fails, Succeeds, Working, Starting, Ending, Maps
  <2>3. Raised = 1 /\ Lowered = 0 /\ Raised' = 0 /\ Lowered' = 0
    <3>1. at'[t] \in {"output", "idle", "done"}
      BY <1>16, <1>0 DEF component, Maps
    <3> QED BY <1>0, <2>1, <2>2, <3>1, OneMoves, OneMoved
  <2> DEFINE c == client[t]
  <2>4. c \in Clients /\ c \notin Users /\ activeCount \in Nat /\ activeCount' = activeCount
    BY <1>16, <1>0, <2>1, <2>2 DEF component, Alone, Starting, Users, Maps, Counts
  <2>5. CASE unit' = [unit EXCEPT ![c] = TRUE] /\ spoiled' = spoiled
    <3>1. Users' = Users \cup {c}
      BY <1>0, <2>4, <2>5 DEF Users, Maps
    <3>2. Cardinality(Users') = Cardinality(Users) + 1
      BY <1>1, <2>4, <3>1, FS_AddElement
    <3> QED BY <1>1, <2>1, <2>3, <2>4, <2>5, <3>2 DEF Balanced
  <2>6. CASE unit' = unit /\ spoiled' = spoiled \cup {"component"}
    <3>1. Users' = Users
      BY <2>6 DEF Users
    <3> QED BY <1>1, <2>1, <2>3, <2>4, <2>6, <3>1 DEF Balanced
  <2> QED BY <1>16, <2>5, <2>6 DEF component, Succeeds, Fails
<1>17. ASSUME NEW t \in Threads, readCount(t) PROVE Balanced'
  <2>1. Alone /\ Balanced
    BY <1>17 DEF AloneInv, BalanceInv, readCount
  <2>2. at[t] \in {"raise", "lower"} /\ Working(t) /\ \A u \in Threads \ {t} : at'[u] = at[u]
    BY <1>17, <1>0 DEF readCount, Working, Starting, Ending, Maps
  <2>3. /\ UNCHANGED <<activeCount, unit>>
        /\ \A x \in {"component", "overflow"} : x \in spoiled => x \in spoiled'
    BY <1>17 DEF readCount
  <2>4. \/ at[t] \notin {"activate", "component", "deactivate", "drop"} /\ at'[t] \notin {"activate", "component", "deactivate", "drop"}
        \/ at[t] = "activate" /\ at'[t] = "component"
        \/ at[t] = "deactivate" /\ at'[t] = "drop"
    BY <1>17, <1>0 DEF readCount, Maps
  <2>5. Raised' = Raised /\ Lowered' = Lowered
    BY <1>0, <2>1, <2>2, <2>4, OneMoves, OneMoved
  <2> QED BY <1>2, <2>1, <2>3, <2>5
<1>18. ASSUME NEW t \in Threads, increaseActiveCounter(t) PROVE Balanced'
  <2>1. Alone /\ Balanced
    BY <1>18 DEF AloneInv, BalanceInv, increaseActiveCounter, increased
  <2>2. at[t] = "raised" /\ Working(t) /\ \A u \in Threads \ {t} : at'[u] = at[u]
    BY <1>18, <1>0 DEF increaseActiveCounter, increased, Working, Starting, Ending, Maps
  <2>3. Raised = 0 /\ Lowered = 0 /\ Raised' = 1 /\ Lowered' = 0
    <3>1. at'[t] = "activate"
      BY <1>18, <1>0 DEF increaseActiveCounter, Maps
    <3> QED BY <1>0, <2>1, <2>2, <3>1, OneMoves, OneMoved
  <2>4. Users' = Users
    BY <1>18 DEF increaseActiveCounter, Users
  <2>5. read[t] = activeCount /\ activeCount \in 0 .. 2
    BY <1>0, <2>1, <2>2 DEF Alone, Counts
  <2>6. /\ activeCount' = increased(activeCount)
        /\ spoiled' = spoiled \cup (IF activeCount = 2 THEN {"overflow"} ELSE {})
    BY <1>18, <2>5 DEF increaseActiveCounter
  <2>7. /\ activeCount' <= activeCount + 1 /\ activeCount' \in Nat
        /\ "overflow" \notin spoiled' => activeCount' = activeCount + 1
    BY <2>5, <2>6 DEF increased
  <2>8. "component" \notin spoiled' => activeCount' + Lowered' <= Cardinality(Users') + Raised'
    BY <1>1, <2>1, <2>3, <2>4, <2>5, <2>6, <2>7 DEF Balanced
  <2>9. "overflow" \notin spoiled' => Cardinality(Users') + Raised' <= activeCount' + Lowered'
    BY <1>1, <2>1, <2>3, <2>4, <2>5, <2>6, <2>7 DEF Balanced
  <2> QED BY <2>8, <2>9 DEF Balanced
<1>19. ASSUME NEW t \in Threads, decreaseActiveCounter(t) PROVE Balanced'
  <2>1. Alone /\ Balanced
    BY <1>19 DEF AloneInv, BalanceInv, decreaseActiveCounter, decreased
  <2>2. at[t] = "lowered" /\ Working(t) /\ \A u \in Threads \ {t} : at'[u] = at[u]
    BY <1>19, <1>0 DEF decreaseActiveCounter, decreased, Working, Starting, Ending, Maps
  <2>3. Raised = 0 /\ Lowered = 0 /\ Raised' = 0 /\ Lowered' = 1
    <3>1. at'[t] = "deactivate"
      BY <1>19, <1>0 DEF decreaseActiveCounter, Maps
    <3> QED BY <1>0, <2>1, <2>2, <3>1, OneMoves, OneMoved
  <2>4. Users' = Users
    BY <1>19 DEF decreaseActiveCounter, Users
  <2>5. read[t] = activeCount /\ activeCount \in 0 .. 2
    BY <1>0, <2>1, <2>2 DEF Alone, Counts
  <2>6. activeCount' = decreased(activeCount)
    BY <1>19, <2>5 DEF decreaseActiveCounter
  <2>7. Cardinality(Users) > 0
    <3>1. client[t] \in Users
      BY <1>0, <2>1, <2>2 DEF Alone, Ending, Users, Maps
    <3>2. Users # {}
      BY <3>1
    <3> QED BY <1>1, <3>2, FS_EmptySet
  <2>8. "component" \in spoiled => "component" \in spoiled'
    BY <1>19 DEF decreaseActiveCounter
  <2>9. "overflow" \in spoiled => "overflow" \in spoiled'
    BY <1>19 DEF decreaseActiveCounter
  <2>10. "component" \notin spoiled' => activeCount' + Lowered' <= Cardinality(Users') + Raised'
    BY <1>1, <2>1, <2>3, <2>4, <2>5, <2>6, <2>7, <2>8 DEF Balanced, decreased
  <2>11. "overflow" \notin spoiled' => Cardinality(Users') + Raised' <= activeCount' + Lowered'
    BY <1>1, <2>1, <2>3, <2>4, <2>5, <2>6, <2>7, <2>9 DEF Balanced, decreased
  <2> QED BY <2>10, <2>11 DEF Balanced
<1>20. ASSUME NEW t \in Threads, activate(t) PROVE Balanced'
  <2>1. Alone /\ Balanced
    BY <1>20 DEF AloneInv, BalanceInv, activate, Fails, Succeeds
  <2>2. at[t] = "activate" /\ Working(t) /\ \A u \in Threads \ {t} : at'[u] = at[u]
    BY <1>20, <1>0 DEF activate, Fails, Succeeds, Working, Starting, Ending, Maps
  <2>3. /\ UNCHANGED <<activeCount, unit>>
        /\ \A x \in {"component", "overflow"} : x \in spoiled => x \in spoiled'
    BY <1>20 DEF activate, Fails, Succeeds
  <2>4. \/ at[t] \notin {"activate", "component", "deactivate", "drop"} /\ at'[t] \notin {"activate", "component", "deactivate", "drop"}
        \/ at[t] = "activate" /\ at'[t] = "component"
        \/ at[t] = "deactivate" /\ at'[t] = "drop"
    BY <1>20, <1>0 DEF activate, Fails, Succeeds, Maps
  <2>5. Raised' = Raised /\ Lowered' = Lowered
    BY <1>0, <2>1, <2>2, <2>4, OneMoves, OneMoved
  <2> QED BY <1>2, <2>1, <2>3, <2>5
<1>21. ASSUME NEW t \in Threads, deactivate(t) PROVE Balanced'
  <2>1. Alone /\ Balanced
    BY <1>21 DEF AloneInv, BalanceInv, deactivate, canDeactivate, Fails, Succeeds
  <2>2. at[t] = "deactivate" /\ Working(t) /\ \A u \in Threads \ {t} : at'[u] = at[u]
    BY <1>21, <1>0 DEF deactivate, canDeactivate, Fails, Succeeds, Working, Starting, Ending, Maps
  <2>3. /\ UNCHANGED <<activeCount, unit>>
        /\ \A x \in {"component", "overflow"} : x \in spoiled => x \in spoiled'
    BY <1>21 DEF deactivate, canDeactivate, Fails, Succeeds
  <2>4. \/ at[t] \notin {"activate", "component", "deactivate", "drop"} /\ at'[t] \notin {"activate", "component", "deactivate", "drop"}
        \/ at[t] = "activate" /\ at'[t] = "component"
        \/ at[t] = "deactivate" /\ at'[t] = "drop"
    BY <1>21, <1>0 DEF deactivate, canDeactivate, Fails, Succeeds, Maps
  <2>5. Raised' = Raised /\ Lowered' = Lowered
    BY <1>0, <2>1, <2>2, <2>4, OneMoves, OneMoved
  <2> QED BY <1>2, <2>1, <2>3, <2>5
<1>22. ASSUME NEW t \in Threads, output(t) PROVE Balanced'
  <2>1. Alone /\ Balanced
    BY <1>22 DEF AloneInv, BalanceInv, output, Fails, Succeeds
  <2>2. at[t] = "output" /\ Working(t) /\ \A u \in Threads \ {t} : at'[u] = at[u]
    BY <1>22, <1>0 DEF output, Fails, Succeeds, Working, Starting, Ending, Maps
  <2>3. /\ UNCHANGED <<activeCount, unit>>
        /\ \A x \in {"component", "overflow"} : x \in spoiled => x \in spoiled'
    BY <1>22 DEF output, Fails, Succeeds
  <2>4. \/ at[t] \notin {"activate", "component", "deactivate", "drop"} /\ at'[t] \notin {"activate", "component", "deactivate", "drop"}
        \/ at[t] = "activate" /\ at'[t] = "component"
        \/ at[t] = "deactivate" /\ at'[t] = "drop"
    BY <1>22, <1>0 DEF output, Fails, Succeeds, Maps
  <2>5. Raised' = Raised /\ Lowered' = Lowered
    BY <1>0, <2>1, <2>2, <2>4, OneMoves, OneMoved
  <2> QED BY <1>2, <2>1, <2>3, <2>5
<1>23. ASSUME NEW t \in Threads, drop(t) PROVE Balanced'
  <2>1. Alone /\ Balanced
    BY <1>23 DEF AloneInv, BalanceInv, drop
  <2>2. at[t] = "drop" /\ Working(t) /\ \A u \in Threads \ {t} : at'[u] = at[u]
    BY <1>23, <1>0 DEF drop, Working, Starting, Ending, Maps
  <2>3. Raised = 0 /\ Lowered = 1 /\ Raised' = 0 /\ Lowered' = 0
    <3>1. at'[t] = "idle"
      BY <1>23, <1>0 DEF drop, Maps
    <3> QED BY <1>0, <2>1, <2>2, <3>1, OneMoves, OneMoved
  <2> DEFINE c == client[t]
  <2>4. c \in Clients /\ c \in Users /\ activeCount \in Nat /\ activeCount' = activeCount
    BY <1>23, <1>0, <2>1, <2>2 DEF drop, Alone, Ending, Users, Maps, Counts
  <2>5. unit' = [unit EXCEPT ![c] = FALSE] /\ spoiled' = spoiled
    BY <1>23 DEF drop
  <2>6. Users' = Users \ {c}
    BY <1>0, <2>4, <2>5 DEF Users, Maps
  <2>7. Cardinality(Users') = Cardinality(Users) - 1
    BY <1>1, <2>4, <2>6, FS_RemoveElement
  <2> QED BY <1>1, <2>1, <2>3, <2>4, <2>5, <2>7 DEF Balanced
<1>24. ASSUME interruptionBegan PROVE Balanced'
  <2>1. Alone /\ Balanced
    BY <1>24 DEF AloneInv, BalanceInv, interruptionBegan, Call
  <2>2. /\ UNCHANGED <<activeCount, unit, at>>
        /\ \A x \in {"component", "overflow"} : x \in spoiled => x \in spoiled'
    BY <1>24 DEF interruptionBegan, Call
  <2>3. Raised' = Raised /\ Lowered' = Lowered
    BY <2>2 DEF Raised, Lowered
  <2> QED BY <1>2, <2>1, <2>2, <2>3
<1>25. ASSUME audioInterruptionEnded PROVE Balanced'
  <2>1. CASE observer /\ running[Capture] /\ unit[Capture]
    <3>1. Begin(Main, Capture, "lower")
      BY <1>25, <2>1 DEF audioInterruptionEnded, End
    <3>2. Quiet /\ "raced" \notin spoiled
      BY <3>1, Known, Begun
    <3>3. \A u \in Threads : at'[u] = at[u] \/ at'[u] \in {"prepare", "output", "lower"}
      BY <3>1, <1>0, Known DEF Begin, Maps
    <3>4. /\ UNCHANGED <<activeCount, unit>>
          /\ \A x \in {"component", "overflow"} : x \in spoiled => x \in spoiled'
      BY <3>1 DEF Begin
    <3> QED BY <3>2, <3>3, <3>4, <1>3
  <2>2. CASE ~(observer /\ running[Capture] /\ unit[Capture])
    <3>1. UNCHANGED <<activeCount, unit, at, spoiled>>
      BY <1>25, <2>2 DEF audioInterruptionEnded
    <3>2. Raised' = Raised /\ Lowered' = Lowered
      BY <3>1 DEF Raised, Lowered
    <3>3. Alone /\ Balanced
      BY <3>1 DEF AloneInv, BalanceInv
    <3> QED BY <1>2, <3>1, <3>2, <3>3
  <2> QED BY <2>1, <2>2
<1>26. CASE UNCHANGED vars
  <2>1. Alone /\ Balanced
    BY <1>26 DEF AloneInv, BalanceInv, vars
  <2>2. /\ UNCHANGED <<activeCount, unit, at>>
        /\ \A x \in {"component", "overflow"} : x \in spoiled => x \in spoiled'
    BY <1>26 DEF vars
  <2>3. Raised' = Raised /\ Lowered' = Lowered
    BY <2>2 DEF Raised, Lowered
  <2> QED BY <1>2, <2>1, <2>2, <2>3
<1> QED BY <1>11, <1>12, <1>13, <1>14, <1>15, <1>16, <1>17, <1>18, <1>19, <1>20, <1>21, <1>22, <1>23, <1>24, <1>25, <1>26
        DEF Next, setActive, initializeAudioIfNeeded

-----------------------------------------------------------------------------
(* The session is active with the first client and given back with the     *)
(* last, observed while it is active, and of the category that was asked   *)
(* for since it was last unused.                                           *)

Turned ==
  /\ ("deactivation" \notin spoiled /\ activeCount = 0 /\ \A t \in Threads : at[t] # "deactivate") => ~active
  /\ ("activation" \notin spoiled /\ activeCount > 0 /\ \A t \in Threads : at[t] # "activate") => active
  /\ interruption = "none" => system = active

Observed ==
  "deactivation" \notin spoiled =>
    /\ active => observer
    /\ (activeCount > 0 /\ \A t \in Threads : at[t] # "activate") => observer

Categorized ==
  "category" \notin spoiled =>
    /\ activeCount > 0 => category
    /\ \A t \in Threads : at[t] \in {"raise", "raised"} => category

TurnInv == "raced" \notin spoiled => Turned /\ Observed /\ Categorized

LEMMA TurnNext == AloneInv /\ TurnInv /\ [Next]_vars => TurnInv'
<1> SUFFICES ASSUME AloneInv, TurnInv, [Next]_vars, "raced" \notin spoiled' PROVE Turned' /\ Observed' /\ Categorized'
  BY DEF TurnInv
<1>0. Maps /\ Counts /\ Flags
  BY TypeParts DEF AloneInv
<1> USE <1>0, Known DEF TurnInv, AloneInv, Alone, Working, Maps, Flags, Counts, Starting, Ending, clients, manager, kind, place, bounds, Go, Spoil
<1>1. ASSUME captureStart PROVE Turned' /\ Observed' /\ Categorized'
  <2>1. Quiet /\ "raced" \notin spoiled
    BY <1>1, Known, Begun DEF captureStart
  <2>2. Turned'
    BY <1>1, <2>1 DEF captureStart, Begin, Call, Quiet, Turned
  <2>3. Observed' /\ Categorized'
    BY <1>1, <2>1 DEF captureStart, Begin, Call, Quiet, Observed, Categorized
  <2> QED BY <2>2, <2>3
<1>2. ASSUME permissionGranted PROVE Turned' /\ Observed' /\ Categorized'
  <2>1. Quiet /\ "raced" \notin spoiled
    BY <1>2, Known, Begun DEF permissionGranted
  <2>2. Turned'
    BY <1>2, <2>1 DEF permissionGranted, Begin, Quiet, Turned
  <2>3. Observed' /\ Categorized'
    BY <1>2, <2>1 DEF permissionGranted, Begin, Quiet, Observed, Categorized
  <2> QED BY <2>2, <2>3
<1>3. ASSUME NEW r \in Renderers, rendererStart(r) PROVE Turned' /\ Observed' /\ Categorized'
  <2>1. Quiet /\ "raced" \notin spoiled
    BY <1>3, Known, Begun DEF rendererStart
  <2>2. Turned'
    BY <1>3, <2>1 DEF rendererStart, Begin, Call, Quiet, Turned
  <2>3. Observed' /\ Categorized'
    BY <1>3, <2>1 DEF rendererStart, Begin, Call, Quiet, Observed, Categorized
  <2> QED BY <2>2, <2>3
<1>4. ASSUME NEW c \in Clients, endClient(c) PROVE Turned' /\ Observed' /\ Categorized'
  <2>1. Quiet /\ "raced" \notin spoiled
    BY <1>4, Known, Begun DEF endClient, End
  <2>2. Turned'
    BY <1>4, <2>1 DEF endClient, End, Begin, Call, Quiet, Turned
  <2>3. Observed' /\ Categorized'
    BY <1>4, <2>1 DEF endClient, End, Begin, Call, Quiet, Observed, Categorized
  <2> QED BY <2>2, <2>3
<1>5. ASSUME NEW t \in Threads, prepareForRecordingIfNeeded(t) PROVE Turned' /\ Observed' /\ Categorized'
  <2>1. Turned'
    BY <1>5 DEF prepareForRecordingIfNeeded, switchToCategoryPlayAndRecord, switchToCategory, isRecording, Fails, Succeeds, Turned
  <2>2. Observed'
    BY <1>5 DEF prepareForRecordingIfNeeded, switchToCategoryPlayAndRecord, switchToCategory, isRecording, Fails, Succeeds, Observed
  <2>3. Categorized'
    BY <1>5 DEF prepareForRecordingIfNeeded, switchToCategoryPlayAndRecord, switchToCategory, isRecording, Fails, Succeeds, Categorized
  <2> QED BY <2>1, <2>2, <2>3
<1>6. ASSUME NEW t \in Threads, component(t) PROVE Turned' /\ Observed' /\ Categorized'
  <2>1. Turned'
    BY <1>6 DEF component, Fails, Succeeds, Turned
  <2>2. Observed'
    BY <1>6 DEF component, Fails, Succeeds, Observed
  <2>3. Categorized'
    BY <1>6 DEF component, Fails, Succeeds, Categorized
  <2> QED BY <2>1, <2>2, <2>3
<1>7. ASSUME NEW t \in Threads, readCount(t) PROVE Turned' /\ Observed' /\ Categorized'
  <2>1. Turned'
    BY <1>7 DEF readCount, Turned
  <2>2. Observed'
    BY <1>7 DEF readCount, Observed
  <2>3. Categorized'
    BY <1>7 DEF readCount, Categorized
  <2> QED BY <2>1, <2>2, <2>3
<1>8. ASSUME NEW t \in Threads, increaseActiveCounter(t) PROVE Turned' /\ Observed' /\ Categorized'
  <2>1. Turned'
    BY <1>8 DEF increaseActiveCounter, increased, Turned
  <2>2. Observed'
    BY <1>8 DEF increaseActiveCounter, increased, Observed
  <2>3. Categorized'
    BY <1>8 DEF increaseActiveCounter, increased, Categorized
  <2> QED BY <2>1, <2>2, <2>3
<1>9. ASSUME NEW t \in Threads, decreaseActiveCounter(t) PROVE Turned' /\ Observed' /\ Categorized'
  <2>1. Turned'
    BY <1>9 DEF decreaseActiveCounter, decreased, Turned
  <2>2. Observed'
    BY <1>9 DEF decreaseActiveCounter, decreased, Observed
  <2>3. Categorized'
    BY <1>9 DEF decreaseActiveCounter, decreased, Categorized
  <2> QED BY <2>1, <2>2, <2>3
<1>10. ASSUME NEW t \in Threads, activate(t) PROVE Turned' /\ Observed' /\ Categorized'
  <2>1. /\ at[t] = "activate" /\ \A u \in Threads : at'[u] # "activate" /\ (u # t => at[u] # "activate")
        /\ UNCHANGED <<activeCount, interruption>> /\ Turned
    BY <1>10 DEF activate
  <2>2. \/ UNCHANGED <<active, system, spoiled>>
        \/ active' = TRUE /\ system' = TRUE /\ spoiled' = spoiled
        \/ UNCHANGED <<active, system>> /\ spoiled' = spoiled \cup {"activation"}
    BY <1>10 DEF activate, Succeeds, Fails
  <2>3. interruption' = "none" => system' = active'
    BY <2>1, <2>2 DEF Turned
  <2>4. ("deactivation" \notin spoiled' /\ activeCount' = 0 /\ \A u \in Threads : at'[u] # "deactivate") => ~active'
    BY <1>10, <2>1, <2>2 DEF Turned, activate
  <2>5. ("activation" \notin spoiled' /\ activeCount' > 0 /\ \A u \in Threads : at'[u] # "activate") => active'
    BY <1>10, <2>1, <2>2 DEF Turned, activate
  <2>6. Observed'
    BY <1>10 DEF activate, Fails, Succeeds, Observed
  <2>7. Categorized'
    BY <1>10 DEF activate, Fails, Succeeds, Categorized
  <2> QED BY <2>3, <2>4, <2>5, <2>6, <2>7 DEF Turned
<1>11. ASSUME NEW t \in Threads, deactivate(t) PROVE Turned' /\ Observed' /\ Categorized'
  <2>1. /\ at[t] = "deactivate" /\ \A u \in Threads : at'[u] # "deactivate" /\ (u # t => at[u] # "deactivate")
        /\ UNCHANGED <<activeCount, interruption>> /\ Turned
    BY <1>11 DEF deactivate, canDeactivate
  <2>2. \/ UNCHANGED <<active, system, spoiled>>
        \/ active' = FALSE /\ system' = FALSE /\ spoiled' = spoiled
        \/ UNCHANGED <<active, system>> /\ spoiled' = spoiled \cup {"deactivation"}
    BY <1>11 DEF deactivate, canDeactivate, Succeeds, Fails
  <2>3. interruption' = "none" => system' = active'
    BY <2>1, <2>2 DEF Turned
  <2>4. ("deactivation" \notin spoiled' /\ activeCount' = 0 /\ \A u \in Threads : at'[u] # "deactivate") => ~active'
    BY <1>11, <2>1, <2>2 DEF Turned, deactivate, canDeactivate
  <2>5. ("activation" \notin spoiled' /\ activeCount' > 0 /\ \A u \in Threads : at'[u] # "activate") => active'
    BY <1>11, <2>1, <2>2 DEF Turned, deactivate, canDeactivate
  <2>6. Observed'
    BY <1>11 DEF deactivate, canDeactivate, Fails, Succeeds, Observed
  <2>7. Categorized'
    BY <1>11 DEF deactivate, canDeactivate, Fails, Succeeds, Categorized
  <2> QED BY <2>3, <2>4, <2>5, <2>6, <2>7 DEF Turned
<1>12. ASSUME NEW t \in Threads, output(t) PROVE Turned' /\ Observed' /\ Categorized'
  <2>1. Turned'
    BY <1>12 DEF output, Fails, Succeeds, Turned
  <2>2. Observed'
    BY <1>12 DEF output, Fails, Succeeds, Observed
  <2>3. Categorized'
    BY <1>12 DEF output, Fails, Succeeds, Categorized
  <2> QED BY <2>1, <2>2, <2>3
<1>13. ASSUME NEW t \in Threads, drop(t) PROVE Turned' /\ Observed' /\ Categorized'
  <2>1. Turned'
    BY <1>13 DEF drop, Turned
  <2>2. Observed'
    BY <1>13 DEF drop, Observed
  <2>3. Categorized'
    BY <1>13 DEF drop, Categorized
  <2> QED BY <2>1, <2>2, <2>3
<1>14. ASSUME interruptionBegan PROVE Turned' /\ Observed' /\ Categorized'
  <2>1. Turned'
    BY <1>14 DEF interruptionBegan, Call, Turned
  <2>2. Observed'
    BY <1>14 DEF interruptionBegan, Call, Observed
  <2>3. Categorized'
    BY <1>14 DEF interruptionBegan, Call, Categorized
  <2> QED BY <2>1, <2>2, <2>3
<1>15. ASSUME audioInterruptionEnded PROVE Turned' /\ Observed' /\ Categorized'
  <2>1. CASE observer /\ running[Capture] /\ unit[Capture]
    <3>1. Quiet /\ "raced" \notin spoiled
      BY <1>15, <2>1, Known, Begun DEF audioInterruptionEnded, End
    <3>2. Turned'
      BY <1>15, <2>1, <3>1 DEF audioInterruptionEnded, End, Begin, Quiet, Turned
    <3>3. Observed' /\ Categorized'
      BY <1>15, <2>1, <3>1 DEF audioInterruptionEnded, End, Begin, Quiet, Observed, Categorized
    <3> QED BY <3>2, <3>3
  <2>2. CASE ~(observer /\ running[Capture] /\ unit[Capture])
    BY <1>15, <2>2 DEF audioInterruptionEnded, Turned, Observed, Categorized
  <2> QED BY <2>1, <2>2
<1>16. CASE UNCHANGED vars
  BY <1>16 DEF vars, Turned, Observed, Categorized
<1> QED BY <1>1, <1>2, <1>3, <1>4, <1>5, <1>6, <1>7, <1>8, <1>9, <1>10, <1>11, <1>12, <1>13, <1>14, <1>15, <1>16
        DEF Next, setActive, initializeAudioIfNeeded

-----------------------------------------------------------------------------
(* An interruption that only the capture meets.  It takes the system's     *)
(* session and leaves active as it is, so that only the end of the capture *)
(* brings the two together again.                                          *)

Interrupted ==
  /\ \A c \in Clients : unit[c] => running[c] \/ \E t \in Threads : client[t] = c /\ at[t] = "output"
  /\ interruption = "over" => system = active
  /\ interruption \in {"began", "ended"} =>
       /\ \A r \in Renderers : ~unit[r]
       /\ \A t \in Threads : Working(t) => t = Main /\ client[t] = Capture
  /\ interruption = "began" => ~system /\ (Working(Main) => at[Main] \in Ending)
  /\ interruption = "ended" =>
       /\ ~running[Capture] \/ at[Main] \in Ending
       /\ at[Main] \in {"lower", "lowered", "deactivate"} => ~system
       /\ at[Main] \notin {"lower", "lowered", "deactivate"} => system = active

Clean == spoiled \subseteq {"category"}
InterruptedInv == Clean => Interrupted

AudioInv == AloneInv /\ BalanceInv /\ TurnInv /\ InterruptedInv

LEMMA CleanStays == [Next]_vars /\ Clean' => Clean
<1> SUFFICES ASSUME [Next]_vars, Clean' PROVE Clean
  OBVIOUS
<1> USE DEF Clean, Spoil
<1>1. ASSUME captureStart PROVE Clean
  BY <1>1 DEF captureStart, Begin, Call, kind, manager, clients, bounds
<1>2. ASSUME permissionGranted PROVE Clean
  BY <1>2 DEF permissionGranted, Begin, kind, manager, clients, bounds
<1>3. ASSUME NEW r \in Renderers, rendererStart(r) PROVE Clean
  BY <1>3 DEF rendererStart, Begin, Call, kind, manager, clients, bounds
<1>4. ASSUME NEW c \in Clients, endClient(c) PROVE Clean
  BY <1>4 DEF endClient, End, Begin, Call, kind, manager, clients, bounds
<1>5. ASSUME NEW t \in Threads, prepareForRecordingIfNeeded(t) PROVE Clean
  BY <1>5 DEF prepareForRecordingIfNeeded, switchToCategoryPlayAndRecord, switchToCategory, isRecording, Fails, Succeeds, kind, manager, clients, bounds
<1>6. ASSUME NEW t \in Threads, component(t) PROVE Clean
  BY <1>6 DEF component, Fails, Succeeds, kind, manager, clients, bounds
<1>7. ASSUME NEW t \in Threads, readCount(t) PROVE Clean
  BY <1>7 DEF readCount, kind, manager, clients, bounds
<1>8. ASSUME NEW t \in Threads, increaseActiveCounter(t) PROVE Clean
  BY <1>8 DEF increaseActiveCounter, increased, kind, manager, clients, bounds
<1>9. ASSUME NEW t \in Threads, decreaseActiveCounter(t) PROVE Clean
  BY <1>9 DEF decreaseActiveCounter, decreased, kind, manager, clients, bounds
<1>10. ASSUME NEW t \in Threads, activate(t) PROVE Clean
  BY <1>10 DEF activate, Fails, Succeeds, kind, manager, clients, bounds
<1>11. ASSUME NEW t \in Threads, deactivate(t) PROVE Clean
  BY <1>11 DEF deactivate, canDeactivate, Fails, Succeeds, kind, manager, clients, bounds
<1>12. ASSUME NEW t \in Threads, output(t) PROVE Clean
  BY <1>12 DEF output, Fails, Succeeds, kind, manager, clients, bounds
<1>13. ASSUME NEW t \in Threads, drop(t) PROVE Clean
  BY <1>13 DEF drop, kind, manager, clients, bounds
<1>14. ASSUME interruptionBegan PROVE Clean
  BY <1>14 DEF interruptionBegan, Call, kind, manager, clients, bounds
<1>15. ASSUME audioInterruptionEnded PROVE Clean
  BY <1>15 DEF audioInterruptionEnded, End, Begin, kind, manager, clients, bounds
<1>16. CASE UNCHANGED vars
  BY <1>16 DEF vars
<1> QED BY <1>1, <1>2, <1>3, <1>4, <1>5, <1>6, <1>7, <1>8, <1>9, <1>10, <1>11, <1>12, <1>13, <1>14, <1>15, <1>16
        DEF Next, setActive, initializeAudioIfNeeded

\* With nobody on the way, who has a unit is counted, and nobody else.
LEMMA CountedAtRest ==
  ASSUME TypeOK, Balanced, Quiet
  PROVE  /\ "overflow" \notin spoiled => \A c \in Clients : unit[c] => activeCount > 0
         /\ "component" \notin spoiled => ((\A c \in Clients : ~unit[c]) => activeCount = 0)
<1>1. Raised = 0 /\ Lowered = 0
  BY DEF Quiet, Starting, Ending, Raised, Lowered
<1>2. activeCount \in Nat /\ Cardinality(Users) \in Nat /\ IsFiniteSet(Users)
  BY UsersAreFinite DEF TypeOK
<1>3. ASSUME NEW c \in Clients, unit[c], "overflow" \notin spoiled PROVE activeCount > 0
  <2>1. Users # {}
    BY <1>3 DEF Users
  <2>2. Cardinality(Users) # 0
    BY <1>2, <2>1, FS_EmptySet
  <2> QED BY <1>1, <1>2, <1>3, <2>2 DEF Balanced
<1>4. ASSUME \A c \in Clients : ~unit[c], "component" \notin spoiled PROVE activeCount = 0
  <2>1. Users = {}
    BY <1>4 DEF Users
  <2>2. Cardinality(Users) = 0
    BY <2>1, FS_EmptySet
  <2> QED BY <1>1, <1>2, <1>4, <2>2 DEF Balanced
<1> QED BY <1>3, <1>4

\* The last client that leaves has counted down to nothing.
LEMMA LastLeaves ==
  ASSUME TypeOK, Balanced, "component" \notin spoiled, at[Main] = "deactivate",
         \A r \in Renderers : ~unit[r],
         \A t \in Threads : Working(t) => t = Main
  PROVE  activeCount = 0
<1>1. Users \subseteq {Capture}
  BY DEF Users, Clients
<1>2. Cardinality(Users) <= 1
  <2>1. Users = {} \/ Users = {Capture}
    BY <1>1
  <2>2. Cardinality({}) = 0 /\ Cardinality({Capture}) = 1
    BY FS_EmptySet, FS_Singleton
  <2> HIDE DEF Users
  <2> QED BY <2>1, <2>2
<1>3. Lowered = 1
  BY Known DEF Lowered
<1>4. Raised = 0
  <2>1. \A t \in Threads : at[t] \notin {"activate", "component"}
    BY DEF Working, Starting
  <2> QED BY <2>1 DEF Raised
<1>5. activeCount \in Nat /\ Cardinality(Users) \in Nat
  BY UsersAreFinite DEF TypeOK
<1> QED BY <1>2, <1>3, <1>4, <1>5 DEF Balanced

LEMMA InterruptedNext == AudioInv /\ [Next]_vars => InterruptedInv'
<1> SUFFICES ASSUME AudioInv, [Next]_vars, Clean' PROVE Interrupted'
  BY DEF InterruptedInv
<1>a. Clean /\ Interrupted /\ Alone /\ Balanced /\ Turned /\ Observed
  BY CleanStays DEF AudioInv, AloneInv, BalanceInv, TurnInv, InterruptedInv, Clean
<1>b. Maps /\ Counts /\ Flags /\ TypeOK
  BY TypeParts DEF AudioInv, AloneInv
<1>c. "shared" \notin spoiled' /\ "raced" \notin spoiled' /\ "output" \notin spoiled' /\ "component" \notin spoiled'
      /\ "deactivation" \notin spoiled' /\ "activation" \notin spoiled'
  BY DEF Clean
<1>d. "component" \notin spoiled /\ "overflow" \notin spoiled /\ "deactivation" \notin spoiled
  BY <1>a DEF Clean
<1> USE DEF clients, manager, kind, place, bounds, Go, Spoil
<1>1. ASSUME captureStart PROVE Interrupted'
  BY <1>1, <1>a, <1>b DEF captureStart, Begin, Call, Interrupted, Maps, Working, Ending
<1>2. ASSUME permissionGranted PROVE Interrupted'
  BY <1>2, <1>a, <1>c, ClientAssumption DEF permissionGranted, Begin, Interrupted, Working, Ending
<1>3. ASSUME NEW r \in Renderers, rendererStart(r) PROVE Interrupted'
  BY <1>3, <1>a, <1>c, ClientAssumption DEF rendererStart, Begin, Call, Interrupted, Working, Ending
<1>4. ASSUME NEW c \in Clients, endClient(c) PROVE Interrupted'
  <2>1. interruption # "ended" /\ c \in Clients
    <3> SUFFICES ASSUME interruption = "ended" PROVE FALSE
      BY <1>4
    <3>1. at[Main] = "idle" /\ running[c] /\ unit[c]
      BY <1>4 DEF endClient, End, Begin
    <3>2. ~running[Capture] /\ \A r \in Renderers : ~unit[r]
      BY <1>a, <3>1 DEF Interrupted, Ending
    <3> QED BY <1>4, <3>1, <3>2 DEF Clients
  <2>2. Quiet
    BY <1>4, <1>c, Known, Begun DEF endClient, End
  <2>3. /\ UNCHANGED <<unit, running, interruption, system, active>>
        /\ at' = [at EXCEPT ![Main] = "lower"] /\ client' = [client EXCEPT ![Main] = c]
        /\ (\E r \in Renderers : c = r) => unit[c]
    BY <1>4 DEF endClient, End, Begin
  <2>4. interruption = "began" => c = Capture
    BY <1>4, <1>a, <2>3 DEF Interrupted, Clients, endClient, End
  <2>5. \A u \in Threads : at[u] # "output" /\ ~Working(u)
    BY <2>2 DEF Quiet, Starting, Working
  <2> QED BY <1>a, <1>b, <2>1, <2>3, <2>4, <2>5, Known DEF Interrupted, Maps, Working, Starting, Ending
<1>5. ASSUME NEW t \in Threads, prepareForRecordingIfNeeded(t) PROVE Interrupted'
  BY <1>5, <1>a DEF prepareForRecordingIfNeeded, switchToCategoryPlayAndRecord, switchToCategory, isRecording, Fails, Succeeds, Interrupted, Working, Ending, Starting
<1>6. ASSUME NEW t \in Threads, component(t) PROVE Interrupted'
  BY <1>6, <1>a, <1>b, Known, ClientAssumption DEF component, Fails, Succeeds, Interrupted, Maps, Working, Ending
<1>7. ASSUME NEW t \in Threads, readCount(t) PROVE Interrupted'
  BY <1>7, <1>a DEF readCount, Interrupted, Working, Ending, Starting
<1>8. ASSUME NEW t \in Threads, increaseActiveCounter(t) PROVE Interrupted'
  BY <1>8, <1>a DEF increaseActiveCounter, increased, Interrupted, Working, Ending, Starting
<1>9. ASSUME NEW t \in Threads, decreaseActiveCounter(t) PROVE Interrupted'
  BY <1>9, <1>a DEF decreaseActiveCounter, decreased, Interrupted, Working, Ending
<1>10. ASSUME NEW t \in Threads, activate(t) PROVE Interrupted'
  BY <1>10, <1>a, <1>b DEF activate, Fails, Succeeds, Interrupted, Maps, Working, Ending
<1>11. ASSUME NEW t \in Threads, deactivate(t) PROVE Interrupted'
  <2>1. CASE interruption = "ended"
    <3>1. t = Main /\ at[Main] = "deactivate" /\ ~system
      BY <1>11, <1>a, <2>1 DEF deactivate, Interrupted, Working, Ending
    <3>2. activeCount = 0
      BY <1>a, <1>b, <1>d, <2>1, <3>1, LastLeaves DEF Interrupted
    <3>3. system' = active'
      <4>1. CASE ~active
        <5>1. UNCHANGED <<system, active>>
          BY <1>11, <4>1 DEF deactivate
        <5>2. system = active
          BY <1>b, <3>1, <4>1 DEF Flags
        <5> QED BY <5>1, <5>2
      <4>2. CASE active
        <5>1. canDeactivate(activeCount)
          BY <3>2 DEF canDeactivate
        <5>2. \/ active' = FALSE /\ system' = FALSE
              \/ "deactivation" \in spoiled'
          BY <1>11, <4>2, <5>1 DEF deactivate
        <5> QED BY <1>c, <5>2
      <4> QED BY <4>1, <4>2
    <3>4. UNCHANGED <<interruption, unit, running, client>> /\ at' = [at EXCEPT ![Main] = "drop"]
      BY <1>11, <3>1 DEF deactivate
    <3> QED BY <1>a, <1>b, <2>1, <3>1, <3>3, <3>4, Known DEF Interrupted, Maps, Working, Ending, Starting
  <2>2. CASE interruption # "ended"
    BY <1>11, <1>a, <1>b, <2>2 DEF deactivate, Fails, Succeeds, Interrupted, Maps, Working, Ending
  <2> QED BY <2>1, <2>2
<1>12. ASSUME NEW t \in Threads, output(t) PROVE Interrupted'
  BY <1>12, <1>a, <1>b, <1>c DEF output, Fails, Succeeds, Interrupted, Maps, Working, Ending
<1>13. ASSUME NEW t \in Threads, drop(t) PROVE Interrupted'
  BY <1>13, <1>a, <1>b DEF drop, Interrupted, Maps, Working, Ending, Starting
<1>14. ASSUME interruptionBegan PROVE Interrupted'
  BY <1>14, <1>a, <1>c DEF interruptionBegan, Call, Interrupted, Working, Ending, Quiet, Starting
<1>15. ASSUME audioInterruptionEnded PROVE Interrupted'
  <2>1. CASE observer /\ running[Capture] /\ unit[Capture]
    BY <1>15, <1>a, <1>b, <2>1, Known DEF audioInterruptionEnded, End, Begin, Interrupted, Maps, Working, Ending
  <2>2. CASE ~(observer /\ running[Capture] /\ unit[Capture])
    <3>1. interruption = "began" /\ at[Main] = "idle" /\ ~system /\ \A r \in Renderers : ~unit[r]
      BY <1>15, <1>a DEF audioInterruptionEnded, Interrupted
    <3>2. Quiet
      BY <1>a, <3>1 DEF Interrupted, Quiet, Working, Ending
    <3>3. ~unit[Capture]
      <4>1. SUFFICES ASSUME unit[Capture] PROVE FALSE
        OBVIOUS
      <4>2. running[Capture]
        BY <1>a, <3>2, <4>1, Known DEF Interrupted, Quiet, Starting
      <4>3. observer
        BY <1>a, <1>b, <1>d, <3>2, <4>1, Known, CountedAtRest DEF Observed, Quiet, Starting
      <4> QED BY <2>2, <4>1, <4>2, <4>3
    <3>4. activeCount = 0
      BY <1>a, <1>b, <1>d, <3>1, <3>2, <3>3, CountedAtRest DEF Clients
    <3>5. ~active
      BY <1>a, <1>d, <3>2, <3>4 DEF Turned, Quiet, Ending
    <3>6. ~running[Capture]
      BY <1>a, <3>3, Known DEF Alone
    <3>7. system = active
      BY <1>b, <3>1, <3>5 DEF Flags
    <3>8. interruption' = "ended" /\ UNCHANGED <<unit, running, at, client, active, system>>
      BY <1>15, <2>2 DEF audioInterruptionEnded
    <3> QED BY <1>a, <3>1, <3>6, <3>7, <3>8 DEF Interrupted, Working
  <2> QED BY <2>1, <2>2
<1>16. CASE UNCHANGED vars
  BY <1>16, <1>a DEF vars, Interrupted, Working, Ending
<1> QED BY <1>1, <1>2, <1>3, <1>4, <1>5, <1>6, <1>7, <1>8, <1>9, <1>10, <1>11, <1>12, <1>13, <1>14, <1>15, <1>16
        DEF Next, setActive, initializeAudioIfNeeded

LEMMA AudioInit == Init => AudioInv
<1> SUFFICES ASSUME Init PROVE AudioInv
  OBVIOUS
<1>1. TypeOK
  BY TypeInit
<1>2. /\ \A t \in Threads : at[t] = "idle"
      /\ \A c \in Clients : ~unit[c] /\ ~running[c]
  BY DEF Init
<1>3. Quiet /\ Alone
  BY <1>2 DEF Quiet, Alone, Working, Starting, Ending
<1>4. Balanced
  <2>1. Users = {} /\ Raised = 0 /\ Lowered = 0
    BY <1>2 DEF Users, Raised, Lowered
  <2>2. Cardinality(Users) = 0 /\ activeCount = 0
    BY <2>1, FS_EmptySet DEF Init
  <2> QED BY <2>1, <2>2 DEF Balanced
<1>5. Turned /\ Observed /\ Categorized
  <2>1. activeCount = 0 /\ active = FALSE /\ system = FALSE /\ observer
    BY DEF Init
  <2>2. ~(activeCount > 0)
    BY <2>1
  <2>3. system = active
    BY <2>1, Zenon
  <2> QED BY <1>2, <2>1, <2>2, <2>3 DEF Turned, Observed, Categorized
<1>6. Interrupted
  BY <1>2 DEF Init, Interrupted
<1> QED BY <1>1, <1>3, <1>4, <1>5, <1>6 DEF AudioInv, AloneInv, BalanceInv, TurnInv, InterruptedInv

LEMMA AudioNext == AudioInv /\ [Next]_vars => AudioInv'
  BY AloneNext, BalanceNext, TurnNext, InterruptedNext DEF AudioInv

\* What a quiet session looks like to a client that runs.
LEMMA RunningIsCounted ==
  ASSUME AudioInv, Quiet, "raced" \notin spoiled, "overflow" \notin spoiled, NEW c \in Clients, running[c]
  PROVE  activeCount > 0 /\ \A t \in Threads : at[t] # "activate"
<1>1. TypeOK /\ Balanced /\ unit[c]
  BY DEF AudioInv, AloneInv, BalanceInv, Alone
<1> QED BY <1>1, CountedAtRest DEF Quiet, Starting

\* The system's session is active exactly while somebody uses it.
THEOREM SessionIsActiveWhileUsed == Spec => []ActiveWhileUsed
<1>1. AudioInv => ActiveWhileUsed
  <2> SUFFICES ASSUME AudioInv PROVE RunningIsActive /\ QuietIsInactive
    BY DEF AudioInv, AloneInv, ActiveWhileUsed
  <2>1. RunningIsActive
    <3> SUFFICES ASSUME Quiet, spoiled \cap {"raced", "overflow", "activation"} = {}, interruption = "none",
                        NEW c \in Clients, running[c]
                 PROVE  system
      BY DEF RunningIsActive
    <3>1. activeCount > 0 /\ (\A t \in Threads : at[t] # "activate") /\ Turned
      BY RunningIsCounted DEF AudioInv, TurnInv
    <3> QED BY <3>1 DEF Turned
  <2>2. QuietIsInactive
    <3> SUFFICES ASSUME Quiet, spoiled \cap {"raced", "deactivation", "component"} = {},
                        \A c \in Clients : ~unit[c]
                 PROVE  ~active /\ activeCount = 0
      BY DEF QuietIsInactive
    <3>1. activeCount = 0 /\ Turned
      BY CountedAtRest DEF AudioInv, AloneInv, BalanceInv, TurnInv
    <3> QED BY <3>1 DEF Turned, Quiet, Ending
  <2> QED BY <2>1, <2>2
<1> QED BY <1>1, AudioInit, AudioNext, PTL DEF Spec

\* What the system takes away or refuses is noticed, and asked for again.
THEOREM SystemCallsAreHeeded == Spec => []SystemIsHeeded
<1>1. AudioInv => SystemIsHeeded
  <2> SUFFICES ASSUME AudioInv PROVE InterruptionsAreSeen /\ RefusedCategoryIsRetried
    BY DEF SystemIsHeeded
  <2>1. InterruptionsAreSeen
    BY RunningIsCounted DEF AudioInv, TurnInv, Observed, InterruptionsAreSeen
  <2>2. RefusedCategoryIsRetried
    BY RunningIsCounted DEF AudioInv, TurnInv, Categorized, RefusedCategoryIsRetried
  <2> QED BY <2>1, <2>2
<1> QED BY <1>1, AudioInit, AudioNext, PTL DEF Spec

\* The capture that starts again after an interruption has an active session.
THEOREM ResumedCaptureIsActive == Spec => []ResumedIsActive
<1>1. AudioInv => ResumedIsActive
  <2> SUFFICES ASSUME AudioInv, Quiet, spoiled = {}, interruption = "over", running[Capture] PROVE system
    BY DEF ResumedIsActive
  <2>1. activeCount > 0 /\ (\A t \in Threads : at[t] # "activate") /\ Turned /\ Interrupted
    BY RunningIsCounted, Known DEF AudioInv, TurnInv, InterruptedInv, Clean
  <2> QED BY <2>1 DEF Turned, Interrupted
<1> QED BY <1>1, AudioInit, AudioNext, PTL DEF Spec
=================================================================================
