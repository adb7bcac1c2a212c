-------------------------- MODULE SessionLifecycle --------------------------
(***************************************************************************)
(* What a client session promises its delegates, whatever the threads,     *)
(* the server and the network do: attempts follow one another and never    *)
(* overlap; an attempt goes live at most once and is over for good once it *)
(* is reported closed; the metrics are started by the thread that works    *)
(* for the attempt, stopped only when the attempt is over, and have been   *)
(* stopped before the next one begins.                                     *)
(***************************************************************************)
VARIABLES phase,    \* of the current attempt, as the delegates were told
          busy,     \* a socket thread works for it
          metered   \* the network metrics run

lifecycle == <<phase, busy, metered>>

Init == phase = "idle" /\ busy = FALSE /\ metered = FALSE

Begin ==
  /\ phase \in {"idle", "over"} /\ ~busy /\ ~metered
  /\ phase' = "attempt" /\ busy' = TRUE /\ UNCHANGED metered

\* the session started; it may be over already when the delegates hear of it
GoLive ==
  /\ phase \in {"attempt", "over"} /\ busy
  /\ phase' = IF phase = "attempt" THEN "live" ELSE phase
  /\ metered' = TRUE
  /\ UNCHANGED busy

\* the connection failed (with its thread) or was closed
Finish ==
  /\ phase \in {"attempt", "live"}
  /\ phase' = "over"
  /\ busy' \in {busy, FALSE}
  /\ UNCHANGED metered

ThreadEnds == busy /\ busy' = FALSE /\ UNCHANGED <<phase, metered>>

StopMetrics == phase = "over" /\ metered' = FALSE /\ UNCHANGED <<phase, busy>>

Next == Begin \/ GoLive \/ Finish \/ ThreadEnds \/ StopMetrics

Spec == Init /\ [][Next]_lifecycle
=============================================================================
