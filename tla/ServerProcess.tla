---------------------------- MODULE ServerProcess ----------------------------
(* A backend as package server starts and ends it (server.Process): spawned   *)
(* in a process group of its own and, where there is a memory limit, in a     *)
(* systemd scope; polled until it is ready; stopped once, whoever asks.       *)
EXTENDS Naturals, FiniteSets

CONSTANTS
  MaxStarts,   \* calls of StartWithTimeoutToOptions, each with its Process
  Scoped,      \* every backend has a memory scope
  Unkillable   \* a backend may survive SIGKILL for longer than Stop waits

ASSUME ServerAssumption ==
  MaxStarts \in Nat /\ Scoped \in BOOLEAN /\ Unkillable \in BOOLEAN

Starts == 1..MaxStarts

VARIABLES
  backend,     \* what has become of the process of each start
  stop,        \* stopOnce and stopErr of its Process
  unit,        \* what systemd knows of its scope
  recorded     \* memoryOOMKillCount > 0

procVars == <<backend, stop, unit, recorded>>

ProcTypeOK ==
  /\ backend \in [Starts -> {"none", "loading", "serving", "exited", "oomed"}]
  /\ stop \in [Starts -> {"no", "begun", "done", "failed"}]
  /\ unit \in [Starts -> {"none", "active", "failed"}]
  /\ recorded \in [Starts -> BOOLEAN]

ProcInit ==
  /\ backend = [s \in Starts |-> "none"]
  /\ stop = [s \in Starts |-> "no"]
  /\ unit = [s \in Starts |-> "none"]
  /\ recorded = [s \in Starts |-> FALSE]

Alive == {s \in Starts : backend[s] \in {"loading", "serving"}}
IsRunning(s) == s \in Alive
StopReturned(s) == stop[s] \in {"done", "failed"}

-----------------------------------------------------------------------------
(* What ggrun does.                                                        *)

Spawn(s) ==
  /\ backend[s] = "none"
  /\ backend' = [backend EXCEPT ![s] = "loading"]
  /\ unit' = [unit EXCEPT ![s] = IF Scoped THEN "active" ELSE "none"]
  /\ UNCHANGED <<stop, recorded>>

\* captureMemoryStats: a scope that was killed for its memory keeps its result
\* until it is reset.
Seen(s) == recorded[s] \/ unit[s] = "failed"

\* The ticks of monitorMemoryStats, and the last one when the process is done.
Monitor(s) ==
  /\ Seen(s) # recorded[s]
  /\ recorded' = [recorded EXCEPT ![s] = TRUE]
  /\ UNCHANGED <<backend, stop, unit>>

MutStopForgetsEvidence(s) ==
  /\ stop[s] = "no" /\ backend[s] # "none"
  /\ stop' = [stop EXCEPT ![s] = "begun"]
  /\ unit' = [unit EXCEPT ![s] = "none"]
  /\ UNCHANGED <<backend, recorded>>

\* Stop, up to the signals: only its first caller runs it.
StopBegins(s) ==
  /\ stop[s] = "no" /\ backend[s] # "none"
  /\ stop' = [stop EXCEPT ![s] = "begun"]
  /\ recorded' = [recorded EXCEPT ![s] = Seen(s)]
  /\ UNCHANGED <<backend, unit>>

\* Stop returns when the process is done, with an error if systemd could not be
\* asked about the scope, or after 15 seconds with an error in any case.
StopEnds(s) ==
  /\ stop[s] = "begun"
  /\ \/ ~IsRunning(s) /\ stop' = [stop EXCEPT ![s] = "done"]
     \/ ~IsRunning(s) /\ Scoped /\ stop' = [stop EXCEPT ![s] = "failed"]
     \/ IsRunning(s) /\ Unkillable /\ stop' = [stop EXCEPT ![s] = "failed"]
  /\ unit' = [unit EXCEPT ![s] = IF IsRunning(s) THEN @ ELSE "none"]
  /\ UNCHANGED <<backend, recorded>>

-----------------------------------------------------------------------------
(* What the backend does.                                                  *)

\* /health, or /v1/models where there is no structured health, says it is ready.
BecomesReady(s) ==
  /\ backend[s] = "loading"
  /\ backend' = [backend EXCEPT ![s] = "serving"]
  /\ UNCHANGED <<stop, unit, recorded>>

\* It exits: by itself, or because of a signal of Stop or the end of ggrun.
Exits(s) ==
  /\ IsRunning(s)
  /\ backend' = [backend EXCEPT ![s] = "exited"]
  /\ unit' = [unit EXCEPT ![s] = "none"]
  /\ UNCHANGED <<stop, recorded>>

\* The kernel kills the scope for its memory; systemd keeps the failed unit.
OutOfMemory(s) ==
  /\ IsRunning(s) /\ Scoped
  /\ backend' = [backend EXCEPT ![s] = IF stop[s] = "no" THEN "oomed" ELSE "exited"]
  /\ unit' = [unit EXCEPT ![s] = "failed"]
  /\ UNCHANGED <<stop, recorded>>

-----------------------------------------------------------------------------
\* A backend that was killed for its memory before anybody stopped it is known to
\* have been when Stop returns, although Stop resets the failed unit.
EvidenceKept ==
  \A s \in Starts : StopReturned(s) /\ backend[s] = "oomed" => recorded[s]
=============================================================================
