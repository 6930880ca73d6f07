------------------------------- MODULE Turns -------------------------------
(***************************************************************************)
(* What the queue promises of the GPU: runs take turns with it, and each   *)
(* trains at most once.  RunQueue, with its terminals, workers, control    *)
(* planes, locks and sentinel files, implements this (RunQueue!OneByOne).  *)
(***************************************************************************)
CONSTANTS Run, NoRun

VARIABLES
  holder,  \* the run whose turn it is
  phase,   \* how far each run's trainer is
  lost     \* runs that lost the GPU because their executor died

vars == <<holder, phase, lost>>

Init ==
  /\ holder = NoRun
  /\ phase = [r \in Run |-> "waiting"]
  /\ lost = {}

\* A run gets the GPU when nobody has it.
Take(r) ==
  /\ holder = NoRun
  /\ holder' = r
  /\ UNCHANGED <<phase, lost>>

\* The run whose turn it is trains, unless it has trained before.
Start ==
  /\ holder # NoRun /\ phase[holder] = "waiting"
  /\ phase' = [phase EXCEPT ![holder] = "training"]
  /\ UNCHANGED <<holder, lost>>

\* A trainer ends: by itself, or because it was cancelled.
End(r) ==
  /\ phase[r] = "training"
  /\ phase' = [phase EXCEPT ![r] = "trained"]
  /\ UNCHANGED <<holder, lost>>

\* The turn ends, and not while the run trains.
Give ==
  /\ holder # NoRun /\ phase[holder] # "training"
  /\ holder' = NoRun
  /\ UNCHANGED <<phase, lost>>

\* The executor dies: the GPU is free although the run may be training.
Lose ==
  /\ holder # NoRun
  /\ lost' = lost \cup {holder}
  /\ holder' = NoRun
  /\ UNCHANGED phase

Next ==
  \/ \E r \in Run : Take(r) \/ End(r)
  \/ Start \/ Give \/ Lose

Spec == Init /\ [][Next]_vars
=============================================================================
