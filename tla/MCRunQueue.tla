----------------------------- MODULE MCRunQueue -----------------------------
(* Small instances of RunQueue for TLC.                                    *)
EXTENDS RunQueue, TLC

\* Every run is an attempt of an experiment of its own.
OwnExperiment == [r \in Run |-> r]

Symmetry == Permutations(Terminal) \cup Permutations(Run) \cup Permutations(Worker)
=============================================================================
