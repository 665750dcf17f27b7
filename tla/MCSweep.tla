-------------------------------- MODULE MCSweep --------------------------------
(* SweepOrchestrator for TLC. *)
EXTENDS SweepOrchestrator, TLC

Symmetry == Permutations(Procs)
=============================================================================
