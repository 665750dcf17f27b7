-------------------------------- MODULE MCChat --------------------------------
(* ChatSession for TLC. *)
EXTENDS ChatSession, TLC

\* Safety runs only: the tabs and the Channel objects are interchangeable.
Symmetry == Permutations(Conns) \cup Permutations(Channels)
=============================================================================
