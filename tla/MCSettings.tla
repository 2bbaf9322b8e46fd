----------------------------- MODULE MCSettings ------------------------------
(***************************************************************************)
(* Settings with interchangeable projects and processes; the properties    *)
(* are invariants, so the symmetry is sound.                               *)
(***************************************************************************)
EXTENDS Settings, TLC

Symmetry == Permutations(Projects) \cup Permutations(Processes)
==============================================================================
