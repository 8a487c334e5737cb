------------------------- MODULE MCVersionRegistry --------------------------
(* Small instances of VersionRegistry: publishes that adopt nothing are *)
(* interchangeable. *)
EXTENDS VersionRegistry, TLC

Edits == Permutations(Publisher \ Adopter)
=============================================================================
