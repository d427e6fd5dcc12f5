--------------------------- MODULE MCWorldRestore ---------------------------
(* Small instances of WorldRestore for TLC. *)
EXTENDS WorldRestore, TLC

MCSymmetry == Permutations(Command) \cup Permutations(Archive)
=============================================================================
