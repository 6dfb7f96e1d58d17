----------------------------- MODULE MCFileOps -----------------------------
(* Instances of FileOps for TLC. *)
EXTENDS FileOps, TLC

Symmetry == Permutations(Callers)

Updates == {"put", "update"}
=============================================================================
