---------------------------- MODULE MCDirCache ----------------------------
(* Instances of DirCache for TLC. *)
EXTENDS DirCache, TLC

Symmetry == Permutations(Workers) \union Permutations(Nodes)

Mixed     == {"mkdir", "list", "purge"}
MoveRaces == {"sync-move", "list", "purge"}
=============================================================================
