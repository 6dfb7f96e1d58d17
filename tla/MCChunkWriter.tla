--------------------------- MODULE MCChunkWriter ---------------------------
(* Instances of ChunkWriter for TLC: the symmetry of its parameters. *)
EXTENDS ChunkWriterRefinement, TLC

\* Neither processes, parts, contents nor stamps are told apart.
Symmetry == Permutations(Procs) \union Permutations(Parts)
            \union Permutations(Bytes) \union Permutations(Stamps)
=============================================================================
