----------------------- MODULE ChunkWriterRefinement -----------------------
(***************************************************************************)
(* The resumable multipart upload implements ConditionalReplace: a session *)
(* lasts from the call of OpenChunkWriter to the osendupload request, and  *)
(* everything about parts, uploads, state files and locks is stuttering.   *)
(***************************************************************************)
EXTENDS ChunkWriter

\* The phases in which p may still replace the destination.
InSession(p) ==
    phase[p] \in Opening \union {"writing", "completing", "ending"}

Observed(p) ==
    [expected |-> job[p].expected,
     base |-> IF phase[p] \in {"locking", "lookup"} THEN None ELSE job[p].base,
     seen |-> seen[p]]

Abstract == INSTANCE ConditionalReplace WITH
    source  <- source.data,
    session <- [p \in Procs |-> IF InSession(p) THEN Observed(p) ELSE None]

\* None is told apart from what a writer has observed.
ASSUME NoSessionAssumption == None \notin Abstract!Session

\* Every behaviour of the writers, with their crashes, races and retries, is a
\* behaviour of conditional whole-file replacement.
Implements == Abstract!Spec
=============================================================================
