------------------------------ MODULE MCFiles ------------------------------
(***************************************************************************)
(* One instance for the two ways a file is looked at: the calls of several *)
(* goroutines on one file, and the uploads of one goroutine into           *)
(* directories that are renamed, moved and removed.  They share no state,  *)
(* and a behaviour exercises one of them, the subject; the other stays in  *)
(* an initial state.                                                       *)
(***************************************************************************)
EXTENDS FileOps, UploadTarget, TLC

VARIABLE subject

filesVars == <<opVars, allVars, subject>>

Symmetry == Permutations(Callers) \union Permutations(Nodes) \union Permutations(Files)

EveryFileOp == FileOperations

\* The operations that rename, move and remove directories; what Rmdir and
\* sync-delete-dir see of files is not in DirCache.
Relocations == {"list", "purge", "dirmove", "sync-move"}

TargetRests == alive = {} /\ home = [f \in Files |-> NoId] /\ TargetInit

FilesInit ==
    \/ subject = "file" /\ FileInit /\ TargetRests
    \/ subject = "directories" /\ FileInit /\ TargetInit

FilesNext ==
    \/ subject = "file" /\ FileNext /\ UNCHANGED <<allVars, subject>>
    \/ subject = "directories" /\ TargetNext /\ UNCHANGED <<opVars, subject>>

FilesSpec == FilesInit /\ [][FilesNext]_filesVars

\* The types of both: calls on a file, and directories with their cache.
TypesOK == FileTypeOK /\ TypeOK
=============================================================================
