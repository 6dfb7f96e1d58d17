---------------------------- MODULE ResumeStore ----------------------------
(***************************************************************************)
(* The cross-process resume store of one destination: a JSON file that is  *)
(* replaced atomically and an advisory lock next to it                     *)
(* (backend/pkudisk/multipart_resume.go).  The operations are action       *)
(* fragments that the chunk writer's actions are composed of.              *)
(***************************************************************************)
EXTENDS UploadTypes

VARIABLES
    disk,    \* the state file: None, or the ResumeState it holds
    store    \* store[p]: the multipartResumeStore object of process p

storeVars == <<disk, store>>

StoreTypeOK ==
    /\ disk \in ResumeState \union {None}
    /\ store \in [Procs -> {"none", "disabled", "held", "released"}]

StoreInit ==
    /\ disk = None
    /\ store = [p \in Procs |-> "none"]

\* The Go object keeps enabled = true after release(): save and remove go on
\* working on the file although the lock is gone.
Enabled(p) == store[p] \in {"held", "released"}

\* flock: exclusive between processes, retried until it is free.
TakeLock(p) ==
    /\ \A q \in Procs : store[q] # "held"
    /\ store' = [store EXCEPT ![p] = "held"]

\* No cache directory, no file locking, or the lock call failed: the upload
\* goes on without a resume store.
DisableStore(p) == store' = [store EXCEPT ![p] = "disabled"]

\* release(): once, and only on an enabled store.
ReleaseLock(p) ==
    store' = [store EXCEPT ![p] = IF @ = "held" THEN "released" ELSE @]

\* The store object is dropped, with its lock.
CloseStore(p) == store' = [store EXCEPT ![p] = "none"]

\* save() replaces the whole file by a rename, or fails and leaves it.
SaveState(p, s, ok) == disk' = IF Enabled(p) /\ ok THEN s ELSE disk

\* remove() deletes the file, or fails and leaves it.
RemoveState(p, ok) == disk' = IF Enabled(p) /\ ok THEN None ELSE disk

\* Seeded fault: the destination's revision is not compared.
ValidForSource(s, stamp, base) == s.stamp = stamp

\* validFor(): the saved state describes this source and this destination.
ValidFor(s, stamp, base) == s.stamp = stamp /\ s.base = base
=============================================================================
