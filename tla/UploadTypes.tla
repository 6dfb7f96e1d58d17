---------------------------- MODULE UploadTypes ----------------------------
(***************************************************************************)
(* Values shared by the modules of the resumable multipart upload: the     *)
(* AnyShare service (UploadService), the state file of an interrupted      *)
(* upload (ResumeStore) and the writer that uses both (ChunkWriter).       *)
(*                                                                         *)
(* One destination path is modelled, with one source file that several     *)
(* rclone processes upload to it.  A file is a function from its parts to  *)
(* their bytes; two different bytes stand for two different contents of a  *)
(* part, and since SHA-256 digests and the object store's ETags depend on  *)
(* the contents alone, the bytes also stand for the digest and the ETag.   *)
(***************************************************************************)
EXTENDS Naturals

CONSTANTS
    Procs,    \* rclone processes (or goroutines) copying the same file
    Parts,    \* part numbers 1 .. partCount of the multipart upload
    Bytes,    \* contents a part can have
    Stamps,   \* what the source's identity, size and mtime can look like
    None,     \* no content, no state file, no precondition
    MaxId     \* bound: upload IDs and revisions the service hands out

Ids  == 1 .. MaxId
\* A revision is the identifier the service gave it; 0 is an absent file.
Revs == 0 .. MaxId
Data == [Parts -> Bytes \union {None}]
NoData == [k \in Parts |-> None]

(***************************************************************************)
(* The JSON state of an interrupted upload.  stamp stands for the source   *)
(* identity, size and mtime, base for the destination binding (parent,     *)
(* leaf, existing ID and revision), completed for the ETag, size and       *)
(* SHA-256 of every finished part.                                         *)
(***************************************************************************)
ResumeState == [stamp : Stamps, base : Revs, upload : Ids, completed : Data]

ASSUME BoundAssumption == MaxId \in Nat
ASSUME NoneAssumption  == None \notin Bytes /\ None \notin Revs
ASSUME NoFileAssumption == None \notin ResumeState
=============================================================================
