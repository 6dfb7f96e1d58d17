------------------------------ MODULE FileOps ------------------------------
(***************************************************************************)
(* Whole-file operations on one destination path: Put and Object.Update    *)
(* with the single and the sequential multipart upload, the server-side    *)
(* Copy, Object.Remove and the command sync-delete (pkudisk.go, upload.go),*)
(* called by several goroutines while other clients write and delete the   *)
(* same file.                                                              *)
(*                                                                         *)
(* A caller keeps the fs.Object of its last successful call and may use it *)
(* again later, as a mount or a sync client does.  Parent directories are  *)
(* DirCache's subject; here they exist.                                    *)
(***************************************************************************)
EXTENDS Naturals

CONSTANTS
    Callers,       \* goroutines
    Operations,    \* the calls they make, some of FileOperations
    None,          \* no precondition
    MaxId,         \* bound: document IDs and revisions
    MaxBegun,      \* bound: calls in all
    MaxLost,       \* bound: requests that fail or whose answer is lost
    MaxOthers      \* bound: changes by other clients

FileOperations == {"find", "put", "update", "copy", "remove", "sync-delete"}

ASSUME OperationsAssumption == Operations \subseteq FileOperations
ASSUME BoundsAssumption ==
    MaxId \in Nat /\ MaxBegun \in Nat /\ MaxLost \in Nat /\ MaxOthers \in Nat

VARIABLES
    file,     \* the file at the destination path
    strays,   \* copies that still have an automatic name
    nextId,   \* the next document ID or revision
    obj,      \* obj[c]: the fs.Object caller c holds
    task,     \* task[c]: the call caller c is in
    looked,   \* looked[c]: versions c looked up, and those it wrote (history)
    edits,    \* number of changes of the file (history)
    begun, lost, others    \* counters of the bounds

service == <<file, edits, strays, nextId>>
opVars == <<file, strays, nextId, obj, task, looked, edits, begun, lost, others>>

Ids    == 1 .. MaxId
File   == [id : Ids, rev : Ids]
NoFile == [id |-> 0, rev |-> 0]
Handle == File \union {NoFile}

\* expect: the precondition (NoFile: expected absent).  over: ID and revision
\* the call works on.  new: the version reserved, or the copy.  rename: the
\* copy needs another name than its source.  since: edits when sync-delete
\* compared revisions (history).
NoCall == [op |-> "none", at |-> "idle", expect |-> None, over |-> NoFile,
           new |-> NoFile, rename |-> FALSE, since |-> 0]

Task == [op : FileOperations \union {"none"},
         at : {"idle", "lookup", "start", "transfer", "end", "metadata", "exists",
               "copy", "rename", "cleanup", "check", "delete"},
         expect : Handle \union {None}, over : Handle, new : Handle,
         rename : BOOLEAN, since : Nat]

FileTypeOK ==
    /\ file \in Handle
    /\ strays \subseteq Ids
    /\ nextId \in 1 .. MaxId + 1
    /\ obj \in [Callers -> Handle]
    /\ task \in [Callers -> Task]
    /\ looked \in [Callers -> SUBSET Handle]
    /\ edits \in Nat
    /\ begun \in 0 .. MaxBegun /\ lost \in 0 .. MaxLost /\ others \in 0 .. MaxOthers

FileInit ==
    /\ file = NoFile
    /\ strays = {}
    /\ nextId = 1
    /\ obj = [c \in Callers |-> NoFile]
    /\ task = [c \in Callers |-> NoCall]
    /\ looked = [c \in Callers |-> {}]
    /\ edits = 0
    /\ begun = 0 /\ lost = 0 /\ others = 0

Failure == lost < MaxLost /\ lost' = lost + 1

Goto(c, step) == task' = [task EXCEPT ![c].at = step]
EndCall(c)    == task' = [task EXCEPT ![c] = NoCall]

\* A request that is refused, or fails without effect: the call fails.
Fails(c, refused) ==
    /\ IF refused THEN UNCHANGED lost ELSE Failure
    /\ EndCall(c)
    /\ UNCHANGED service

\* A request takes effect; its answer arrives, or is lost and the call fails.
Replied(c, step) ==
    \/ Goto(c, step) /\ UNCHANGED lost
    \/ EndCall(c) /\ Failure

\* The file changes, or goes.
Becomes(f) == file' = f /\ edits' = edits + 1

Hold(c, o)     == obj' = [obj EXCEPT ![c] = o]
Remember(c, o) == looked' = [looked EXCEPT ![c] = @ \union {o}]

-----------------------------------------------------------------------------
(* The calls *)

\* Update, Remove and sync-delete work on the object the caller holds.  The
\* preconditions of an upload name the version the caller holds, or no file.
BeginCall(c) ==
    /\ task[c].op = "none"
    /\ begun < MaxBegun /\ begun' = begun + 1
    /\ \E op \in Operations, e \in {None, obj[c]}, r \in BOOLEAN :
         /\ op \in {"update", "remove", "sync-delete"} => obj[c] # NoFile
         /\ op \notin {"put", "update"} => e = None
         /\ r => op = "copy"
         /\ task' = [task EXCEPT ![c] =
              [NoCall EXCEPT !.op = op, !.expect = e, !.rename = r,
                 !.over = IF op \in {"update", "remove", "sync-delete"}
                          THEN obj[c] ELSE NoFile,
                 !.at = CASE op \in {"find", "put"} -> "lookup"
                          [] op = "update" -> "start"
                          [] op = "copy" -> "exists"
                          [] op = "remove" -> "delete"
                          [] op = "sync-delete" -> "check"]]
    /\ UNCHANGED <<service, obj, looked, lost, others>>

\* NewObject, alone and at the end of Copy.
Find(c) ==
    /\ task[c].at = "lookup" /\ task[c].op # "put"
    /\ \/ /\ file # NoFile /\ Hold(c, file) /\ Remember(c, file)
          /\ EndCall(c)
          /\ UNCHANGED <<service, lost>>
       \/ Fails(c, FALSE) /\ UNCHANGED <<obj, looked>>
       \/ file = NoFile /\ Fails(c, TRUE) /\ UNCHANGED <<obj, looked>>
    /\ UNCHANGED <<begun, others>>

\* checkObject: the preconditions of the call allow what was found.
Meets(c, found) == task[c].expect \in {None, found}

\* Put: NewObject and the preconditions, then Update of what was found.
PutLookup(c) ==
    /\ task[c].at = "lookup" /\ task[c].op = "put"
    /\ \/ /\ Meets(c, file)
          /\ task' = [task EXCEPT ![c].over = file, ![c].at = "start"]
          /\ Remember(c, file)
          /\ UNCHANGED <<service, lost>>
       \/ ~ Meets(c, file) /\ Fails(c, TRUE) /\ UNCHANGED looked
       \/ Fails(c, FALSE) /\ UNCHANGED looked
    /\ UNCHANGED <<obj, begun, others>>

-----------------------------------------------------------------------------
(* Update *)

\* The service accepts an edit of the current revision, and a creation while
\* there is no file; without editedrev it looks at the document ID alone.
Accepts(over, editedrev) ==
    IF editedrev = 0 THEN file.id = over.id ELSE file = over

\* Seeded fault: the request does not name the revision it edits.
NoEditedRev(c) == 0

EditedRev(c) == task[c].over.rev

\* Seeded fault: an answer without a document ID is accepted.
UnknownDocument(over) == [over EXCEPT !.rev = nextId]

NewVersion(over) == IF over = NoFile THEN [id |-> nextId, rev |-> nextId]
                                     ELSE [over EXCEPT !.rev = nextId]

\* osbeginupload or osinitmultiupload: a revision, and for a creation a
\* document ID, are reserved.
StartUpload(c) ==
    LET over == task[c].over IN
    /\ task[c].at = "start"
    /\ \/ /\ file = over /\ nextId \in Ids
          /\ nextId' = nextId + 1
          /\ task' = [task EXCEPT ![c].new = NewVersion(over), ![c].at = "transfer"]
          /\ UNCHANGED <<file, edits, strays, lost>>
       \/ file # over /\ Fails(c, TRUE)
       \/ Fails(c, FALSE)
    /\ UNCHANGED <<obj, looked, begun, others>>

\* The contents go to the object store: one form, or part after part and the
\* completion request.
Transfer(c) ==
    /\ task[c].at = "transfer"
    /\ \/ Goto(c, "end") /\ UNCHANGED <<service, lost>>
       \/ Fails(c, FALSE)
    /\ UNCHANGED <<obj, looked, begun, others>>

\* osendupload makes the reserved version the current one.
EndUpload(c) ==
    /\ task[c].at = "end"
    /\ LET accepted == Accepts(task[c].over, EditedRev(c)) IN
       \/ /\ accepted
          /\ Becomes(task[c].new)
          /\ Replied(c, "metadata")
          /\ Remember(c, file')
          /\ UNCHANGED <<strays, nextId>>
       \/ ~ accepted /\ Fails(c, TRUE) /\ UNCHANGED looked
       \/ Fails(c, FALSE) /\ UNCHANGED looked
    /\ UNCHANGED <<obj, begun, others>>

\* The object takes over the ID and the revision the document has now.
FetchMetadata(c) ==
    /\ task[c].at = "metadata"
    /\ \/ /\ file.id = task[c].new.id
          /\ Hold(c, file)
          /\ EndCall(c)
          /\ UNCHANGED <<service, lost>>
       \/ file.id # task[c].new.id /\ Fails(c, TRUE) /\ UNCHANGED obj
       \/ Fails(c, FALSE) /\ UNCHANGED obj
    /\ UNCHANGED <<looked, begun, others>>

-----------------------------------------------------------------------------
(* Copy *)

\* A destination that exists is left to Update.
CheckAbsent(c) ==
    /\ task[c].at = "exists"
    /\ \/ file = NoFile /\ Goto(c, "copy") /\ UNCHANGED <<service, lost>>
       \/ file # NoFile /\ Fails(c, TRUE)
       \/ Fails(c, FALSE)
    /\ UNCHANGED <<obj, looked, begun, others>>

\* Seeded fault: ondup asks the service to overwrite.
NameTaken(c) == FALSE

\* ondup = 1 refuses a name that is taken, ondup = 2 invents one.
CopyRefused(c) == ~ task[c].rename /\ file # NoFile

CopyFile(c) ==
    LET new == [id |-> nextId, rev |-> nextId]
        made(step) == \/ /\ task' = [task EXCEPT ![c].new = new, ![c].at = step]
                         /\ UNCHANGED lost
                      \/ EndCall(c) /\ Failure
    IN
    /\ task[c].at = "copy"
    /\ \/ /\ ~ CopyRefused(c) /\ nextId \in Ids
          /\ nextId' = nextId + 1
          /\ IF task[c].rename
             THEN strays' = strays \union {nextId} /\ made("rename") /\ UNCHANGED <<file, edits>>
             ELSE Becomes(new) /\ made("lookup") /\ UNCHANGED strays
       \/ CopyRefused(c) /\ Fails(c, TRUE)
       \/ Fails(c, FALSE)
    /\ UNCHANGED <<obj, looked, begun, others>>

\* Seeded fault: a copy that could not be renamed is left where it is.
LeaveCopy(c) == EndCall(c)

AbandonCopy(c) == Goto(c, "cleanup")

\* The copy gets its name unless that is taken by now; an error is followed by
\* the removal of the copy.
RenameCopy(c) ==
    LET new == task[c].new IN
    /\ task[c].at = "rename"
    /\ \/ /\ file = NoFile
          /\ Becomes(new) /\ strays' = strays \ {new.id}
          /\ \/ Goto(c, "lookup") /\ UNCHANGED lost
             \/ AbandonCopy(c) /\ Failure
          /\ UNCHANGED nextId
       \/ /\ \/ file # NoFile /\ UNCHANGED lost
             \/ Failure
          /\ AbandonCopy(c)
          /\ UNCHANGED service
    /\ UNCHANGED <<obj, looked, begun, others>>

\* Deletes the copy by its ID, wherever it is; an error is only reported.
CleanUp(c) ==
    LET new == task[c].new IN
    /\ task[c].at = "cleanup"
    /\ \/ /\ strays' = strays \ {new.id}
          /\ IF file.id = new.id THEN Becomes(NoFile) ELSE UNCHANGED <<file, edits>>
          /\ EndCall(c)
          /\ UNCHANGED <<nextId, lost>>
       \/ Fails(c, FALSE)
    /\ UNCHANGED <<obj, looked, begun, others>>

-----------------------------------------------------------------------------
(* Remove and sync-delete *)

\* Seeded fault: any revision of the document will do.
SameDocument(c) == file.id = task[c].over.id

AsExpected(c) == file = task[c].over

\* sync-delete: the metadata must show the expected revision.
CheckRevision(c) ==
    /\ task[c].at = "check"
    /\ \/ /\ AsExpected(c)
          /\ task' = [task EXCEPT ![c].at = "delete", ![c].since = edits]
          /\ UNCHANGED <<service, lost>>
       \/ ~ AsExpected(c) /\ Fails(c, TRUE)
       \/ Fails(c, FALSE)
    /\ UNCHANGED <<obj, looked, begun, others>>

\* file/delete names the document and no revision.
DeleteFile(c) ==
    /\ task[c].at = "delete"
    /\ \/ /\ file.id = task[c].over.id
          /\ Becomes(NoFile)
          /\ UNCHANGED lost \/ Failure
          /\ EndCall(c)
          /\ UNCHANGED <<strays, nextId>>
       \/ file.id # task[c].over.id /\ Fails(c, TRUE)
       \/ Fails(c, FALSE)
    /\ UNCHANGED <<obj, looked, begun, others>>

-----------------------------------------------------------------------------
(* Other clients write a version, create the file or delete it. *)

OtherClients ==
    /\ others < MaxOthers /\ others' = others + 1
    /\ \/ /\ nextId \in Ids /\ nextId' = nextId + 1
          /\ Becomes(NewVersion(file))
       \/ file # NoFile /\ Becomes(NoFile) /\ UNCHANGED nextId
    /\ UNCHANGED <<strays, obj, task, looked, begun, lost>>

FileTerminated ==
    /\ begun = MaxBegun
    /\ \A c \in Callers : task[c].op = "none"
    /\ UNCHANGED opVars

FileStep(c) ==
    \/ BeginCall(c) \/ Find(c)
    \/ PutLookup(c) \/ StartUpload(c) \/ Transfer(c) \/ EndUpload(c) \/ FetchMetadata(c)
    \/ CheckAbsent(c) \/ CopyFile(c) \/ RenameCopy(c) \/ CleanUp(c)
    \/ CheckRevision(c) \/ DeleteFile(c)

FileNext ==
    \/ \E c \in Callers : FileStep(c)
    \/ OtherClients
    \/ FileTerminated

FileSpec == FileInit /\ [][FileNext]_opVars

-----------------------------------------------------------------------------
(* Properties *)

Commits(c) == task[c].at = "end" /\ task'[c] # task[c] /\ file' # file

\* An upload replaces the very version the call looked up or was given, and
\* creates a file only where there is none; with a precondition that is the
\* version the caller named, whatever happened between the two checks, the
\* transfer and osendupload.
ReplacesNamed ==
    [][\A c \in Callers : Commits(c) =>
         /\ file = task[c].over
         /\ task[c].expect \in {None, file}]_opVars

\* A copy never takes the place of a file that appeared at the destination,
\* at any point between its look at the destination and its last request.
CopyReplacesNothing ==
    [][\A c \in Callers : task[c].at \in {"copy", "rename"} /\ task'[c] # task[c]
         => file \in {NoFile, file'}]_opVars

\* When no request failed of itself, no copy is left under an automatic name:
\* a copy whose name was taken by another client is removed again.
NoStrayCopy ==
    lost = 0 /\ (\A c \in Callers : task[c].op # "copy") => strays = {}

\* sync-delete deletes the expected version, unless somebody changed the file
\* after the revision was compared.
DeletesExpected ==
    [][\A c \in Callers :
         /\ task[c].op = "sync-delete" /\ task[c].at = "delete"
         /\ task'[c] # task[c] /\ file' # file
         /\ edits = task[c].since
         => file = task[c].over]_opVars

\* upload.go says: "editedrev gives us optimistic concurrency instead of
\* silently overwriting a version produced by another client."  So a caller
\* overwrites only versions it wrote or looked up.
NoSilentOverwrite ==
    [][\A c \in Callers : Commits(c) /\ file # NoFile => file \in looked[c]]_opVars
=============================================================================
