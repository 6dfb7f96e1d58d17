---------------------------- MODULE UploadTarget ----------------------------
(***************************************************************************)
(* Where an upload ends up: Put and Object.Update (pkudisk.go) and         *)
(* OpenChunkWriter with its resume state (chunk_writer.go), composed with  *)
(* the directory operations and the directory cache of DirCache.           *)
(*                                                                         *)
(* An upload takes the ID of the parent from the cache, but looks for an   *)
(* existing file by the path; the state of an interrupted upload is kept   *)
(* under the path and names documents by ID.  In between the directories   *)
(* may be renamed, moved and removed, and rclone be started anew.          *)
(*                                                                         *)
(* All files have one and the same name, which no directory has. Revisions *)
(* are the subject of FileOps, the parts of ChunkWriter.                   *)
(***************************************************************************)
EXTENDS DirCache

CONSTANTS Files    \* file documents

ASSUME HomeAssumption == NoId \notin Nodes \union {Top}

VARIABLES
    home,     \* home[f]: the directory of file f, Top, or NoId before it exists
    unused,   \* files no upload has reserved yet
    store,    \* store[p]: the resume state kept for the path p, or NoState
    up,       \* up[w]: the upload worker w is in
    steady    \* no other client changed the library since rclone was started (history)

fileVars == <<home, unused, store, up, steady>>
allVars == <<vars, fileVars>>

\* Document IDs of files, and what says that there is none.
FileIds == {Append(d, f) : d \in DocIds, f \in Files}
NoDocument  == <<>>

NoState == [parent |-> <<>>, over |-> NoDocument, new |-> NoDocument]

\* kind, path: the upload, and the directory it is to.  over: the file it
\* found.  parent: the directory it found.  new: the document it writes.
NoUpload == [kind |-> "none", at |-> "none", path |-> <<>>, over |-> NoDocument,
             parent |-> <<>>, new |-> NoDocument]

\* A file is gone with its directory.
Live(f)   == home[f] = Top \/ home[f] \in alive
FileId(f) == IF home[f] = Top THEN <<f>> ELSE Append(DocId(home[f]), f)

FilesIn(d) == {f \in Files : Live(f) /\ home[f] = Dir(d)}
FilesAt(p) == {f \in Files : Live(f) /\ p = IF home[f] = Top THEN <<>> ELSE PathOf(home[f])}

TargetInit ==
    /\ Init
    /\ unused \in SUBSET Files
    /\ home \in [Files -> alive \union {Top, NoId}]
    /\ \A f \in Files : f \in unused <=> home[f] = NoId
    /\ \A f, g \in Files : home[f] = home[g] => f = g \/ f \in unused
    /\ store = [p \in Paths |-> NoState]
    /\ up = [w \in Workers |-> NoUpload]
    /\ steady = TRUE

Put(w, fields) == up' = [up EXCEPT ![w] = fields]
Leave(w)       == Put(w, NoUpload)

Keep(p, state) == store' = [store EXCEPT ![p] = state]

-----------------------------------------------------------------------------
(* The two lookups.  Put looks for the file first, OpenChunkWriter, which  *)
(* holds the lock of the state file throughout, for the parent.            *)

\* The lookup of the parent is the one Mkdir makes.
LookForParent(w, path) ==
    Set(w, [Idle EXCEPT !.op = "mkdir", !.path = path, !.at = "lookup", !.old = Retired])

BeginUpload(w) ==
    /\ call[w].op = "none" /\ up[w].at = "none"
    /\ calls < MaxCalls /\ calls' = calls + 1
    /\ \E p \in Paths :
         \/ /\ Put(w, [NoUpload EXCEPT !.kind = "put", !.path = p, !.at = "object"])
            /\ UNCHANGED call
         \/ /\ \A v \in Workers : up[v].kind = "chunked" => up[v].path # p
            /\ Put(w, [NoUpload EXCEPT !.kind = "chunked", !.path = p, !.at = "parent"])
            /\ LookForParent(w, p)
    /\ UNCHANGED <<nsVars, cache, mu, entries, retired, faults, foreign, home, unused, store, steady>>

\* NewObject, by the path.
FindObject(w) ==
    LET found == FilesAt(up[w].path) IN
    /\ up[w].at = "object"
    /\ \E o \in IF found = {} THEN {NoDocument} ELSE {FileId(f) : f \in found} :
         IF up[w].kind = "put"
         THEN Put(w, [up[w] EXCEPT !.over = o, !.at = "parent"]) /\ LookForParent(w, up[w].path)
         ELSE Put(w, [up[w] EXCEPT !.over = o, !.at = "start"]) /\ UNCHANGED call
    /\ UNCHANGED <<nsVars, cache, mu, entries, retired, counters, home, unused, store, steady>>

\* FindPath returns the ID of the parent.
TakeParent(w) ==
    /\ up[w].at = "parent" /\ Acting(w, "mkdir")
    /\ Put(w, [up[w] EXCEPT !.parent = Result(w, 1),
                            !.at = IF up[w].kind = "put" THEN "start" ELSE "object"])
    /\ Return(w)
    /\ UNCHANGED <<nsVars, cache, mu, entries, retired, counters, home, unused, store, steady>>

\* The lookup of the parent failed.
NoParent(w) ==
    /\ up[w].at = "parent" /\ call[w].op = "none"
    /\ Leave(w)
    /\ UNCHANGED <<vars, home, unused, store, steady>>

-----------------------------------------------------------------------------
(* The upload *)

\* Seeded fault: the directory the session was begun in is not compared.
SameFile(state, w) == state # NoState /\ state.over = up[w].over

\* validFor
ValidFor(state, w) ==
    state # NoState /\ state.parent = up[w].parent /\ state.over = up[w].over

\* The chunk writer goes on with the session of the state file.
Resume(w) ==
    LET state == store[up[w].path] IN
    /\ up[w].at = "start" /\ up[w].kind = "chunked"
    /\ ValidFor(state, w)
    /\ Put(w, [up[w] EXCEPT !.new = state.new, !.at = "end"])
    /\ UNCHANGED <<vars, home, unused, store, steady>>

\* The document an upload would write, as it tells the service: the file it
\* found, by its ID, or a name in the parent, which must not be taken.
Targets(w) ==
    LET over == up[w].over
        parent == up[w].parent
    IN  IF over # NoDocument
        THEN {id \in {over} : Live(Leaf(id)) /\ FileId(Leaf(id)) = id}
        ELSE {Append(parent, f) : f \in IF Resolves(parent) /\ FilesIn(parent) = {}
                                        THEN unused ELSE {}}

\* Another state of this path is of no use and removed; a chunk writer keeps
\* the new session.
Transmit(w) ==
    LET p == up[w].path IN
    /\ up[w].at = "start"
    /\ up[w].kind = "chunked" => ~ ValidFor(store[p], w)
    /\ \/ \E id \in Targets(w) :
            /\ unused' = unused \ {Leaf(id)}
            /\ Put(w, [up[w] EXCEPT !.new = id, !.at = "end"])
            /\ IF up[w].kind = "chunked"
               THEN Keep(p, [parent |-> up[w].parent, over |-> up[w].over, new |-> id])
               ELSE UNCHANGED store
       \/ /\ Targets(w) = {}
          /\ Leave(w)
          /\ IF up[w].kind = "chunked" THEN Keep(p, NoState) ELSE UNCHANGED store
          /\ UNCHANGED unused
    /\ UNCHANGED <<vars, home, steady>>

\* The transfer breaks off: Abort, which keeps the state.
Abort(w) ==
    /\ up[w].at = "end"
    /\ Leave(w)
    /\ UNCHANGED <<vars, home, unused, store, steady>>

\* osendupload makes the version current; a file that is created gets its name
\* now, if that is free.  Whatever the answer, the state is removed.
Lands(w) ==
    LET id == up[w].new
        parent == Parent(id)
    IN  /\ up[w].over = NoDocument => Resolves(parent) /\ FilesIn(parent) = {}
        /\ up[w].over # NoDocument => Live(Leaf(id)) /\ FileId(Leaf(id)) = id

Finish(w) ==
    /\ up[w].at = "end"
    /\ IF Lands(w)
       THEN home' = [home EXCEPT ![Leaf(up[w].new)] = Dir(Parent(up[w].new))]
       ELSE UNCHANGED home
    /\ IF up[w].kind = "chunked" THEN Keep(up[w].path, NoState) ELSE UNCHANGED store
    /\ Leave(w)
    /\ UNCHANGED <<vars, unused, steady>>

\* rclone ends, or is killed, and is started again: the state files remain.
Restart ==
    /\ cache' = [p \in Paths |-> IF p = <<>> THEN <<>> ELSE NoId]
    /\ mu' = NoId
    /\ call' = [w \in Workers |-> Idle]
    /\ entries' = [w \in Workers |-> {}]
    /\ up' = [w \in Workers |-> NoUpload]
    /\ retired' = {}
    /\ steady' = TRUE
    /\ UNCHANGED <<nsVars, counters, home, unused, store>>

\* Another client changes a directory, or creates or deletes the file of one.
ForeignFile ==
    /\ foreign < MaxForeign /\ foreign' = foreign + 1
    /\ \/ \E d \in DocIds, f \in unused :
            /\ Resolves(d) /\ FilesIn(d) = {}
            /\ home' = [home EXCEPT ![f] = Dir(d)]
            /\ unused' = unused \ {f}
       \/ \E f \in Files : Live(f) /\ home' = [home EXCEPT ![f] = NoId] /\ UNCHANGED unused
    /\ UNCHANGED <<nsVars, fsVars, calls, faults, store, up>>

OtherClient ==
    /\ steady' = FALSE
    /\ ForeignFile \/ (ForeignChange /\ UNCHANGED <<home, unused, store, up>>)

-----------------------------------------------------------------------------

\* The directory operations, and the lookups of the uploads.
DirectoryStep(w) ==
    /\ \/ up[w].at = "none" /\ (Begin(w) \/ Proceed(w))
       \/ up[w].at = "parent" /\ ~ Acting(w, "mkdir") /\ Proceed(w)
    /\ UNCHANGED fileVars

UploadStep(w) ==
    \/ BeginUpload(w) \/ FindObject(w) \/ TakeParent(w) \/ NoParent(w)
    \/ Resume(w) \/ Transmit(w) \/ Abort(w) \/ Finish(w)

TargetNext ==
    \/ \E w \in Workers : DirectoryStep(w) \/ UploadStep(w)
    \/ OtherClient
    \/ Restart
    \/ Terminated /\ UNCHANGED fileVars

TargetSpec == TargetInit /\ [][TargetNext]_allVars

-----------------------------------------------------------------------------
(* Properties *)

UploadLands(w) == up[w].at = "end" /\ Lands(w) /\ Finish(w)

\* For a single goroutine of a rclone since whose start no other client changed
\* the library: an upload makes its document the one file at the path it was
\* called with, whichever directories anybody renamed, moved, removed or
\* replaced since an earlier attempt was interrupted, and whatever the state file
\* and the cache say of them.
LandsThere ==
    [][\A w \in Workers, p \in Paths :
         steady /\ UploadLands(w) /\ p = up[w].path => FilesAt(p)' = {Leaf(up[w].new)}]_allVars
=============================================================================
