----------------------------- MODULE RootLookup -----------------------------
(***************************************************************************)
(* How NewFs finds the root of a remote (pkudisk.go, point_lookup.go): one  *)
(* request for the whole path, or else a walk through the libraries and     *)
(* directories, or else the parent and a file in it.  And what one call on  *)
(* the Fs then does near the virtual root, which only lists the document    *)
(* libraries: Rmdir, Purge, DirMove, sync-delete-dir, sync-move.            *)
(*                                                                         *)
(* The service is external.  A document ID spells the chain of entries from *)
(* the library down; <<>> stands for the virtual root.  Other clients       *)
(* change entries between the requests of NewFs; the interleavings of the   *)
(* calls on directories are DirCache's subject.                             *)
(***************************************************************************)
EXTENDS Naturals, Sequences

CONSTANTS
    Libraries, Dirs, Files,    \* entries, by their kind
    Segments,                  \* standard names
    NoId,                      \* no document ID
    MaxDepth,                  \* bound: length of a path
    MaxFailures,               \* bound: requests that fail
    MaxOthers                  \* bound: changes by other clients

Entries == Libraries \union Dirs \union Files

ASSUME KindAssumption ==
    /\ Libraries \intersect Dirs = {} /\ Libraries \intersect Files = {}
    /\ Dirs \intersect Files = {}
    /\ NoId \notin Seq(Entries)

\* A document of a directory of a library has an ID within the bound.
ASSUME DepthAssumption ==
    /\ MaxDepth \in Nat /\ MaxDepth >= 3
    /\ MaxFailures \in Nat /\ MaxOthers \in Nat

VARIABLES
    alive,      \* entries that exist
    place,      \* place[x]: the chain above entry x, and its standard name
    root,       \* the path NewFs is given
    fsRoot,     \* f.root
    rootId,     \* the root's ID in the dircache, NoId while it is not found
    parentId,   \* the dircache's rootParentID
    at,         \* where NewFs is
    walk,       \* the walk of FindRoot: the path, how far it is, and the ID there
    result,     \* what NewFs returned
    op,         \* the call that was made on the Fs
    failures, others    \* counters of the bounds

service == <<alive, place>>
fsVars  == <<fsRoot, rootId, parentId>>
rootVars == <<alive, place, root, fsRoot, rootId, parentId, at, walk, result, op,
              failures, others>>

Folders == Libraries \union Dirs
Chains  == UNION {[1 .. n -> Entries] : n \in 0 .. MaxDepth}
Paths   == UNION {[1 .. n -> Segments] : n \in 0 .. MaxDepth}

Parent(s) == SubSeq(s, 1, Len(s) - 1)
Leaf(s)   == s[Len(s)]

-----------------------------------------------------------------------------
(* The service *)

DocId(x) == Append(place[x].above, x)

\* Names are stored encoded, those of libraries are not.
Encode(name) == <<name>>

PathOf(x) == [i \in 1 .. Len(DocId(x)) |-> place[DocId(x)[i]].name]
NamePath(path) == [i \in DOMAIN path |-> IF i = 1 THEN path[i] ELSE Encode(path[i])]

Children(id) == {x \in alive : place[x].above = id}

\* Entries form a tree, with the libraries at the top.
WellFormed ==
    /\ \A x \in alive : LET above == place[x].above IN
         /\ x \in Libraries <=> above = <<>>
         /\ above # <<>> => /\ Leaf(above) \in alive \intersect Folders
                            /\ DocId(Leaf(above)) = above
    /\ \A x, y \in alive : place[x] = place[y] => x = y

\* What a path names: an entry, the virtual root, or nothing.
Meaning(path) ==
    IF path = <<>> THEN [kind |-> "folder", id |-> <<>>]
    ELSE IF \E x \in alive : PathOf(x) = path
    THEN LET x == CHOOSE x \in alive : PathOf(x) = path
         IN  [kind |-> IF x \in Folders THEN "folder" ELSE "file", id |-> DocId(x)]
    ELSE [kind |-> "nothing", id |-> NoId]

Nowhere == [above |-> <<>>, name |-> CHOOSE n \in Segments : TRUE]

RootInit ==
    /\ alive \in SUBSET Entries /\ Libraries \subseteq alive
    /\ place \in [Entries -> [above : {<<>>} \union {<<l>> : l \in Libraries}
                                      \union (Libraries \X Dirs), name : Segments]]
    /\ \A x \in Entries \ alive : place[x] = Nowhere
    /\ WellFormed
    /\ root \in Paths
    /\ fsRoot = root /\ rootId = NoId /\ parentId = NoId
    /\ at = "point"
    /\ walk = [path |-> <<>>, n |-> 0, id |-> <<>>]
    /\ result = "none" /\ op = "none"
    /\ failures = 0 /\ others = 0

-----------------------------------------------------------------------------
(* NewFs *)

Failure == failures < MaxFailures /\ failures' = failures + 1

Goto(step) == at' = step

\* Seeded fault: the library's name is encoded like the others.
EncodeAll(path) == [i \in DOMAIN path |-> Encode(path[i])]

EncodedNamePath(path) ==
    [i \in DOMAIN path |-> IF i = 1 THEN path[1] ELSE Encode(path[i])]

\* getinfobypath
Asked(path) == {x \in alive : NamePath(PathOf(x)) = EncodedNamePath(path)}

\* parentDocID: a library has none.
ParentDocID(id) == IF Len(id) < 2 THEN NoId ELSE Parent(id)

\* NewFs returns f with this root.  The IDs come from the cache, which was
\* seeded with every prefix of the ID or filled by the walk.
Root(path, id) ==
    /\ fsRoot' = path
    /\ rootId' = id
    /\ parentId' = IF path = <<>> THEN NoId ELSE Parent(id)

Returns(kind) == at' = "ready" /\ result' = kind

\* NewFs returns an error and no Fs.
NoFs == at' = "done" /\ result' = "error"

\* seedDirCacheFromDocID takes an ID with as many parts as the path.
Seeds(path, id) == path # <<>> /\ Len(path) = Len(id)

RootOfFile(x) == Root(Parent(root), ParentDocID(DocId(x))) /\ Returns("file")

PointLookup ==
    /\ at = "point"
    /\ \/ /\ root # <<>>
          /\ \E x \in Asked(root) :
               \/ x \in Folders /\ Seeds(root, DocId(x))
                    /\ Root(root, DocId(x)) /\ Returns("folder")
               \/ x \in Files /\ Seeds(Parent(root), ParentDocID(DocId(x))) /\ RootOfFile(x)
          /\ UNCHANGED <<walk, failures>>
       \/ /\ \/ (root = <<>> \/ Asked(root) = {}) /\ UNCHANGED failures
             \/ root # <<>> /\ Failure
          /\ walk' = [path |-> root, n |-> 0, id |-> <<>>]
          /\ Goto("walk")
          /\ UNCHANGED <<fsVars, result>>
    /\ UNCHANGED <<service, root, op, others>>

\* FindLeaf: a library at the virtual root, a directory elsewhere.
Found(id, name) == {x \in Children(id) \intersect Folders : place[x].name = name}

\* An ID that is no longer right is refused.
Resolves(id) == id # <<>> => Leaf(id) \in alive /\ DocId(Leaf(id)) = id

\* FindRoot, first for the path and then for its parent.
WalkOn ==
    /\ at \in {"walk", "parent"} /\ walk.n < Len(walk.path)
    /\ Resolves(walk.id)
    /\ \E x \in Found(walk.id, walk.path[walk.n + 1]) :
         walk' = [walk EXCEPT !.n = @ + 1, !.id = DocId(x)]
    /\ UNCHANGED <<service, fsVars, root, at, result, op, failures, others>>

\* Whatever made the walk fail, a missing directory or a failed request, the
\* parent is tried, and if that fails too the root stays to be found later.
WalkFails ==
    /\ at \in {"walk", "parent"} /\ walk.n < Len(walk.path)
    /\ \/ /\ Resolves(walk.id) => Found(walk.id, walk.path[walk.n + 1]) = {}
          /\ UNCHANGED failures
       \/ Failure
    /\ IF at = "walk"
       THEN /\ walk' = [path |-> Parent(root), n |-> 0, id |-> <<>>]
            /\ Goto("parent")
            /\ UNCHANGED result
       ELSE Returns("later") /\ UNCHANGED walk
    /\ UNCHANGED <<service, fsVars, root, op, others>>

WalkEnds ==
    /\ at \in {"walk", "parent"} /\ walk.n = Len(walk.path)
    /\ IF at = "walk"
       THEN Root(root, walk.id) /\ Returns("folder")
       ELSE Goto("object") /\ UNCHANGED <<fsVars, result>>
    /\ UNCHANGED <<service, root, walk, op, failures, others>>

\* NewObject on the parent: one request for the path ...
PointObject ==
    /\ at = "object"
    /\ \/ /\ IF \E x \in Asked(root) : x \in Files
             THEN Root(Parent(root), walk.id) /\ Returns("file")
             ELSE Returns("later") /\ UNCHANGED fsVars
          /\ UNCHANGED failures
       \/ Failure /\ Goto("listing") /\ UNCHANGED <<fsVars, result>>
    /\ UNCHANGED <<service, root, walk, op, others>>

\* ... or the listing of the directory; the virtual root holds no files.
ListedObject ==
    /\ at = "listing"
    /\ \/ /\ Resolves(walk.id)
          /\ IF \E x \in Children(walk.id) \intersect Files : place[x].name = Leaf(root)
             THEN Root(Parent(root), walk.id) /\ Returns("file")
             ELSE Returns("later") /\ UNCHANGED fsVars
          /\ UNCHANGED failures
       \/ ~ Resolves(walk.id) /\ NoFs /\ UNCHANGED <<fsVars, failures>>
       \/ walk.id # <<>> /\ Failure /\ NoFs /\ UNCHANGED fsVars
    /\ UNCHANGED <<service, root, walk, op, others>>

NewFs == PointLookup \/ WalkOn \/ WalkFails \/ WalkEnds \/ PointObject \/ ListedObject

-----------------------------------------------------------------------------
(* One call on the Fs.  Its lookups and requests are one step here. *)

\* FindDir of a path below the root; a root not found yet is looked for first.
Lookup(path) ==
    LET start == IF rootId = NoId THEN <<>> ELSE rootId
        names == IF rootId = NoId THEN fsRoot \o path ELSE path
        ids   == {id \in Chains : /\ Len(id) = Len(start) + Len(names)
                               /\ SubSeq(id, 1, Len(start)) = start
                               /\ \A i \in 1 .. Len(names) :
                                    id[Len(start) + i] \in
                                        Found(SubSeq(id, 1, Len(start) + i - 1), names[i])}
    IN  IF ids = {} THEN NoId ELSE CHOOSE id \in ids : TRUE

\* RootParentID, of a root that has been found in the meantime.
RootParent == IF rootId = NoId THEN Parent(Lookup(<<>>)) ELSE parentId

Below == {path \in Paths : Len(fsRoot) + Len(path) <= MaxDepth}

Call(name) ==
    /\ at = "ready" /\ at' = "done" /\ op' = name
    /\ UNCHANGED <<fsVars, root, walk, result, failures, others>>

\* dir/delete deletes what is below, too.
DeleteDir(id) ==
    LET gone == {x \in alive : \E n \in 1 .. Len(DocId(x)) : SubSeq(DocId(x), 1, n) = id} IN
    /\ alive' = alive \ gone
    /\ place' = [x \in Entries |-> IF x \in gone THEN Nowhere ELSE place[x]]

\* Seeded fault: the parent of the root is not looked at.
PurgeAll(path, id) == TRUE

\* The virtual root and the libraries are protected.
MayPurge(path, id) == (IF path = <<>> THEN RootParent ELSE Lookup(Parent(path))) # <<>>

\* The parent is only looked at when the root itself is to be removed.
MayRemove(path, id) == path = <<>> => RootParent # <<>>

Purge ==
    /\ Call("purge")
    /\ \E path \in Below : LET id == Lookup(path) IN
         IF path \o fsRoot = <<>> \/ id \in {NoId, <<>>} \/ ~ MayPurge(path, id)
         THEN UNCHANGED service
         ELSE DeleteDir(id)

Rmdir ==
    \E path \in Below : LET id == Lookup(path) IN
       /\ Call(IF path = <<>> THEN "rmdir root" ELSE "rmdir")
       /\ IF path \o fsRoot = <<>> \/ id \in {NoId, <<>>} \/ ~ MayRemove(path, id)
             \/ Children(id) # {}
          THEN UNCHANGED service
          ELSE DeleteDir(id)

\* sync-delete-dir names an ID.
SyncDeleteDir ==
    /\ Call("sync-delete-dir")
    /\ \E id \in Chains \ {<<>>} :
         IF ParentDocID(id) = NoId \/ ~ Resolves(id) \/ Leaf(id) \notin Folders \/ Children(id) # {}
         THEN UNCHANGED service
         ELSE DeleteDir(id)

FreeName(id, name) == \A x \in Children(id) : place[x].name # name

\* A directory without entries is enough here.  The service refuses a taken name.
MoveDir(id, to, name) ==
    LET x == Leaf(id) IN
    IF Resolves(to) /\ Resolves(id) /\ FreeName(to, name) /\ Children(id) = {}
       /\ Len(to) < MaxDepth /\ to # id
    THEN place' = [place EXCEPT ![x] = [above |-> to, name |-> name]] /\ UNCHANGED alive
    ELSE UNCHANGED service

\* Both ends are on one Fs, so its root exists and is no destination.  Missing
\* parents of the destination, which dircache creates, are DirCache's subject.
DirMove ==
    /\ Call("dirmove")
    /\ \E src, dst \in Below : LET id == Lookup(src) IN
         IF src \o fsRoot = <<>> \/ dst = <<>> \/ id = NoId \/ Lookup(Parent(dst)) \in {NoId, <<>>}
            \/ (IF src = <<>> THEN RootParent ELSE Parent(id)) = <<>>
         THEN UNCHANGED service
         ELSE MoveDir(id, Lookup(Parent(dst)), Leaf(dst))

SyncMove ==
    /\ Call("sync-move")
    /\ \E id \in Chains \ {<<>>}, dst \in Below \ {<<>>} :
         IF Lookup(Parent(dst)) \in {NoId, <<>>} \/ ParentDocID(id) = NoId
            \/ ~ Resolves(id) \/ Leaf(id) \notin Folders
         THEN UNCHANGED service
         ELSE MoveDir(id, Lookup(Parent(dst)), Leaf(dst))

Operate == Purge \/ Rmdir \/ SyncDeleteDir \/ DirMove \/ SyncMove

-----------------------------------------------------------------------------
(* Other clients rename, move, remove and create entries of a library. *)

OtherClients ==
    /\ at \notin {"ready", "done"}
    /\ others < MaxOthers /\ others' = others + 1
    /\ \E x \in Dirs \union Files :
         \/ /\ \A y \in alive : x \notin {place[y].above[i] : i \in DOMAIN place[y].above}
            /\ \E p \in [above : {DocId(y) : y \in alive \intersect Folders}, name : Segments] :
                 place' = [place EXCEPT ![x] = p]
            /\ alive' = alive \union {x}
            /\ WellFormed' /\ Len(place'[x].above) < MaxDepth
         \/ x \in alive /\ DeleteDir(DocId(x))
    /\ UNCHANGED <<fsVars, root, at, walk, result, op, failures>>

RootTerminated == at = "done" /\ UNCHANGED rootVars

RootNext == NewFs \/ Operate \/ OtherClients \/ RootTerminated

RootSpec == RootInit /\ [][RootNext]_rootVars

-----------------------------------------------------------------------------
(* Properties *)

\* An ID has as many parts as the path it stands for.
RootTypeOK ==
    /\ alive \subseteq Entries
    /\ place \in [Entries -> [above : Chains, name : Segments]]
    /\ root \in Paths /\ fsRoot \in Paths
    /\ rootId \in Chains \union {NoId} /\ parentId \in Chains \union {NoId}
    /\ rootId # NoId => Len(rootId) = Len(fsRoot)
    /\ at \in {"point", "walk", "parent", "object", "listing", "ready", "done"}
    /\ walk \in [path : Paths, n : 0 .. MaxDepth, id : Chains]
    /\ result \in {"none", "folder", "file", "later", "error"}
    /\ op \in {"none", "purge", "rmdir root", "rmdir", "sync-delete-dir", "dirmove", "sync-move"}
    /\ failures \in 0 .. MaxFailures /\ others \in 0 .. MaxOthers

\* While nobody else changes the tree, NewFs answers the same on every route,
\* whichever requests fail: the folder with its ID, the parent of a file with
\* the parent's ID, or nothing yet; it never takes one for the other.
SameAnswer ==
    at = "ready" /\ others = 0 =>
        \/ result = "later" /\ (failures > 0 \/ Meaning(root).kind = "nothing")
        \/ result = "folder" /\ Meaning(root) = [kind |-> "folder", id |-> rootId]
             /\ fsRoot = root
        \/ result = "file" /\ Meaning(root).kind = "file"
             /\ rootId = Parent(Meaning(root).id) /\ fsRoot = Parent(root)

\* Libraries are neither removed nor moved by Purge, DirMove and the commands,
\* nor by Rmdir of the root, from whichever root and however it was found.
LibrariesKept ==
    op # "rmdir" => Libraries \subseteq alive /\ \A l \in Libraries : place[l].above = <<>>

\* README.md says: "Document libraries themselves cannot be created or removed
\* through the normal file API".
LibrariesStay == Libraries \subseteq alive
=============================================================================
