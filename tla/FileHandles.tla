---------------------------- MODULE FileHandles ----------------------------
(***************************************************************************)
(* What callers do with an fs.Object they hold (pkudisk.go): Object.Open    *)
(* with the download preconditions and a range, Fs.Move, the command       *)
(* sync-move of a file, Update and Remove, while other clients write,       *)
(* rename, move and delete files.                                          *)
(*                                                                         *)
(* A document ID spells the directory of its file, so that a rename keeps  *)
(* it and a move to another directory makes a new one.  The requests with  *)
(* which Update uploads are FileOps' subject, the lookups of directories    *)
(* DirCache's.  Here an upload takes effect in one step, its metadata are   *)
(* read in another one, and directories stay.                              *)
(***************************************************************************)
EXTENDS Naturals

CONSTANTS
    Callers,               \* goroutines
    DirIds, Names, Sizes,  \* directories, names in them, lengths of files
    Gone,                  \* a document that does not exist
    None,                  \* no object, no precondition
    NoRev,                 \* the service did not tell the revision
    MaxId,                 \* bound: document IDs and revisions
    MaxCalls,              \* bound: calls in all
    MaxFaults,             \* bound: requests that fail or whose answer is lost
    MaxForeign             \* bound: changes by other clients

ASSUME SizesAssumption == Sizes \subseteq Nat \ {0}

ASSUME BoundsAssumption ==
    MaxId \in Nat \ {0} /\ MaxCalls \in Nat /\ MaxFaults \in Nat /\ MaxForeign \in Nat

VARIABLES
    doc,      \* doc[i]: the document with ID i
    nextId,   \* the next document ID or revision
    obj,      \* obj[c]: the fs.Object caller c holds
    base,     \* base[c]: the revision it was found with, or adopted last (history)
    wrote,    \* wrote[c]: the version that its last successful Update wrote (history)
    call,     \* call[c]: what caller c is doing
    calls, faults, foreign    \* counters of the bounds

vars == <<doc, nextId, obj, base, wrote, call, calls, faults, foreign>>

Ids    == 1 .. MaxId
Places == [dir : DirIds, name : Names]
Revs   == [n : Ids, size : Sizes]
Docs   == [place : Places, rev : Revs, versions : SUBSET Revs]
Handle == [remote : Places, id : Ids, rev : Revs \union {NoRev}, size : Sizes]

Idle == [op |-> "none", at |-> "idle"]

\* What stands for nothing is none of the things.
ASSUME NothingAssumption ==
    /\ Gone \notin Docs /\ NoRev \notin Revs /\ None \notin Names \union Handle
    /\ None \notin [id : Ids, rev : Revs]

-----------------------------------------------------------------------------
(* The service *)

Exists(i)    == doc[i] # Gone
Free(place)  == \A i \in Ids : Exists(i) => doc[i].place # place

\* A new version of a document; the earlier ones can still be downloaded.
Write(i, rev) == doc' = [doc EXCEPT ![i].rev = rev, ![i].versions = @ \union {rev}]

NewFile(place, rev) == [place |-> place, rev |-> rev, versions |-> {rev}]

\* A move to another directory ends the old document ID.
MoveTo(i, place) == doc' = [doc EXCEPT ![i] = Gone, ![nextId] = [doc[i] EXCEPT !.place = place]]

Init ==
    /\ \E p \in Places, s \in Sizes :
         doc = [i \in Ids |-> IF i = 1 THEN NewFile(p, [n |-> 1, size |-> s]) ELSE Gone]
    /\ nextId = 2
    /\ obj = [c \in Callers |-> None]
    /\ base = [c \in Callers |-> NoRev]
    /\ wrote = [c \in Callers |-> NoRev]
    /\ call = [c \in Callers |-> Idle]
    /\ calls = 0 /\ faults = 0 /\ foreign = 0

Fault == faults < MaxFaults /\ faults' = faults + 1

Begins(c) == call[c] = Idle /\ calls < MaxCalls /\ calls' = calls + 1
Return(c) == call' = [call EXCEPT ![c] = Idle]

\* A request that is refused, or fails without effect: the call fails.
Fails(c, refused) ==
    /\ (refused /\ UNCHANGED faults) \/ Fault
    /\ Return(c)
    /\ UNCHANGED <<doc, nextId>>

-----------------------------------------------------------------------------
(* NewObject, in one request.  The entry may come without a revision. *)

Find(c) ==
    /\ Begins(c)
    /\ \/ \E i \in Ids : Exists(i) /\ \E r \in {doc[i].rev, NoRev} :
            /\ obj' = [obj EXCEPT ![c] = [remote |-> doc[i].place, id |-> i, rev |-> r,
                                          size |-> doc[i].rev.size]]
            /\ base' = [base EXCEPT ![c] = r]
            /\ wrote' = [wrote EXCEPT ![c] = NoRev]
       \/ UNCHANGED <<obj, base, wrote>>    \* nothing is found at that place
    /\ UNCHANGED <<doc, nextId, call, faults, foreign>>

-----------------------------------------------------------------------------
(* Open *)

\* Versions a caller may have been told to expect: any that exist.
Known == UNION {[id : {i}, rev : doc[i].versions] : i \in {j \in Ids : Exists(j)}}

\* The preconditions against the object's own metadata.
Allows(expect, meta) == expect \in {None, meta}

Opened(c, expect, meta, suffix) ==
    IF Allows(expect, meta)
    THEN call' = [call EXCEPT ![c] = [op |-> "open", at |-> "url", expect |-> expect,
                                      meta |-> meta, suffix |-> suffix]]
    ELSE Return(c)

\* Only an object without a revision asks for its metadata again.
Open(c) ==
    /\ Begins(c) /\ obj[c] # None
    /\ \E expect \in Known \union {None}, suffix \in BOOLEAN :
         IF obj[c].rev # NoRev
         THEN Opened(c, expect, [id |-> obj[c].id, rev |-> obj[c].rev], suffix)
         ELSE call' = [call EXCEPT ![c] = [op |-> "open", at |-> "metadata", expect |-> expect,
                                           suffix |-> suffix]]
    /\ UNCHANGED <<doc, nextId, obj, base, wrote, faults, foreign>>

FetchMetadata(c) ==
    LET i == obj[c].id IN
    /\ call[c].at = "metadata"
    /\ \/ /\ Exists(i)
          /\ \E r \in {doc[i].rev, NoRev} :
               Opened(c, call[c].expect, [id |-> i, rev |-> r], call[c].suffix)
          /\ UNCHANGED <<doc, nextId, faults>>
       \/ Fails(c, ~ Exists(i))
    /\ UNCHANGED <<obj, base, wrote, calls, foreign>>

\* Seeded fault: the request names the document only.
Latest(meta) == {doc[meta.id].rev}

\* osdownload serves the revision it is asked for, the current one if none.
Served(meta) == IF meta.rev = NoRev THEN {doc[meta.id].rev}
                ELSE {meta.rev} \intersect doc[meta.id].versions

SignURL(c) ==
    LET meta == call[c].meta IN
    /\ call[c].at = "url"
    /\ \/ /\ Exists(meta.id)
          /\ \E r \in Served(meta) :
               call' = [call EXCEPT ![c] = [op |-> "open", at |-> "get", expect |-> call[c].expect,
                                            meta |-> meta, suffix |-> call[c].suffix, rev |-> r]]
          /\ UNCHANGED <<doc, nextId, faults>>
       \/ Fails(c, ~ (Exists(meta.id) /\ Served(meta) # {}))
    /\ UNCHANGED <<obj, base, wrote, calls, foreign>>

\* FixRangeOption turns the last byte into a position, with the object's size.
First(c) == IF call[c].suffix THEN obj[c].size - 1 ELSE 0

\* CheckContentRange compares a partial answer with the object's size.
RangeAsked(c, last) == call[c].suffix => last = obj[c].size - 1

\* The object store answers with the bytes from First on, up to the end.
Get(c) ==
    LET last == call[c].rev.size - 1
        good == First(c) <= last /\ RangeAsked(c, last)
    IN
    /\ call[c].at = "get"
    /\ \/ /\ good
          /\ call' = [call EXCEPT ![c].at = "body"]
          /\ UNCHANGED <<doc, nextId, faults>>
       \/ Fails(c, ~ good)
    /\ UNCHANGED <<obj, base, wrote, calls, foreign>>

\* The caller has read the body.
Close(c) ==
    /\ call[c].at = "body"
    /\ Return(c)
    /\ UNCHANGED <<doc, nextId, obj, base, wrote, calls, faults, foreign>>

-----------------------------------------------------------------------------
(* Move and sync-move *)

\* Seeded fault: sync-move leaves out a name that looks unchanged, too.
NameIfNew(c) == IF obj[c].remote.name = call[c].to.name THEN None ELSE call[c].to.name

\* relocateEntry sends a name only when it changes; sync-move always.
NewName(c) == IF call[c].op = "move" /\ obj[c].remote.name = call[c].to.name
              THEN None ELSE call[c].to.name

\* The object Move returns takes the rest from its source.
Moved(c, i, to) == [obj[c] EXCEPT !.remote = to, !.id = i]

\* Seeded fault: it comes without its revision.
WithoutRev(c, i, to) == [obj[c] EXCEPT !.remote = to, !.id = i, !.rev = NoRev]

MovedObject(c, i, to) == Moved(c, i, to)

Relocate(c) ==
    /\ Begins(c) /\ obj[c] # None
    /\ \E op \in {"move", "sync-move"}, to \in Places :
         IF op = "move" /\ to = obj[c].remote
         THEN UNCHANGED call
         ELSE call' = [call EXCEPT ![c] = [op |-> op, at |-> "relocate", to |-> to]]
    /\ UNCHANGED <<doc, nextId, obj, base, wrote, faults, foreign>>

\* Where the request puts the file.
Target(c) == [dir |-> call[c].to.dir,
              name |-> IF NewName(c) = None THEN doc[obj[c].id].place.name ELSE NewName(c)]

\* ondup = 1: a name that is taken is refused.
NotTaken(c) == Free(Target(c)) \/ Target(c) = doc[obj[c].id].place

\* The directory stays: renameEntry.  It changes: moveEntry.
Relocated(c) ==
    LET i == obj[c].id
        answered(new) ==
            \/ /\ obj' = IF call[c].op = "move"
                         THEN [obj EXCEPT ![c] = MovedObject(c, new, call[c].to)]
                         ELSE obj
               /\ UNCHANGED faults
            \/ Fault /\ UNCHANGED obj
    IN
    /\ call[c].at = "relocate"
    /\ \/ /\ Exists(i) /\ NotTaken(c)
          /\ IF call[c].to.dir = obj[c].remote.dir
             THEN /\ doc' = [doc EXCEPT ![i].place = Target(c)]
                  /\ answered(i)
                  /\ UNCHANGED nextId
             ELSE /\ nextId \in Ids /\ nextId' = nextId + 1
                  /\ MoveTo(i, Target(c))
                  /\ answered(nextId)
          /\ Return(c)
       \/ Fails(c, ~ (Exists(i) /\ NotTaken(c))) /\ UNCHANGED obj
    /\ UNCHANGED <<base, wrote, calls, foreign>>

-----------------------------------------------------------------------------
(* Update and Remove *)

Update(c) ==
    /\ Begins(c) /\ obj[c] # None
    /\ \/ call' = [call EXCEPT ![c] = [op |-> "update", at |-> "upload"]]
       \/ UNCHANGED call    \* its preconditions, or its path, are refused
    /\ UNCHANGED <<doc, nextId, obj, base, wrote, faults, foreign>>

\* editedrev is sent when the object has a revision.
EditAllowed(c) == obj[c].rev \in {NoRev, doc[obj[c].id].rev}

\* osendupload, which makes the new version, after the requests before it.
EndUpload(c) ==
    LET i == obj[c].id
        accepted == Exists(i) /\ EditAllowed(c)
    IN
    /\ call[c].at = "upload"
    /\ \/ /\ accepted
          /\ nextId \in Ids /\ nextId' = nextId + 1
          /\ \E s \in Sizes : LET rev == [n |-> nextId, size |-> s] IN
               /\ Write(i, rev)
               /\ \/ /\ call' = [call EXCEPT ![c] = [op |-> "update", at |-> "adopt", rev |-> rev]]
                     /\ UNCHANGED faults
                  \/ Fault /\ Return(c)
       \/ Fails(c, ~ accepted)
    /\ UNCHANGED <<obj, base, wrote, calls, foreign>>

\* Seeded fault: the object keeps the revision it had.
SizeOnly(c, r) == [obj EXCEPT ![c].size = doc[obj[c].id].rev.size]

\* The object takes what the metadata say, whoever wrote the version they name.
Adopted(c, r) == [obj EXCEPT ![c].rev = r, ![c].size = doc[obj[c].id].rev.size]

\* The metadata request after the upload.  If it fails the object stays as it
\* was, although the new version is there.
AdoptMetadata(c) ==
    LET i == obj[c].id IN
    /\ call[c].at = "adopt"
    /\ \/ /\ Exists(i)
          /\ \E r \in {doc[i].rev, NoRev} :
               obj' = Adopted(c, r) /\ base' = [base EXCEPT ![c] = r]
          /\ wrote' = [wrote EXCEPT ![c] = call[c].rev]
          /\ Return(c)
          /\ UNCHANGED <<doc, nextId, faults>>
       \/ Fails(c, ~ Exists(i)) /\ UNCHANGED <<obj, base, wrote>>
    /\ UNCHANGED <<calls, foreign>>

Remove(c) ==
    /\ Begins(c) /\ obj[c] # None
    /\ IF Exists(obj[c].id) THEN doc' = [doc EXCEPT ![obj[c].id] = Gone] ELSE UNCHANGED doc
    /\ UNCHANGED <<nextId, obj, base, wrote, call, faults, foreign>>

-----------------------------------------------------------------------------
(* Other clients *)

ForeignChange ==
    /\ foreign < MaxForeign /\ foreign' = foreign + 1
    /\ \/ \E i \in Ids : Exists(i) /\ doc' = [doc EXCEPT ![i] = Gone] /\ UNCHANGED nextId
       \/ \E i \in Ids, p \in Places :
            /\ Exists(i) /\ Free(p) /\ p.dir = doc[i].place.dir
            /\ doc' = [doc EXCEPT ![i].place = p] /\ UNCHANGED nextId
       \/ /\ nextId \in Ids /\ nextId' = nextId + 1
          /\ \/ \E i \in Ids, s \in Sizes : Exists(i) /\ Write(i, [n |-> nextId, size |-> s])
             \/ \E i \in Ids, p \in Places :
                  Exists(i) /\ Free(p) /\ p.dir # doc[i].place.dir /\ MoveTo(i, p)
             \/ \E p \in Places, s \in Sizes :
                  /\ Free(p)
                  /\ doc' = [doc EXCEPT ![nextId] = NewFile(p, [n |-> nextId, size |-> s])]
    /\ UNCHANGED <<obj, base, wrote, call, calls, faults>>

Terminated == calls = MaxCalls /\ (\A c \in Callers : call[c] = Idle) /\ UNCHANGED vars

Step(c) ==
    \/ Find(c) \/ Open(c) \/ FetchMetadata(c) \/ SignURL(c) \/ Get(c) \/ Close(c)
    \/ Relocate(c) \/ Relocated(c)
    \/ Update(c) \/ EndUpload(c) \/ AdoptMetadata(c) \/ Remove(c)

Next == (\E c \in Callers : Step(c)) \/ ForeignChange \/ Terminated

Spec == Init /\ [][Next]_vars

-----------------------------------------------------------------------------
(* Properties *)

\* Where a call may be.
Points == {"idle", "metadata", "url", "get", "body", "relocate", "upload", "adopt"}

TypeOK ==
    /\ doc \in [Ids -> Docs \union {Gone}]
    /\ nextId \in 1 .. MaxId + 1
    /\ obj \in [Callers -> Handle \union {None}]
    /\ base \in [Callers -> Revs \union {NoRev}]
    /\ wrote \in [Callers -> Revs \union {NoRev}]
    /\ \A c \in Callers : call[c].at \in Points
    /\ calls \in 0 .. MaxCalls /\ faults \in 0 .. MaxFaults /\ foreign \in 0 .. MaxForeign

\* The body of a download is the version its preconditions name, and the one
\* the object was found with or adopted last, with the object's size, when that
\* has a revision: after a move, after an update, which may have adopted another
\* client's version, and when a newer version or another file takes the place
\* while the download is on its way.
ReadsVersion ==
    \A c \in Callers : call[c].at = "body" =>
        /\ call[c].expect # None => call[c].expect = [id |-> call[c].meta.id, rev |-> call[c].rev]
        /\ base[c] # NoRev => call[c].rev = base[c] /\ obj[c].size = call[c].rev.size

\* A caller that reads through an object whose Update succeeded gets the version
\* that it wrote, or a newer one: also after moves, when another client writes
\* between the upload and the request for its metadata, when those come without a
\* revision, and when a later Update fails half-way.
ReadsOwnWrites ==
    \A c \in Callers : call[c].at = "body" /\ wrote[c] # NoRev => call[c].rev.n >= wrote[c].n

\* sync-move puts the file where it was told to, whatever others renamed
\* meanwhile; so does Move, while the file still has the name it was found by.
MovesThere ==
    [][\A c \in Callers :
         /\ call[c].at = "relocate" /\ call'[c] # call[c] /\ doc' # doc
         /\ call[c].op = "move" => doc[obj[c].id].place = obj[c].remote
         => \E i \in Ids : doc'[i] # doc[i] /\ doc'[i] # Gone /\ doc'[i].place = call[c].to]_vars

\* What an upload through an object replaces is the version that the object was
\* found with or adopted last, when that was told with its revision, wherever the
\* file was moved in between.  So an Update that failed after its upload took
\* effect is not repeated: the object still stands for the version before it.
ReplacesBase ==
    [][\A c \in Callers :
         call[c].at = "upload" /\ call'[c] # call[c] /\ doc' # doc /\ base[c] # NoRev
         => doc[obj[c].id].rev = base[c]]_vars
=============================================================================
