------------------------------ MODULE DirCache ------------------------------
(***************************************************************************)
(* Directory operations of one long-lived Fs (backend/pkudisk/pkudisk.go)  *)
(* over rclone's directory cache, which maps paths to document IDs.  The   *)
(* calls of several goroutines (rclone's workers, or RC calls to an rcd)   *)
(* run at the same time on the same Fs.                                    *)
(*                                                                         *)
(* A call first looks up the directories it names, one lookup after the    *)
(* other.  A lookup holds the cache's mutex throughout, requests included; *)
(* List and the flushes do not take that mutex.  Then the call acts.       *)
(*                                                                         *)
(* Paths are relative to the library, which is the root of the Fs: its ID  *)
(* is never looked up and never flushed, and the calls that would remove   *)
(* or move a library are refused before they do anything.                  *)
(***************************************************************************)
EXTENDS Namespace, FiniteSets

CONSTANTS
    Workers,       \* goroutines that call the Fs
    Ops,           \* the calls they make, a subset of AllOps
    MaxCalls,      \* bound: calls in all
    MaxFaults,     \* bound: requests that fail or whose answer is lost
    MaxForeign     \* bound: directory changes by other clients

AllOps == {"list", "mkdir", "rmdir", "purge", "dirmove", "sync-move", "sync-delete-dir"}

ASSUME OpsAssumption == Ops \subseteq AllOps
ASSUME CallsAssumption ==
    NoId \notin Workers /\ MaxCalls \in Nat /\ MaxFaults \in Nat /\ MaxForeign \in Nat

VARIABLES
    cache,     \* cache[p]: the ID cached for path p, or NoId
    mu,        \* the worker that holds the mutex of the cache, or NoId
    call,      \* call[w]: what worker w is doing
    entries,   \* entries[w]: directories of a listing still to be cached
    retired,   \* sync-moves that were answered: old path, directory, worker
    calls, faults, foreign    \* counters of the bounds

fsVars == <<cache, mu, call, entries, retired>>
counters == <<calls, faults, foreign>>
vars == <<alive, fresh, place, cache, mu, call, entries, retired, calls, faults, foreign>>

\* op, path, to and id: the call and its arguments.  at: its next step.
\* found: results of its lookups so far.  have, got: the prefix of the current
\* lookup that is resolved, its ID and the ID of the next component.  old: the
\* sync-moves that had returned when the call began (history, as retired is:
\* no action depends on them).
Idle == [op |-> "none", path |-> <<>>, to |-> <<>>, id |-> <<>>, at |-> "idle",
         found |-> <<>>, have |-> <<>>, got |-> NoId, old |-> {}]

Call == [op : AllOps \union {"none"}, path : Paths, to : Paths, id : DocIds,
         at : {"idle", "lookup", "ask", "create", "put", "act", "list", "delete", "flush"},
         found : UNION {[1 .. n -> DocIds \union {NoId}] : n \in 0 .. 4},
         have : Paths, got : DocIds \union {NoId}, old : SUBSET (Paths \X Nodes)]

TypeOK ==
    /\ NsTypeOK
    /\ cache \in [Paths -> DocIds \union {NoId}]
    /\ mu \in Workers \union {NoId}
    /\ \A w \in Workers : mu = w <=> call[w].at \in {"ask", "create", "put"}
    /\ call \in [Workers -> Call]
    /\ entries \in [Workers -> SUBSET (Paths \X DocIds)]
    /\ retired \subseteq Paths \X Nodes \X Workers
    /\ calls \in 0 .. MaxCalls /\ faults \in 0 .. MaxFaults /\ foreign \in 0 .. MaxForeign

Init ==
    /\ NsInit
    /\ cache = [p \in Paths |-> IF p = <<>> THEN <<>> ELSE NoId]
    /\ mu = NoId
    /\ call = [w \in Workers |-> Idle]
    /\ entries = [w \in Workers |-> {}]
    /\ retired = {}
    /\ calls = 0 /\ faults = 0 /\ foreign = 0

Set(w, fields) == call' = [call EXCEPT ![w] = fields]
At(w, step)    == call' = [call EXCEPT ![w].at = step]
Return(w)      == Set(w, Idle)

Fault == faults < MaxFaults /\ faults' = faults + 1

-----------------------------------------------------------------------------
(* The calls and the lookups each of them begins with. *)

Look(p, create) == [path |-> p, create |-> create, absent |-> FALSE]

\* dircache.DirMove also demands that the destination is absent.
Absent(p) == [path |-> p, create |-> FALSE, absent |-> TRUE]

Lookups(c) ==
    CASE c.op \in {"list", "rmdir"} -> <<Look(c.path, FALSE)>>
      [] c.op = "mkdir"     -> <<Look(c.path, TRUE)>>
      [] c.op = "purge"     -> <<Look(c.path, FALSE), Look(Parent(c.path), FALSE)>>
      [] c.op = "dirmove"   -> <<Look(Parent(c.to), TRUE), Absent(c.to),
                                 Look(Parent(c.path), FALSE), Look(c.path, FALSE)>>
      [] c.op = "sync-move" -> <<Look(Parent(c.to), FALSE)>>
      [] OTHER              -> <<>>

\* The arguments a call may have.  sync-move and sync-delete-dir name a
\* directory by an ID the caller got earlier, so it may be out of date.
Arguments(op) ==
    IF op = "list" THEN {[path |-> p, to |-> <<>>, id |-> <<>>] : p \in Paths}
    ELSE IF op \in {"mkdir", "rmdir", "purge"}
    THEN {[path |-> p, to |-> <<>>, id |-> <<>>] : p \in Paths \ {<<>>}}
    ELSE IF op = "dirmove"
    THEN {[path |-> p, to |-> q, id |-> <<>>] : p \in Paths \ {<<>>}, q \in Paths \ {<<>>}}
    ELSE IF op = "sync-move"
    THEN {[path |-> <<>>, to |-> q, id |-> DocId(x)] : q \in Paths \ {<<>>}, x \in alive}
    ELSE {[path |-> <<>>, to |-> <<>>, id |-> DocId(x)] : x \in alive}

\* Old paths of the directories that sync-moves took elsewhere and returned.
Retired == {<<m[1], m[2]>> : m \in {r \in retired : call[r[3]].at # "flush"}}

Begin(w) ==
    /\ call[w].op = "none"
    /\ calls < MaxCalls /\ calls' = calls + 1
    /\ \E op \in Ops : \E a \in Arguments(op) :
         Set(w, [Idle EXCEPT !.op = op, !.path = a.path, !.to = a.to, !.id = a.id,
                             !.at = "lookup", !.old = Retired])
    /\ UNCHANGED <<nsVars, cache, mu, entries, retired, faults, foreign>>

\* The lookup in progress, or to be begun.
Current(w) == Lookups(call[w])[Len(call[w].found) + 1]

-----------------------------------------------------------------------------
(* dircache.FindDir with this Fs's FindLeaf and CreateDir *)

\* The longest prefix of p that is cached.
CachedPrefix(p) ==
    CHOOSE q \in {SubSeq(p, 1, n) : n \in 0 .. Len(p)} :
        /\ cache[q] # NoId
        /\ \A n \in 0 .. Len(p) : cache[SubSeq(p, 1, n)] # NoId => n <= Len(q)

\* A lookup has its result d; NoId says that there is no such directory.
Found(w, d) ==
    LET l == Current(w) IN
    IF l.absent = (d = NoId)
    THEN Set(w, [call[w] EXCEPT !.found = Append(@, d), !.have = <<>>, !.got = NoId,
                                !.at = "lookup"])
    ELSE Return(w)

\* All lookups are done.
EndLookups(w) ==
    /\ call[w].at = "lookup"
    /\ Len(call[w].found) = Len(Lookups(call[w]))
    /\ At(w, "act")
    /\ UNCHANGED <<nsVars, cache, mu, entries, retired, counters>>

\* No lookup is in progress.
Unlocked == mu = NoId

\* The mutex is taken and the cache consulted; a hit ends the lookup.
BeginLookup(w) ==
    /\ call[w].at = "lookup"
    /\ Len(call[w].found) < Len(Lookups(call[w]))
    /\ Unlocked
    /\ LET p == Current(w).path
           q == CachedPrefix(p)
       IN  IF q = p
           THEN Found(w, cache[p]) /\ UNCHANGED mu
           ELSE /\ Set(w, [call[w] EXCEPT !.have = q, !.got = cache[q], !.at = "ask"])
                /\ mu' = w
    /\ UNCHANGED <<nsVars, cache, entries, retired, counters>>

NextName(w) == Current(w).path[Len(call[w].have) + 1]

\* Seeded fault: names are compared as the service stores them, so that one
\* that had to be encoded is not found.
StoredLeaves(d, n) ==
    {x \in ChildrenOf(d) : place[x].name = n /\ n # CHOOSE encoded \in Names : TRUE}

\* FindLeaf: the directories of that name in a fresh listing of d.
Leaves(d, n) == {x \in ChildrenOf(d) : place[x].name = n}

Resolved(w, d) == Set(w, [call[w] EXCEPT !.got = d, !.at = "put"])

\* Seeded fault: a lookup that failed is begun again.
LookAgain(w) == Set(w, [call[w] EXCEPT !.have = <<>>, !.got = NoId, !.at = "lookup"])

\* A lookup that failed fails its call.
LookupFailed(w) == Return(w)

Unlock == mu' = NoId

\* The request of a lookup fails, or is refused by the service.
AskFails(w, refused) ==
    /\ IF refused THEN UNCHANGED faults ELSE Fault
    /\ LookupFailed(w)
    /\ Unlock
    /\ UNCHANGED nsVars

\* FindLeaf, and whether its caller goes on to CreateDir.
AskLeaf(w) ==
    LET d == call[w].got
        leaves == Leaves(d, NextName(w))
    IN
    /\ call[w].at = "ask"
    /\ \/ /\ Resolves(d) /\ leaves # {}
          /\ \E x \in leaves : Resolved(w, DocId(x))
          /\ UNCHANGED <<nsVars, mu, faults>>
       \/ /\ Resolves(d) /\ leaves = {} /\ Current(w).create
          /\ At(w, "create")
          /\ UNCHANGED <<nsVars, mu, faults>>
       \/ /\ Resolves(d) /\ leaves = {} /\ ~ Current(w).create
          /\ Found(w, NoId)
          /\ Unlock
          /\ UNCHANGED <<nsVars, faults>>
       \/ AskFails(w, FALSE)
       \/ ~ Resolves(d) /\ AskFails(w, TRUE)
    /\ UNCHANGED <<cache, entries, retired, calls, foreign>>

\* CreateDir, which the service refuses when the name is taken by now.  Once the
\* directory is made, its answer may be lost, or the listing fail that an answer
\* without the ID makes necessary.
CreateLeaf(w) ==
    LET d == call[w].got
        n == NextName(w)
    IN
    /\ call[w].at = "create"
    /\ \/ /\ CanCreate(d, n)
          /\ \E x \in fresh :
               /\ Create(d, n, x)
               /\ \/ Resolved(w, Append(d, x)) /\ UNCHANGED <<mu, faults>>
                  \/ Fault /\ LookupFailed(w) /\ Unlock
       \/ AskFails(w, FALSE)
       \/ ~ CanCreate(d, n) /\ AskFails(w, TRUE)
    /\ UNCHANGED <<cache, entries, retired, calls, foreign>>

\* The directory is entered into the cache; the lookup goes on or ends.
PutLeaf(w) ==
    LET c == call[w]
        p == Append(c.have, NextName(w))
    IN
    /\ c.at = "put"
    /\ cache' = [cache EXCEPT ![p] = c.got]
    /\ IF p = Current(w).path
       THEN Found(w, c.got) /\ Unlock
       ELSE Set(w, [c EXCEPT !.have = p, !.at = "ask"]) /\ UNCHANGED mu
    /\ UNCHANGED <<nsVars, entries, retired, counters>>

-----------------------------------------------------------------------------
(* What the calls do with the directories they found *)

Acting(w, op) == call[w].at = "act" /\ call[w].op = op
Result(w, n)  == call[w].found[n]

\* The cached paths at and below p.
Below(p) == {q \in Paths \ {<<>>} : Len(q) >= Len(p) /\ SubSeq(q, 1, Len(p)) = p}

Flush(ps) == cache' = [q \in Paths |-> IF q \in ps THEN NoId ELSE cache[q]]

\* Mkdir has nothing to do after its lookup.
FinishMkdir(w) ==
    /\ Acting(w, "mkdir")
    /\ Return(w)
    /\ UNCHANGED <<nsVars, cache, mu, entries, retired, counters>>

\* A request of worker w fails and has no effect; so does its call.
RequestFails(w) ==
    /\ call[w].at \in {"act", "delete"} /\ call[w].op # "mkdir"
    /\ Fault
    /\ Return(w)
    /\ UNCHANGED <<nsVars, cache, mu, entries, retired, calls, foreign>>

\* List: the answer is turned into entries, which are cached one by one.
ListDir(w) ==
    LET d == Result(w, 1) IN
    /\ Acting(w, "list")
    /\ IF Resolves(d)
       THEN /\ entries' = [entries EXCEPT ![w] =
                 {<<Append(call[w].path, place[x].name), DocId(x)>> :
                    x \in {y \in ChildrenOf(d) : Len(call[w].path) < 2}}]
            /\ At(w, "list")
       ELSE Return(w) /\ UNCHANGED entries
    /\ UNCHANGED <<nsVars, cache, mu, retired, counters>>

PutEntry(w) ==
    /\ call[w].at = "list"
    /\ \E e \in entries[w] :
         /\ cache' = [cache EXCEPT ![e[1]] = e[2]]
         /\ entries' = [entries EXCEPT ![w] = @ \ {e}]
    /\ UNCHANGED <<nsVars, mu, call, retired, counters>>

FinishList(w) ==
    /\ call[w].at = "list"
    /\ entries[w] = {}
    /\ Return(w)
    /\ UNCHANGED <<nsVars, cache, mu, entries, retired, counters>>

\* The directory a removal is about.
Doomed(w) == IF call[w].op = "sync-delete-dir" THEN call[w].id ELSE Result(w, 1)

\* Rmdir and sync-delete-dir look first whether the directory is empty.
CheckEmpty(w) ==
    /\ call[w].at = "act" /\ call[w].op \in {"rmdir", "sync-delete-dir"}
    /\ IF Resolves(Doomed(w)) /\ Empty(Doomed(w)) THEN At(w, "delete") ELSE Return(w)
    /\ UNCHANGED <<nsVars, cache, mu, entries, retired, counters>>

\* The request of worker w takes effect, and maybe its answer is lost.
Answered(w) ==
    \/ At(w, "flush") /\ UNCHANGED faults
    \/ Return(w) /\ Fault

Refused(w) == Return(w) /\ UNCHANGED <<nsVars, faults>>

\* The recursive delete request.
DeleteDir(w) ==
    /\ call[w].at = "delete" \/ Acting(w, "purge")
    /\ IF Resolves(Doomed(w)) THEN Delete(Doomed(w)) /\ Answered(w) ELSE Refused(w)
    /\ UNCHANGED <<cache, mu, entries, retired, calls, foreign>>

\* relocateEntry: a rename within a parent, a move to another one.
Relocate(w, d, from, to, n) ==
    IF from = to
    THEN IF CanRename(d, n) THEN Rename(d, n) /\ Answered(w) ELSE Refused(w)
    ELSE IF CanMove(d, to, n) THEN Move(d, to, n) /\ Answered(w) ELSE Refused(w)

\* DirMove, with the parents' IDs as the cache has them.
MoveDir(w) ==
    LET c == call[w] IN
    /\ c.at = "act" /\ c.op = "dirmove"
    /\ IF Result(w, 3) = Result(w, 1) /\ Leaf(c.path) = Leaf(c.to)
       THEN At(w, "flush") /\ UNCHANGED <<nsVars, faults>>
       ELSE Relocate(w, Result(w, 4), Result(w, 3), Result(w, 1), Leaf(c.to))
    /\ UNCHANGED <<cache, mu, entries, retired, calls, foreign>>

\* sync-move of a directory: its parent is taken from its ID.
SyncMove(w) ==
    LET c == call[w] IN
    /\ c.at = "act" /\ c.op = "sync-move"
    /\ Relocate(w, c.id, Parent(c.id), Result(w, 1), Leaf(c.to))
    /\ retired' = IF call'[w].at = "flush"
                  THEN retired \union {<<PathOf(Leaf(c.id)), Leaf(c.id), w>>} ELSE retired
    /\ UNCHANGED <<cache, mu, entries, calls, foreign>>

\* Seeded fault: the commands that name a directory by its ID flush nothing.
NoStale(w) == IF call[w].op \in {"rmdir", "purge"} THEN Below(call[w].path)
              ELSE IF call[w].op = "dirmove" THEN Below(call[w].path) \union Below(call[w].to)
              ELSE {}

\* The paths a call takes out of the cache once it has been answered.
Stale(w) == IF call[w].op \in {"rmdir", "purge"} THEN Below(call[w].path)
            ELSE IF call[w].op = "dirmove" THEN Below(call[w].path) \union Below(call[w].to)
            ELSE Paths \ {<<>>}

FlushStale(w) ==
    /\ call[w].at = "flush"
    /\ Flush(Stale(w))
    /\ Return(w)
    /\ UNCHANGED <<nsVars, mu, entries, retired, counters>>

-----------------------------------------------------------------------------
(* Other clients of the library *)

ForeignChange ==
    /\ foreign < MaxForeign /\ foreign' = foreign + 1
    /\ \/ \E d \in DocIds, n \in Names, x \in fresh : CanCreate(d, n) /\ Create(d, n, x)
       \/ \E y \in alive : Delete(DocId(y))
       \/ \E y \in alive, n \in Names : CanRename(DocId(y), n) /\ Rename(DocId(y), n)
       \/ \E y \in alive, d \in DocIds, n \in Names :
            d # Parent(DocId(y)) /\ CanMove(DocId(y), d, n) /\ Move(DocId(y), d, n)
    /\ UNCHANGED <<cache, mu, call, entries, retired, calls, faults>>

Terminated ==
    /\ calls = MaxCalls
    /\ \A w \in Workers : call[w].op = "none"
    /\ UNCHANGED vars

\* What a call does after it began.
Proceed(w) ==
    \/ BeginLookup(w) \/ AskLeaf(w) \/ CreateLeaf(w) \/ PutLeaf(w) \/ EndLookups(w)
    \/ FinishMkdir(w) \/ RequestFails(w)
    \/ ListDir(w) \/ PutEntry(w) \/ FinishList(w)
    \/ CheckEmpty(w) \/ DeleteDir(w) \/ MoveDir(w) \/ SyncMove(w) \/ FlushStale(w)

Next ==
    \/ \E w \in Workers : Begin(w) \/ Proceed(w)
    \/ ForeignChange
    \/ Terminated

Spec == Init /\ [][Next]_vars

\* A goroutine in a call goes on; nobody has to make another call.
FairSpec == Spec /\ \A w \in Workers : WF_vars(Proceed(w))

-----------------------------------------------------------------------------
(* Properties *)

\* The directory the step of a call is about to remove or relocate.
Target(w) == IF call[w].op = "dirmove" THEN Leaf(Result(w, 4)) ELSE Leaf(Doomed(w))

Changes(w) == /\ call[w].op \in {"rmdir", "purge", "dirmove"}
              /\ call[w].at \in {"act", "delete"} /\ call'[w] # call[w]
              /\ <<alive, place>>' # <<alive, place>>

\* Between the calls of a single goroutine, nobody else changing the library,
\* every cached path leads to the directory that is there: each call flushes
\* all that it made stale.
CacheCurrent ==
    (\A w \in Workers : call[w].op = "none") =>
        \A p \in Paths \ {<<>>} : cache[p] # NoId =>
            Resolves(cache[p]) /\ PathOf(Leaf(cache[p])) = p

\* What is removed or moved is the directory at the path the caller named, a
\* move leaves it at the destination the caller named, and Mkdir reports success
\* only if the directory is there, whatever the cache says.
ActsOnPath ==
    [][\A w \in Workers :
         /\ Changes(w) =>
              /\ PathOf(Target(w)) = call[w].path
              /\ call[w].op = "dirmove" => PathOf(Target(w))' = call[w].to
         /\ Acting(w, "mkdir") /\ call'[w] = Idle =>
              \E x \in alive : PathOf(x) = call[w].path]_vars

\* Calls of Mkdir that run at the same time all succeed, although each of them
\* may create the parents they share: none trips over a directory that another
\* one created.  Requests that fail of themselves, and directories that are
\* removed or changed by another client meanwhile, are something else.
MkdirsAgree ==
    [][\A w \in Workers :
         /\ call[w].op = "mkdir" /\ call'[w] = Idle
         /\ faults' = 0 /\ foreign = 0 /\ alive \union fresh = Nodes
         => call[w].at = "act" \/ fresh = {}]_vars

\* Every call returns, whichever of its requests fail and whatever other
\* clients change: no error path keeps the mutex of the cache.
EveryCallReturns == \A w \in Workers : call[w].op # "none" ~> call[w].op = "none"

\* pkudisk.go says of sync-move: "Drop all cached path->docid mappings after a
\* successful directory relocation so later long-lived rcd operations cannot
\* act on the moved directory through its stale old path."
MovedOutOfReach ==
    [][\A w \in Workers : Changes(w) =>
         \/ <<call[w].path, Target(w)>> \notin call[w].old
         \/ PathOf(Target(w)) = call[w].path]_vars
=============================================================================
