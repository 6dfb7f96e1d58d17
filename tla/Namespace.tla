----------------------------- MODULE Namespace -----------------------------
(***************************************************************************)
(* The directories of one AnyShare document library, as the backend's      *)
(* requests (api.go) use them.  The service is not part of the repository; *)
(* what is relied on:                                                      *)
(*   - a document ID spells the chain of directories above it, so a rename *)
(*     keeps it, a move below another parent changes it, and an ID that    *)
(*     was given up never names anything again;                            *)
(*   - ondup = 1 refuses a name that is taken;                             *)
(*   - deleting a directory deletes what is below it.                      *)
(*                                                                         *)
(* The library itself is the root of the Fs.  MaxDepth is two: a directory *)
(* of the library may hold directories, and these hold none.               *)
(***************************************************************************)
EXTENDS Naturals, Sequences

CONSTANTS
    Nodes,    \* directories that may ever exist
    Names,    \* decoded names
    Top,      \* stands for the library as a parent
    NoId      \* no document ID

VARIABLES
    alive,    \* directories that exist
    fresh,    \* directories not created yet
    place     \* place[x]: parent and name of x, while it is alive

nsVars == <<alive, fresh, place>>

\* Document IDs and paths; the empty ones are the library's.
DocIds == {<<>>} \union {<<x>> : x \in Nodes} \union (Nodes \X Nodes)
Paths  == {<<>>} \union {<<n>> : n \in Names} \union (Names \X Names)

ASSUME TopAssumption == Top \notin Nodes /\ NoId \notin DocIds

Leaf(s)   == s[Len(s)]
Parent(s) == SubSeq(s, 1, Len(s) - 1)

Place == [up : Nodes \union {Top}, name : Names]

NsTypeOK ==
    /\ alive \subseteq Nodes
    /\ fresh \subseteq Nodes \ alive
    /\ place \in [Nodes -> Place]

\* What a directory looks like that does not exist.
NoPlace == [up |-> Top, name |-> CHOOSE n \in Names : TRUE]

\* Any tree of depth two whose names are unambiguous.
NsInit ==
    /\ alive \in SUBSET Nodes
    /\ fresh = Nodes \ alive
    /\ place \in [Nodes -> Place]
    /\ \A x \in fresh : place[x] = NoPlace
    /\ \A x \in alive : place[x].up # Top =>
         place[x].up \in alive /\ place[place[x].up].up = Top
    /\ \A x, y \in alive : place[x] = place[y] => x = y

DocId(x) == IF place[x].up = Top THEN <<x>> ELSE <<place[x].up, x>>
PathOf(x) == IF place[x].up = Top THEN <<place[x].name>>
                                  ELSE <<place[place[x].up].name, place[x].name>>

\* The ID names a directory that exists, or the library.
Resolves(d) == d # <<>> => Leaf(d) \in alive /\ DocId(Leaf(d)) = d

\* The directory, or Top, that an ID names.
Dir(d) == IF d = <<>> THEN Top ELSE Leaf(d)

ChildrenOf(d) == {x \in alive : place[x].up = Dir(d)}
Free(d, n)    == \A x \in ChildrenOf(d) : place[x].name # n
Empty(d)      == ChildrenOf(d) = {}

CanCreate(d, n) == Resolves(d) /\ Len(d) < 2 /\ Free(d, n) /\ fresh # {}
CanRename(d, n) == Resolves(d) /\ Free(Parent(d), n)
CanMove(d, to, n) ==
    /\ Resolves(d) /\ Resolves(to) /\ Free(to, n)
    /\ to = <<>> \/ (Len(to) = 1 /\ Empty(d) /\ Leaf(to) # Leaf(d))

\* dir/create, dir/delete, dir/rename and dir/move, when they are accepted.
Create(d, n, x) ==
    /\ x \in fresh
    /\ alive' = alive \union {x}
    /\ fresh' = fresh \ {x}
    /\ place' = [place EXCEPT ![x] = [up |-> Dir(d), name |-> n]]

Delete(d) ==
    LET gone == {Leaf(d)} \union ChildrenOf(d) IN
    /\ alive' = alive \ gone
    /\ place' = [x \in Nodes |-> IF x \in gone THEN NoPlace ELSE place[x]]
    /\ UNCHANGED fresh

Rename(d, n) ==
    /\ place' = [place EXCEPT ![Leaf(d)].name = n]
    /\ UNCHANGED <<alive, fresh>>

Move(d, to, n) ==
    /\ place' = [place EXCEPT ![Leaf(d)] = [up |-> Dir(to), name |-> n]]
    /\ UNCHANGED <<alive, fresh>>
=============================================================================
