-------------------------- MODULE RootLookupProofs --------------------------
(***************************************************************************)
(* Theorems about RootLookup: the libraries outlive every call that is     *)
(* refused at the virtual root, and NewFs answers the same on every route. *)
(***************************************************************************)
EXTENDS RootLookup, WellFoundedInduction, SequenceTheorems, TLAPS

-----------------------------------------------------------------------------
(* The inductive invariants *)

\* There is room below the chain of every entry for the entry.
Placed == \A x \in Entries : Len(place[x].above) < MaxDepth

SafeLibraries == Libraries \subseteq alive /\ \A l \in Libraries : place[l].above = <<>>

BeforeCall == at # "done" => WellFormed /\ SafeLibraries /\ op = "none"

\* The dircache knows the parent of a root it has found.
KnowsParent == rootId # NoId => parentId = IF fsRoot = <<>> THEN NoId ELSE Parent(rootId)

\* The walk is for the path first and then for its parent.
Walking ==
    /\ Len(walk.id) = walk.n /\ walk.n <= Len(walk.path)
    /\ at = "walk" => walk.path = root
    /\ at \in {"parent", "object", "listing"} => root # <<>> /\ walk.path = Parent(root)
    /\ at \in {"object", "listing"} => walk.n = Len(walk.path)

LibInv == RootTypeOK /\ Placed /\ BeforeCall /\ KnowsParent /\ Walking /\ LibrariesKept

\* The ID is that of the folder at the path.
Located(id, path) ==
    id # <<>> => /\ Leaf(id) \in alive \intersect Folders
                 /\ DocId(Leaf(id)) = id /\ PathOf(Leaf(id)) = path

Searching == at \in {"walk", "parent", "object", "listing"}

\* While nobody else changes the tree, the walk is where it believes to be, and
\* only a failed request makes NewFs look further for a path that something has.
Undisturbed ==
    others = 0 /\ Searching =>
        /\ Located(walk.id, SubSeq(walk.path, 1, walk.n))
        /\ failures = 0 /\ root # <<>> => \A x \in alive : PathOf(x) # root
        /\ at = "listing" => failures > 0

RootInv == LibInv /\ Undisturbed /\ SameAnswer

-----------------------------------------------------------------------------
(* Chains and paths are bounded sequences *)

LEMMA EqualIntervals ==
  ASSUME NEW m \in Nat, NEW n \in Nat, 1 .. m = 1 .. n
  PROVE  m = n
<1>1. \A i \in Int : (1 <= i /\ i <= m) <=> (1 <= i /\ i <= n)
  OBVIOUS
<1> QED
  BY <1>1

LEMMA BoundedSeq ==
  ASSUME NEW S, NEW s
  PROVE  s \in UNION {[1 .. n -> S] : n \in 0 .. MaxDepth} <=> s \in Seq(S) /\ Len(s) <= MaxDepth
<1> MaxDepth \in Nat
  BY DepthAssumption
<1>1. ASSUME s \in UNION {[1 .. n -> S] : n \in 0 .. MaxDepth}
      PROVE  s \in Seq(S) /\ Len(s) <= MaxDepth
  <2>1. PICK n \in 0 .. MaxDepth : s \in [1 .. n -> S]
    BY <1>1
  <2>2. s \in Seq(S)
    BY <2>1, SeqDef
  <2>3. Len(s) \in Nat /\ DOMAIN s = 1 .. Len(s) /\ DOMAIN s = 1 .. n /\ n \in Nat
    BY <2>1, <2>2, LenProperties
  <2>4. Len(s) = n
    BY <2>3, EqualIntervals, Zenon
  <2> QED
    BY <2>1, <2>2, <2>4
<1>2. ASSUME s \in Seq(S), Len(s) <= MaxDepth
      PROVE  s \in UNION {[1 .. n -> S] : n \in 0 .. MaxDepth}
  <2>1. Len(s) \in 0 .. MaxDepth /\ s \in [1 .. Len(s) -> S]
    BY <1>2, LenProperties
  <2> QED
    BY <2>1
<1> QED
  BY <1>1, <1>2

LEMMA ChainSeq ==
  ASSUME NEW s
  PROVE  s \in Chains <=> s \in Seq(Entries) /\ Len(s) <= MaxDepth
BY BoundedSeq DEF Chains

LEMMA PathSeq ==
  ASSUME NEW s
  PROVE  s \in Paths <=> s \in Seq(Segments) /\ Len(s) <= MaxDepth
BY BoundedSeq DEF Paths

LEMMA EmptyFits == <<>> \in Chains /\ <<>> \in Paths
<1>1. <<>> \in Seq(Entries) /\ <<>> \in Seq(Segments) /\ Len(<<>>) = 0
  BY EmptySeq
<1>2. Len(<<>>) <= MaxDepth
  BY <1>1, DepthAssumption
<1> QED
  BY <1>1, <1>2, ChainSeq, PathSeq, Zenon

\* The parent of a sequence is all but its last element.
LEMMA ParentSeq ==
  ASSUME NEW S, NEW s \in Seq(S)
  PROVE  /\ Parent(s) \in Seq(S)
         /\ s = <<>> => Parent(s) = <<>>
         /\ s # <<>> => /\ Len(Parent(s)) = Len(s) - 1
                        /\ \A i \in 1 .. Len(s) - 1 : Parent(s)[i] = s[i]
                        /\ Leaf(s) \in S
         /\ Len(s) = 0 <=> s = <<>>
         /\ Len(s) \in Nat
<1>1. Len(s) \in Nat /\ (s # <<>> => Len(s) \in Nat \ {0}) /\ Len(<<>>) = 0
  BY EmptySeq, LenProperties
<1>2. \A i \in 1 .. Len(s) : s[i] \in S
  BY ElementOfSeq
<1>3. /\ Parent(s) \in Seq(S)
      /\ Len(Parent(s)) = IF 1 <= Len(s) - 1 THEN Len(s) - 1 - 1 + 1 ELSE 0
      /\ \A i \in 1 .. Len(s) - 1 - 1 + 1 : Parent(s)[i] = s[1 + i - 1]
  <2> DEFINE k == Len(s) - 1
  <2>1. (\A i \in 1 .. k : s[i] \in S) /\ k \in Int /\ 1 \in Int
    BY <1>1, <1>2
  <2> HIDE DEF k
  <2>2. /\ SubSeq(s, 1, k) \in Seq(S)
        /\ Len(SubSeq(s, 1, k)) = IF 1 <= k THEN k - 1 + 1 ELSE 0
        /\ \A i \in 1 .. k - 1 + 1 : SubSeq(s, 1, k)[i] = s[1 + i - 1]
    BY <2>1, SubSeqProperties, SMTT(30)
  <2> QED
    BY <2>2 DEF k, Parent
<1>4. s # <<>> => Leaf(s) \in S
  BY <1>1, <1>2 DEF Leaf
<1>5. s = <<>> => Parent(s) = <<>>
  BY <1>1, <1>3, EmptySeq
<1>6. s # <<>> => Len(Parent(s)) = Len(s) - 1
  <2>1. ASSUME NEW n \in Nat, n # 0 PROVE (IF 1 <= n - 1 THEN n - 1 - 1 + 1 ELSE 0) = n - 1
    BY <2>1
  <2>2. s # <<>> => Len(s) \in Nat /\ Len(s) # 0
    BY <1>1, Zenon
  <2> QED
    BY <1>3, <2>1, <2>2, Zenon
<1>7. s # <<>> => \A i \in 1 .. Len(s) - 1 : Parent(s)[i] = s[i]
  BY <1>1, <1>3
<1> QED
  BY <1>1, <1>3, <1>4, <1>5, <1>6, <1>7

LEMMA ParentFits ==
  /\ \A s \in Chains : Parent(s) \in Chains
  /\ \A s \in Paths : Parent(s) \in Paths
<1>1. ASSUME NEW S, NEW s \in Seq(S), Len(s) <= MaxDepth PROVE Len(Parent(s)) <= MaxDepth
  BY <1>1, ParentSeq, DepthAssumption
<1> QED
  BY <1>1, ChainSeq, PathSeq, ParentSeq

\* A sequence is its parent with its last element.
LEMMA SeqByParent ==
  ASSUME NEW S, NEW s \in Seq(S), NEW t \in Seq(S), s # <<>>, t # <<>>,
         Parent(s) = Parent(t), Leaf(s) = Leaf(t)
  PROVE  s = t
<1>1. /\ Len(s) \in Nat /\ Len(t) \in Nat /\ Len(s) # 0 /\ Len(t) # 0
      /\ Len(Parent(s)) = Len(s) - 1 /\ Len(Parent(t)) = Len(t) - 1
      /\ \A i \in 1 .. Len(s) - 1 : Parent(s)[i] = s[i]
      /\ \A i \in 1 .. Len(t) - 1 : Parent(t)[i] = t[i]
  BY ParentSeq, Zenon
<1>2. Len(s) = Len(t)
  BY <1>1
<1>3. \A i \in 1 .. Len(s) : s[i] = t[i]
  BY <1>1, <1>2 DEF Leaf
<1> QED
  BY <1>2, <1>3, SeqEqual

LEMMA AppendParent ==
  ASSUME NEW S, NEW s \in Seq(S), NEW x \in S
  PROVE  /\ Append(s, x) \in Seq(S) /\ Append(s, x) # <<>>
         /\ Len(Append(s, x)) = Len(s) + 1
         /\ Parent(Append(s, x)) = s /\ Leaf(Append(s, x)) = x
         /\ \A i \in 1 .. Len(s) : Append(s, x)[i] = s[i]
<1>1. /\ Append(s, x) \in Seq(S) /\ Append(s, x) # <<>>
      /\ Len(Append(s, x)) = Len(s) + 1
      /\ \A i \in 1 .. Len(s) : Append(s, x)[i] = s[i]
      /\ Append(s, x)[Len(s) + 1] = x
  BY AppendProperties
<1>2. Len(s) \in Nat
  BY LenProperties
<1>3. /\ Parent(Append(s, x)) \in Seq(S)
      /\ Len(Parent(Append(s, x))) = Len(s)
      /\ \A i \in 1 .. Len(s) : Parent(Append(s, x))[i] = s[i]
  <2>1. /\ Parent(Append(s, x)) \in Seq(S)
        /\ Len(Parent(Append(s, x))) = Len(Append(s, x)) - 1
        /\ \A i \in 1 .. Len(Append(s, x)) - 1 : Parent(Append(s, x))[i] = Append(s, x)[i]
    BY <1>1, ParentSeq, Zenon
  <2> QED
    BY <1>1, <1>2, <2>1
<1>4. Parent(Append(s, x)) = s
  BY <1>3, SeqEqual
<1> QED
  BY <1>1, <1>4 DEF Leaf

\* Taking the parent leaves the prefixes.
LEMMA ParentPrefix ==
  ASSUME NEW S, NEW s \in Seq(S), s # <<>>, NEW k \in 0 .. Len(s) - 1
  PROVE  SubSeq(Parent(s), 1, k) = SubSeq(s, 1, k)
<1>1. /\ Parent(s) \in Seq(S) /\ Len(s) \in Nat /\ Len(Parent(s)) = Len(s) - 1
      /\ \A i \in 1 .. Len(s) - 1 : Parent(s)[i] = s[i]
  BY ParentSeq, Zenon
<1>2. \A i \in 1 .. k : i \in 1 .. Len(s) - 1 /\ i \in 1 .. Len(s)
  BY <1>1
<1>3. \A i \in 1 .. k : Parent(s)[i] = s[i] /\ s[i] \in S
  BY <1>1, <1>2, ElementOfSeq
<1>4. k \in Int /\ 1 \in Int
  BY <1>1
<1>5. /\ SubSeq(s, 1, k) \in Seq(S)
      /\ Len(SubSeq(s, 1, k)) = IF 1 <= k THEN k - 1 + 1 ELSE 0
      /\ \A i \in 1 .. k - 1 + 1 : SubSeq(s, 1, k)[i] = s[1 + i - 1]
  BY <1>3, <1>4, SubSeqProperties, SMTT(30)
<1>6. /\ SubSeq(Parent(s), 1, k) \in Seq(S)
      /\ Len(SubSeq(Parent(s), 1, k)) = IF 1 <= k THEN k - 1 + 1 ELSE 0
      /\ \A i \in 1 .. k - 1 + 1 : SubSeq(Parent(s), 1, k)[i] = Parent(s)[1 + i - 1]
  BY <1>3, <1>4, SubSeqProperties, SMTT(30)
<1>7. Len(SubSeq(Parent(s), 1, k)) = Len(SubSeq(s, 1, k))
  BY <1>5, <1>6
<1>8. ASSUME NEW i \in 1 .. k
      PROVE  SubSeq(Parent(s), 1, k)[i] = SubSeq(s, 1, k)[i]
  BY <1>3, <1>4, <1>5, <1>6
<1>9. \A i \in 1 .. Len(SubSeq(Parent(s), 1, k)) : i \in 1 .. k
  BY <1>4, <1>6
<1> QED
  BY <1>5, <1>6, <1>7, <1>8, <1>9, SeqEqual

\* The parent of a prefix is the prefix before it.
LEMMA PrefixParent ==
  ASSUME NEW S, NEW s \in Seq(S), NEW n \in 0 .. Len(s) - 1
  PROVE  LET q == SubSeq(s, 1, n + 1) IN
         /\ q \in Seq(S) /\ q # <<>> /\ Leaf(q) = s[n + 1]
         /\ Parent(q) = SubSeq(s, 1, n) /\ Len(Parent(q)) = n
<1> DEFINE q == SubSeq(s, 1, n + 1)
<1>1. Len(s) \in Nat /\ n \in Nat /\ n \in Int /\ n + 1 \in Int /\ 1 \in Int
  BY LenProperties
<1>2. \A i \in 1 .. n + 1 : s[i] \in S
  <2>1. \A i \in 1 .. n + 1 : i \in 1 .. Len(s)
    BY <1>1
  <2> QED
    BY <2>1, ElementOfSeq
<1>3. /\ q \in Seq(S)
      /\ Len(q) = IF 1 <= n + 1 THEN n + 1 - 1 + 1 ELSE 0
      /\ \A i \in 1 .. n + 1 - 1 + 1 : q[i] = s[1 + i - 1]
  BY <1>1, <1>2, SubSeqProperties, SMTT(30)
<1> HIDE DEF q
<1>4. Len(q) = n + 1 /\ \A i \in 1 .. n + 1 : q[i] = s[i]
  <2>1. (IF 1 <= n + 1 THEN n + 1 - 1 + 1 ELSE 0) = n + 1
    BY <1>1
  <2>2. \A i \in 1 .. n + 1 : i \in 1 .. n + 1 - 1 + 1 /\ 1 + i - 1 = i
    BY <1>1
  <2> QED
    BY <1>3, <2>1, <2>2
<1>5. q # <<>> /\ Leaf(q) = s[n + 1]
  <2>1. n + 1 # 0 /\ n + 1 \in 1 .. n + 1
    BY <1>1
  <2> QED
    BY <1>3, <1>4, <2>1, EmptySeq DEF Leaf
<1>6. Parent(q) \in Seq(S) /\ Len(Parent(q)) = Len(q) - 1
      /\ \A i \in 1 .. Len(q) - 1 : Parent(q)[i] = q[i]
  BY <1>3, <1>5, ParentSeq, Zenon
<1>7. Len(q) - 1 = n
  BY <1>1, <1>4
<1>8. /\ SubSeq(s, 1, n) \in Seq(S)
      /\ Len(SubSeq(s, 1, n)) = IF 1 <= n THEN n - 1 + 1 ELSE 0
      /\ \A i \in 1 .. n - 1 + 1 : SubSeq(s, 1, n)[i] = s[1 + i - 1]
  <2>1. \A i \in 1 .. n : s[i] \in S
    BY <1>1, <1>2
  <2> QED
    BY <1>1, <2>1, SubSeqProperties, SMTT(30)
<1>9. Len(SubSeq(s, 1, n)) = n /\ \A i \in 1 .. n : SubSeq(s, 1, n)[i] = s[i]
  BY <1>1, <1>8
<1>10. \A i \in 1 .. n : Parent(q)[i] = s[i]
  <2>1. \A i \in 1 .. n : i \in 1 .. n + 1
    BY <1>1
  <2> QED
    BY <1>4, <1>6, <1>7, <2>1
<1>11. Parent(q) = SubSeq(s, 1, n)
  BY <1>6, <1>7, <1>8, <1>9, <1>10, SeqEqual
<1> QED
  BY <1>3, <1>5, <1>6, <1>7, <1>11 DEF q

\* A one-element chain is no prefix of a longer one's beginning.
LEMMA Singleton ==
  ASSUME NEW S, NEW x \in S
  PROVE  /\ Append(<<>>, x) = <<x>> /\ Len(<<x>>) = 1 /\ <<x>>[1] = x
         /\ \A n \in 1 .. Len(<<x>>) : SubSeq(<<x>>, 1, n) = <<x>>
<1>1. <<x>> \in Seq(S) /\ Len(<<x>>) = 1 /\ Append(<<>>, x) = <<x>>
  OBVIOUS
<1>2. SubSeq(<<x>>, 1, Len(<<x>>)) = <<x>>
  BY <1>1, SubSeqFull
<1> QED
  BY <1>1, <1>2

\* A set of numbers has a least one.
LEMMA LeastOf ==
  ASSUME NEW T \in SUBSET Nat, T # {}
  PROVE  \E n \in T : \A m \in T : n <= m
<1>1. PICK n \in T : \A m \in T : ~ (<<m, n>> \in OpToRel(<, Nat))
  BY NatLessThanWellFounded, WFMin
<1>2. \A m \in T : ~ (m < n)
  BY <1>1 DEF OpToRel
<1> QED
  BY <1>2

-----------------------------------------------------------------------------
(* Document IDs *)

LEMMA DocIdFits ==
  ASSUME RootTypeOK, Placed, NEW x \in Entries
  PROVE  /\ place[x].above \in Chains /\ place[x].name \in Segments
         /\ DocId(x) \in Chains /\ DocId(x) \in Seq(Entries) /\ DocId(x) # <<>>
         /\ Len(DocId(x)) = Len(place[x].above) + 1
         /\ Parent(DocId(x)) = place[x].above /\ Leaf(DocId(x)) = x
<1>1. place[x].above \in Chains /\ place[x].name \in Segments
  BY DEF RootTypeOK
<1>2. place[x].above \in Seq(Entries) /\ Len(place[x].above) \in Nat
  BY <1>1, ChainSeq, LenProperties
<1>3. /\ DocId(x) \in Seq(Entries) /\ DocId(x) # <<>>
      /\ Len(DocId(x)) = Len(place[x].above) + 1
      /\ Parent(DocId(x)) = place[x].above /\ Leaf(DocId(x)) = x
  BY <1>2, AppendParent, Zenon DEF DocId
<1>4. Len(DocId(x)) <= MaxDepth
  BY <1>2, <1>3, DepthAssumption DEF Placed
<1> QED
  BY <1>1, <1>3, <1>4, ChainSeq

\* What is neither a library nor the virtual root has two parts or more.
LEMMA NotTop ==
  ASSUME NEW S, NEW s \in Seq(S)
  PROVE  /\ Parent(s) # <<>> <=> Len(s) >= 2
         /\ ~ (Len(s) < 2) <=> Len(s) >= 2
<1>1. Len(s) \in Nat /\ (Len(s) = 0 <=> s = <<>>) /\ (s = <<>> => Parent(s) = <<>>)
  BY ParentSeq, Zenon
<1>2. s # <<>> => Len(Parent(s)) = Len(s) - 1 /\ (Len(Parent(s)) = 0 <=> Parent(s) = <<>>)
  BY ParentSeq, Zenon
<1> QED
  BY <1>1, <1>2

LEMMA NoIdIsNone == NoId \notin Chains
BY ChainSeq, KindAssumption

LEMMA SafeId ==
  ASSUME RootTypeOK, Placed, NEW l \in Libraries, place[l].above = <<>>
  PROVE  DocId(l) = <<l>> /\ Len(DocId(l)) = 1
BY Singleton DEF DocId, Entries

-----------------------------------------------------------------------------
(* Changes of the tree *)

LEMMA DeleteTypes ==
  ASSUME RootTypeOK, Placed, NEW id, DeleteDir(id)
  PROVE  /\ alive' \subseteq Entries /\ place' \in [Entries -> [above : Chains, name : Segments]]
         /\ Placed'
<1>1. ASSUME NEW x \in Entries
      PROVE  Nowhere \in [above : Chains, name : Segments] /\ Len(Nowhere.above) < MaxDepth
  <2>1. (CHOOSE n \in Segments : TRUE) \in Segments
    BY DocIdFits
  <2>2. <<>> \in Chains /\ Len(<<>>) = 0
    BY EmptyFits, EmptySeq
  <2>3. Nowhere \in [above : Chains, name : Segments] /\ Nowhere.above = <<>>
    BY <2>1, <2>2 DEF Nowhere
  <2> QED
    BY <2>2, <2>3, DepthAssumption
<1> DEFINE gone == {x \in alive : \E n \in 1 .. Len(DocId(x)) : SubSeq(DocId(x), 1, n) = id}
<1>2. alive' = alive \ gone /\ place' = [x \in Entries |-> IF x \in gone THEN Nowhere ELSE place[x]]
  BY DEF DeleteDir
<1> HIDE DEF gone
<1>3. \A x \in Entries : /\ place'[x] \in [above : Chains, name : Segments]
                         /\ Len(place'[x].above) < MaxDepth
  BY <1>1, <1>2 DEF RootTypeOK, Placed
<1> QED
  BY <1>2, <1>3 DEF RootTypeOK, Placed

\* A library goes only with its own ID.
LEMMA DeleteSafe ==
  ASSUME RootTypeOK, Placed, SafeLibraries, NEW id, DeleteDir(id),
         \A l \in Libraries : id # <<l>>
  PROVE  SafeLibraries'
<1> DEFINE gone == {x \in alive : \E n \in 1 .. Len(DocId(x)) : SubSeq(DocId(x), 1, n) = id}
<1>1. alive' = alive \ gone /\ place' = [x \in Entries |-> IF x \in gone THEN Nowhere ELSE place[x]]
  BY DEF DeleteDir
<1>2. ASSUME NEW l \in Libraries PROVE l \notin gone
  <2>1. DocId(l) = <<l>>
    BY SafeId DEF SafeLibraries
  <2>2. \A n \in 1 .. Len(<<l>>) : SubSeq(<<l>>, 1, n) = <<l>>
    BY Singleton
  <2> QED
    BY <2>1, <2>2
<1> HIDE DEF gone
<1> QED
  BY <1>1, <1>2 DEF SafeLibraries, Entries

LEMMA MoveKeeps ==
  ASSUME RootTypeOK, Placed, SafeLibraries, NEW id \in Chains, Len(id) >= 2,
         NEW to \in Chains, NEW name \in Segments, MoveDir(id, to, name)
  PROVE  /\ alive' \subseteq Entries /\ place' \in [Entries -> [above : Chains, name : Segments]]
         /\ Placed' /\ SafeLibraries'
<1>1. CASE UNCHANGED service
  BY <1>1 DEF service, RootTypeOK, Placed, SafeLibraries
<1>2. CASE ~ UNCHANGED service
  <2>1. /\ Resolves(id) /\ Len(to) < MaxDepth /\ UNCHANGED alive
        /\ place' = [place EXCEPT ![Leaf(id)] = [above |-> to, name |-> name]]
    BY <1>2 DEF MoveDir
  <2>2. id # <<>> /\ Len(id) \in Nat
    BY ChainSeq, ParentSeq
  <2>3. Leaf(id) \in Entries /\ DocId(Leaf(id)) = id
    BY <2>1, <2>2 DEF Resolves, RootTypeOK
  <2>4. Leaf(id) \notin Libraries
    <3> SUFFICES ASSUME NEW l \in Libraries, l = Leaf(id) PROVE FALSE
      OBVIOUS
    <3>1. Len(DocId(l)) = 1
      BY SafeId DEF SafeLibraries
    <3> QED
      BY <2>3, <3>1
  <2>5. /\ place' \in [Entries -> [above : Chains, name : Segments]]
        /\ \A x \in Entries : Len(place'[x].above) < MaxDepth
        /\ \A l \in Libraries : place'[l] = place[l]
    BY <2>1, <2>3, <2>4 DEF RootTypeOK, Placed, Entries
  <2> QED
    BY <2>1, <2>5 DEF RootTypeOK, Placed, SafeLibraries
<1> QED
  BY <1>1, <1>2

-----------------------------------------------------------------------------
(* Lookups of a call *)

\* Where the lookup starts, the names below, and the chains that have them.
Start == IF rootId = NoId THEN <<>> ELSE rootId

NamesBelow(path) == IF rootId = NoId THEN fsRoot \o path ELSE path

Matches(path) ==
    {id \in Chains : /\ Len(id) = Len(Start) + Len(NamesBelow(path))
                     /\ SubSeq(id, 1, Len(Start)) = Start
                     /\ \A i \in 1 .. Len(NamesBelow(path)) :
                          id[Len(Start) + i] \in
                              Found(SubSeq(id, 1, Len(Start) + i - 1), NamesBelow(path)[i])}

LEMMA LookupMatches ==
  ASSUME NEW path, Lookup(path) # NoId
  PROVE  Lookup(path) \in Matches(path)
<1>1. Lookup(path) = IF Matches(path) = {} THEN NoId ELSE CHOOSE id \in Matches(path) : TRUE
  BY DEF Lookup, Matches, Start, NamesBelow
<1> QED
  BY <1>1

LEMMA LookupExists ==
  ASSUME NEW path, NEW id \in Matches(path)
  PROVE  Lookup(path) # NoId
<1>1. Lookup(path) = IF Matches(path) = {} THEN NoId ELSE CHOOSE i \in Matches(path) : TRUE
  BY DEF Lookup, Matches, Start, NamesBelow
<1>2. Lookup(path) \in Matches(path)
  BY <1>1
<1> QED
  BY <1>2, NoIdIsNone DEF Matches

LEMMA LookupChain == \A path : Lookup(path) \in Chains \union {NoId}
BY LookupMatches DEF Matches

\* A root that is known is what the empty path names.
LEMMA LookupRoot ==
  ASSUME RootTypeOK, rootId # NoId, Lookup(<<>>) # NoId
  PROVE  Lookup(<<>>) = rootId
<1>1. PICK id \in Matches(<<>>) : id = Lookup(<<>>)
  BY LookupMatches
<1>2. Start = rootId /\ NamesBelow(<<>>) = <<>> /\ Len(<<>>) = 0
  BY DEF Start, NamesBelow
<1>3. /\ id \in Seq(Entries) /\ Len(id) = Len(rootId) + 0 /\ SubSeq(id, 1, Len(rootId)) = rootId
      /\ rootId \in Seq(Entries)
  BY <1>1, <1>2, ChainSeq DEF Matches, RootTypeOK
<1>4. Len(id) = Len(rootId)
  BY <1>3, LenProperties
<1> QED
  BY <1>1, <1>3, <1>4, SubSeqFull

\* What is at a path has a parent at the path's parent.
LEMMA LookupParent ==
  ASSUME RootTypeOK, NEW path \in Paths, path # <<>>, Lookup(path) # NoId
  PROVE  /\ Lookup(Parent(path)) # NoId
         /\ Len(Lookup(path)) = Len(Lookup(Parent(path))) + 1
<1> DEFINE id == Lookup(path)
<1>1. id \in Matches(path)
  BY LookupMatches
<1>2. Start \in Seq(Entries) /\ Len(Start) \in Nat
  <2>1. Start \in Chains
    BY EmptyFits DEF Start, RootTypeOK
  <2> QED
    BY <2>1, ChainSeq, LenProperties
<1>3. /\ path \in Seq(Segments) /\ Parent(path) \in Seq(Segments)
      /\ fsRoot \in Seq(Segments) /\ Len(path) \in Nat /\ Len(fsRoot) \in Nat
      /\ Len(Parent(path)) = Len(path) - 1 /\ Len(path) # 0
      /\ \A i \in 1 .. Len(path) - 1 : Parent(path)[i] = path[i]
  <2>1. path \in Seq(Segments) /\ fsRoot \in Seq(Segments)
    BY PathSeq DEF RootTypeOK
  <2>2. Parent(path) \in Seq(Segments) /\ Len(path) \in Nat /\ Len(fsRoot) \in Nat
    BY <2>1, ParentSeq, Zenon
  <2>3. /\ Len(Parent(path)) = Len(path) - 1
        /\ \A i \in 1 .. Len(path) - 1 : Parent(path)[i] = path[i]
    BY <2>1, ParentSeq, Zenon
  <2>4. Len(path) # 0
    BY <2>1, EmptySeq
  <2> QED
    BY <2>1, <2>2, <2>3, <2>4
<1>4. /\ Len(NamesBelow(path)) \in Nat \ {0} /\ Len(NamesBelow(Parent(path))) = Len(NamesBelow(path)) - 1
      /\ \A i \in 1 .. Len(NamesBelow(path)) - 1 : NamesBelow(Parent(path))[i] = NamesBelow(path)[i]
  <2>1. CASE rootId = NoId
    <3>1. /\ Len(fsRoot \o path) = Len(fsRoot) + Len(path)
          /\ \A i \in 1 .. Len(fsRoot) + Len(path) :
               (fsRoot \o path)[i] = IF i <= Len(fsRoot) THEN fsRoot[i] ELSE path[i - Len(fsRoot)]
      BY <1>3, ConcatProperties
    <3>2. /\ Len(fsRoot \o Parent(path)) = Len(fsRoot) + Len(Parent(path))
          /\ \A i \in 1 .. Len(fsRoot) + Len(Parent(path)) :
               (fsRoot \o Parent(path))[i] =
                   IF i <= Len(fsRoot) THEN fsRoot[i] ELSE Parent(path)[i - Len(fsRoot)]
      BY <1>3, ConcatProperties
    <3>3. /\ Len(fsRoot \o path) \in Nat \ {0}
          /\ Len(fsRoot \o Parent(path)) = Len(fsRoot \o path) - 1
      BY <1>3, <3>1, <3>2
    <3>4. ASSUME NEW i \in 1 .. Len(fsRoot \o path) - 1
          PROVE  (fsRoot \o Parent(path))[i] = (fsRoot \o path)[i]
      <4>1. CASE i <= Len(fsRoot)
        BY <1>3, <3>1, <3>2, <4>1
      <4>2. CASE ~ (i <= Len(fsRoot))
        <5>1. i - Len(fsRoot) \in 1 .. Len(path) - 1
          BY <1>3, <3>1, <4>2
        <5>2. Parent(path)[i - Len(fsRoot)] = path[i - Len(fsRoot)]
          BY <1>3, <5>1, Zenon
        <5>3. (fsRoot \o path)[i] = path[i - Len(fsRoot)]
          BY <1>3, <3>1, <4>2
        <5>4. (fsRoot \o Parent(path))[i] = Parent(path)[i - Len(fsRoot)]
          BY <1>3, <3>1, <3>2, <4>2
        <5> QED
          BY <5>2, <5>3, <5>4, Zenon
      <4> QED
        BY <4>1, <4>2
    <3> QED
      BY <2>1, <3>3, <3>4 DEF NamesBelow
  <2>2. CASE rootId # NoId
    BY <1>3, <2>2 DEF NamesBelow
  <2> QED
    BY <2>1, <2>2
<1> DEFINE m == Len(Start)
           n == Len(NamesBelow(path))
<1>5. /\ id \in Chains /\ id \in Seq(Entries) /\ Len(id) = m + n /\ id # <<>>
      /\ m \in Nat /\ n \in Nat \ {0}
      /\ SubSeq(id, 1, m) = Start
      /\ \A i \in 1 .. n : id[m + i] \in Found(SubSeq(id, 1, m + i - 1), NamesBelow(path)[i])
  <2>1. /\ id \in Chains /\ id \in Seq(Entries) /\ Len(id) = m + n
        /\ SubSeq(id, 1, m) = Start
        /\ \A i \in 1 .. n : id[m + i] \in Found(SubSeq(id, 1, m + i - 1), NamesBelow(path)[i])
    BY <1>1, ChainSeq DEF Matches
  <2>2. Len(id) # 0
    BY <1>2, <1>4, <2>1
  <2> QED
    BY <1>2, <1>4, <2>1, <2>2, EmptySeq
<1>6. /\ Parent(id) \in Chains /\ Parent(id) \in Seq(Entries)
      /\ Len(Parent(id)) = m + n - 1
      /\ \A i \in 1 .. m + n - 1 : Parent(id)[i] = id[i]
  <2>1. /\ Parent(id) \in Seq(Entries) /\ Len(Parent(id)) = Len(id) - 1
        /\ \A i \in 1 .. Len(id) - 1 : Parent(id)[i] = id[i]
    BY <1>5, ParentSeq, Zenon
  <2> QED
    BY <1>5, <2>1, ParentFits
<1> HIDE DEF id, m, n
<1>7. ASSUME NEW k \in 0 .. m + n - 1
      PROVE  SubSeq(Parent(id), 1, k) = SubSeq(id, 1, k)
  <2>1. k \in 0 .. Len(id) - 1
    BY <1>5
  <2> QED
    BY <1>5, <2>1, ParentPrefix
<1>8. Parent(id) \in Matches(Parent(path))
  <2>1. Len(Parent(id)) = Len(Start) + Len(NamesBelow(Parent(path)))
    BY <1>4, <1>5, <1>6 DEF m, n
  <2>2. SubSeq(Parent(id), 1, Len(Start)) = Start
    <3>1. m \in 0 .. m + n - 1
      BY <1>5
    <3> QED
      BY <1>5, <1>7, <3>1 DEF m
  <2>3. ASSUME NEW i \in 1 .. n - 1
        PROVE  Parent(id)[m + i] \in Found(SubSeq(Parent(id), 1, m + i - 1), NamesBelow(Parent(path))[i])
    <3>1. /\ i \in 1 .. n /\ m + i \in 1 .. m + n - 1 /\ m + i - 1 \in 0 .. m + n - 1
      BY <1>5
    <3>2. id[m + i] \in Found(SubSeq(id, 1, m + i - 1), NamesBelow(path)[i])
      BY <1>5, <3>1
    <3>3. NamesBelow(Parent(path))[i] = NamesBelow(path)[i]
      BY <1>4 DEF n
    <3> QED
      BY <1>6, <1>7, <3>1, <3>2, <3>3, Zenon
  <2>4. Len(NamesBelow(Parent(path))) = n - 1
    BY <1>4 DEF n
  <2> QED
    BY <1>6, <2>1, <2>2, <2>3, <2>4 DEF Matches, m
<1>9. Lookup(Parent(path)) \in Matches(Parent(path)) /\ Lookup(Parent(path)) # NoId
  BY <1>8, LookupExists, LookupMatches
<1>10. Len(Lookup(Parent(path))) = m + (n - 1)
  BY <1>4, <1>9 DEF Matches, m, n
<1> QED
  BY <1>5, <1>9, <1>10 DEF id

\* The parent of the root is known whichever way the root was found.
LEMMA ProtectsRoot ==
  ASSUME RootTypeOK, KnowsParent, fsRoot # <<>>, Lookup(<<>>) # NoId, RootParent # <<>>
  PROVE  Len(Lookup(<<>>)) >= 2
<1>1. Lookup(<<>>) \in Chains /\ Lookup(<<>>) \in Seq(Entries)
  BY LookupChain, ChainSeq
<1>2. Parent(Lookup(<<>>)) # <<>>
  BY LookupRoot DEF RootParent, KnowsParent
<1> QED
  BY <1>1, <1>2, NotTop

-----------------------------------------------------------------------------
(* NewFs keeps the invariant *)

LEMMA InitLib == RootInit => LibInv
<1> SUFFICES ASSUME RootInit PROVE LibInv
  OBVIOUS
<1>1. 0 \in 0 .. MaxFailures /\ 0 \in 0 .. MaxOthers /\ 0 \in 0 .. MaxDepth /\ MaxDepth \in Nat
  BY DepthAssumption
<1>2. <<>> \in Chains /\ <<>> \in Paths /\ Len(<<>>) = 0
  BY EmptyFits, EmptySeq
<1>3. ASSUME NEW x \in Entries
      PROVE  place[x].above \in Chains /\ place[x].name \in Segments /\ Len(place[x].above) < MaxDepth
  <2>1. place[x] \in [above : {<<>>} \union {<<l>> : l \in Libraries} \union (Libraries \X Dirs),
                      name : Segments]
    BY DEF RootInit
  <2>2. CASE place[x].above = <<>>
    BY <1>2, <2>1, <2>2, DepthAssumption
  <2>3. CASE place[x].above \in {<<l>> : l \in Libraries}
    <3>1. PICK l \in Libraries : place[x].above = <<l>>
      BY <2>3
    <3>2. <<l>> \in Seq(Entries) /\ Len(<<l>>) = 1
      BY DEF Entries
    <3>3. 1 <= MaxDepth /\ 1 < MaxDepth
      BY DepthAssumption
    <3>4. place[x].above \in Chains /\ Len(place[x].above) < MaxDepth
      BY <3>1, <3>2, <3>3, ChainSeq
    <3> QED
      BY <2>1, <3>4
  <2>4. CASE place[x].above \in Libraries \X Dirs
    <3>1. PICK l \in Libraries, d \in Dirs : place[x].above = <<l, d>>
      BY <2>4
    <3>2. <<l, d>> \in Seq(Entries) /\ Len(<<l, d>>) = 2
      BY DEF Entries
    <3>3. 2 <= MaxDepth /\ 2 < MaxDepth
      BY DepthAssumption
    <3>4. place[x].above \in Chains /\ Len(place[x].above) < MaxDepth
      BY <3>1, <3>2, <3>3, ChainSeq
    <3> QED
      BY <2>1, <3>4
  <2> QED
    BY <2>1, <2>2, <2>3, <2>4
<1>4. place \in [Entries -> [above : Chains, name : Segments]]
  <2>1. DOMAIN place = Entries /\ place = [x \in Entries |-> place[x]]
    BY DEF RootInit
  <2>2. ASSUME NEW x \in Entries PROVE place[x] \in [above : Chains, name : Segments]
    <3>1. place[x] = [above |-> place[x].above, name |-> place[x].name]
      BY DEF RootInit
    <3> QED
      BY <1>3, <3>1
  <2> QED
    BY <2>1, <2>2
<1>5. RootTypeOK
  BY <1>1, <1>2, <1>4 DEF RootInit, RootTypeOK
<1>6. SafeLibraries
  BY DEF RootInit, WellFormed, SafeLibraries
<1>7. Walking
  BY <1>1, <1>2 DEF RootInit, Walking
<1> QED
  BY <1>3, <1>5, <1>6, <1>7 DEF RootInit, LibInv, Placed, BeforeCall, KnowsParent, LibrariesKept,
     SafeLibraries

\* A step that leaves the tree alone keeps what is said of the tree.
LEMMA TreeKept ==
  ASSUME LibInv, at # "done", UNCHANGED <<service, op>>
  PROVE  Placed' /\ BeforeCall' /\ LibrariesKept' /\ WellFormed' /\ SafeLibraries'
<1>1. WellFormed' /\ SafeLibraries' /\ Placed'
  BY DEF LibInv, BeforeCall, service, WellFormed, SafeLibraries, DocId, Placed
<1>2. op' = "none"
  BY DEF LibInv, BeforeCall
<1> QED
  BY <1>1, <1>2 DEF BeforeCall, LibrariesKept, SafeLibraries

\* Of the files that the service answers with, none is a library.
LEMMA FileParent ==
  ASSUME LibInv, at # "done", NEW x \in alive, x \in Files
  PROVE  /\ x \in Entries /\ x \notin Folders
         /\ ParentDocID(DocId(x)) = place[x].above /\ place[x].above # <<>>
<1>1. x \in Entries /\ x \notin Libraries /\ x \notin Folders
  BY KindAssumption DEF Entries, Folders
<1>2. place[x].above # <<>>
  BY <1>1 DEF LibInv, BeforeCall, WellFormed
<1>3. /\ DocId(x) \in Seq(Entries) /\ Parent(DocId(x)) = place[x].above
  BY <1>1, DocIdFits DEF LibInv
<1>4. ~ (Len(DocId(x)) < 2)
  BY <1>2, <1>3, NotTop
<1> QED
  BY <1>1, <1>2, <1>3, <1>4 DEF ParentDocID

LEMMA FailureFits ==
  ASSUME RootTypeOK, Failure
  PROVE  failures' \in 0 .. MaxFailures /\ failures' > 0
<1>1. failures \in 0 .. MaxFailures /\ MaxFailures \in Nat
  BY DepthAssumption DEF RootTypeOK
<1> QED
  BY <1>1 DEF Failure

\* The Fs has as many parts in its ID as in its path, and knows its parent.
LEMMA RootFits ==
  ASSUME NEW path \in Paths, NEW id \in Chains, Len(path) = Len(id), Root(path, id)
  PROVE  /\ fsRoot' \in Paths /\ rootId' \in Chains /\ parentId' \in Chains \union {NoId}
         /\ Len(rootId') = Len(fsRoot') /\ KnowsParent'
BY ParentFits DEF Root, KnowsParent, Parent

LEMMA PointLookupKeeps == LibInv /\ PointLookup => LibInv'
<1> SUFFICES ASSUME LibInv, PointLookup PROVE LibInv'
  OBVIOUS
<1> USE DEF LibInv
<1>1. Placed' /\ BeforeCall' /\ LibrariesKept' /\ at = "point"
  BY TreeKept DEF PointLookup
<1>2. alive' \subseteq Entries /\ place' \in [Entries -> [above : Chains, name : Segments]]
      /\ root' = root /\ root \in Paths /\ op' = op /\ others' = others
  BY DEF PointLookup, service, RootTypeOK
<1>3. CASE /\ \E x \in Asked(root) :
               \/ x \in Folders /\ Seeds(root, DocId(x))
                    /\ Root(root, DocId(x)) /\ Returns("folder")
               \/ x \in Files /\ Seeds(Parent(root), ParentDocID(DocId(x))) /\ RootOfFile(x)
           /\ UNCHANGED <<walk, failures>>
  <2>1. PICK x \in Asked(root) :
               \/ x \in Folders /\ Seeds(root, DocId(x))
                    /\ Root(root, DocId(x)) /\ Returns("folder")
               \/ x \in Files /\ Seeds(Parent(root), ParentDocID(DocId(x))) /\ RootOfFile(x)
    BY <1>3
  <2>2. x \in alive /\ x \in Entries
    BY DEF Asked, RootTypeOK
  <2>3. /\ at' = "ready" /\ result' \in {"folder", "file"}
        /\ fsRoot' \in Paths /\ rootId' \in Chains /\ parentId' \in Chains \union {NoId}
        /\ Len(rootId') = Len(fsRoot') /\ KnowsParent'
    <3>1. CASE x \in Folders /\ Seeds(root, DocId(x)) /\ Root(root, DocId(x)) /\ Returns("folder")
      BY <1>2, <2>2, <3>1, DocIdFits, RootFits DEF Seeds, Returns
    <3>2. CASE x \in Files /\ Seeds(Parent(root), ParentDocID(DocId(x))) /\ RootOfFile(x)
      <4>1. ParentDocID(DocId(x)) = place[x].above /\ place[x].above \in Chains
        BY <1>1, <2>2, <3>2, FileParent, DocIdFits
      <4>2. Parent(root) \in Paths
        BY <1>2, ParentFits
      <4> QED
        BY <3>2, <4>1, <4>2, RootFits DEF Seeds, RootOfFile, Returns
    <3> QED
      BY <2>1, <3>1, <3>2
  <2>4. RootTypeOK'
    BY <1>2, <1>3, <2>3 DEF RootTypeOK
  <2>5. Walking'
    BY <1>3, <2>3 DEF Walking
  <2> QED
    BY <1>1, <2>3, <2>4, <2>5
<1>4. CASE /\ failures' \in 0 .. MaxFailures
           /\ walk' = [path |-> root, n |-> 0, id |-> <<>>]
           /\ at' = "walk" /\ UNCHANGED <<fsVars, result>>
  <2>1. 0 \in 0 .. MaxDepth /\ <<>> \in Chains /\ Len(<<>>) = 0 /\ Len(root) \in Nat
    BY <1>2, EmptyFits, EmptySeq, PathSeq, LenProperties, DepthAssumption
  <2>2. walk' \in [path : Paths, n : 0 .. MaxDepth, id : Chains]
    BY <1>2, <1>4, <2>1
  <2>3. RootTypeOK'
    BY <1>2, <1>4, <2>2 DEF RootTypeOK, fsVars
  <2>4. Walking'
    BY <1>2, <1>4, <2>1 DEF Walking
  <2>5. KnowsParent'
    BY <1>4 DEF KnowsParent, fsVars
  <2> QED
    BY <1>1, <2>3, <2>4, <2>5
<1>5. failures \in 0 .. MaxFailures /\ (Failure => failures' \in 0 .. MaxFailures)
  BY FailureFits DEF RootTypeOK
<1> QED
  BY <1>3, <1>4, <1>5 DEF PointLookup, Goto

LEMMA WalkOnKeeps == LibInv /\ WalkOn => LibInv'
<1> SUFFICES ASSUME LibInv, WalkOn PROVE LibInv'
  OBVIOUS
<1> USE DEF LibInv
<1>1. Placed' /\ BeforeCall' /\ LibrariesKept' /\ at \in {"walk", "parent"}
  BY TreeKept DEF WalkOn
<1>2. PICK x \in Found(walk.id, walk.path[walk.n + 1]) :
        walk' = [walk EXCEPT !.n = @ + 1, !.id = DocId(x)]
  BY DEF WalkOn
<1>3. x \in Entries /\ place[x].above = walk.id
  BY DEF Found, Children, RootTypeOK
<1>4. DocId(x) \in Chains /\ Len(DocId(x)) = Len(walk.id) + 1
  BY <1>3, DocIdFits
<1>5. /\ walk \in [path : Paths, n : 0 .. MaxDepth, id : Chains]
      /\ walk.n < Len(walk.path) /\ Len(walk.path) \in Nat /\ Len(walk.path) <= MaxDepth
  BY PathSeq, LenProperties DEF RootTypeOK, WalkOn
<1>6. walk.n + 1 \in 0 .. MaxDepth /\ walk.n + 1 <= Len(walk.path)
  BY <1>5, DepthAssumption
<1>7. /\ walk' \in [path : Paths, n : 0 .. MaxDepth, id : Chains]
      /\ walk'.path = walk.path /\ walk'.n = walk.n + 1 /\ walk'.id = DocId(x)
  BY <1>2, <1>4, <1>5, <1>6
<1>8. RootTypeOK' /\ KnowsParent'
  BY <1>7 DEF RootTypeOK, WalkOn, service, fsVars, KnowsParent
<1>9. Walking'
  BY <1>1, <1>4, <1>6, <1>7 DEF Walking, WalkOn
<1> QED
  BY <1>1, <1>8, <1>9

LEMMA WalkFailsKeeps == LibInv /\ WalkFails => LibInv'
<1> SUFFICES ASSUME LibInv, WalkFails PROVE LibInv'
  OBVIOUS
<1> USE DEF LibInv
<1>1. Placed' /\ BeforeCall' /\ LibrariesKept' /\ at \in {"walk", "parent"}
  BY TreeKept DEF WalkFails
<1>2. failures' \in 0 .. MaxFailures
  BY FailureFits DEF WalkFails, RootTypeOK
<1>3. /\ walk.n < Len(walk.path) /\ root \in Paths /\ Parent(root) \in Paths
      /\ UNCHANGED <<service, fsVars, root, op, others>>
  BY ParentFits DEF RootTypeOK, WalkFails
<1>4. <<>> \in Chains /\ Len(<<>>) = 0 /\ 0 \in 0 .. MaxDepth
  BY EmptyFits, EmptySeq, DepthAssumption
<1>5. KnowsParent'
  BY <1>3 DEF KnowsParent, fsVars
<1>6. CASE at = "walk"
  <2>1. /\ walk' = [path |-> Parent(root), n |-> 0, id |-> <<>>]
        /\ at' = "parent" /\ UNCHANGED result
    BY <1>6 DEF WalkFails, Goto
  <2>2. walk' \in [path : Paths, n : 0 .. MaxDepth, id : Chains]
    BY <1>3, <1>4, <2>1
  <2>3. RootTypeOK'
    BY <1>2, <1>3, <2>1, <2>2 DEF RootTypeOK, service, fsVars
  <2>4. root # <<>>
    <3>1. walk.n \in 0 .. MaxDepth /\ walk.n < Len(root)
      BY <1>3, <1>6 DEF Walking, RootTypeOK
    <3>2. Len(root) # 0
      BY <3>1, DepthAssumption
    <3> QED
      BY <1>4, <3>2
  <2>5. Len(Parent(root)) \in Nat
    BY <1>3, PathSeq, LenProperties
  <2>6. Walking'
    BY <1>3, <1>4, <2>1, <2>4, <2>5 DEF Walking
  <2> QED
    BY <1>1, <1>5, <2>3, <2>6
<1>7. CASE at # "walk"
  <2>1. at' = "ready" /\ result' = "later" /\ UNCHANGED walk
    BY <1>7 DEF WalkFails, Returns
  <2>2. RootTypeOK'
    BY <1>2, <1>3, <2>1 DEF RootTypeOK, service, fsVars
  <2>3. Walking'
    BY <1>3, <2>1 DEF Walking
  <2> QED
    BY <1>1, <1>5, <2>2, <2>3
<1> QED
  BY <1>6, <1>7

LEMMA WalkEndsKeeps == LibInv /\ WalkEnds => LibInv'
<1> SUFFICES ASSUME LibInv, WalkEnds PROVE LibInv'
  OBVIOUS
<1> USE DEF LibInv
<1>1. Placed' /\ BeforeCall' /\ LibrariesKept' /\ at \in {"walk", "parent"}
  BY TreeKept DEF WalkEnds
<1>2. /\ walk.n = Len(walk.path) /\ Len(walk.id) = walk.n /\ walk.id \in Chains
      /\ root \in Paths
      /\ UNCHANGED <<service, root, walk, op, failures, others>>
  BY DEF WalkEnds, RootTypeOK, Walking
<1>3. CASE at = "walk"
  <2>1. Root(root, walk.id) /\ at' = "ready" /\ result' = "folder" /\ Len(root) = Len(walk.id)
    BY <1>2, <1>3 DEF WalkEnds, Returns, Walking
  <2>2. /\ fsRoot' \in Paths /\ rootId' \in Chains /\ parentId' \in Chains \union {NoId}
        /\ Len(rootId') = Len(fsRoot') /\ KnowsParent'
    BY <1>2, <2>1, RootFits
  <2>3. RootTypeOK'
    BY <1>2, <2>1, <2>2 DEF RootTypeOK, service
  <2>4. Walking'
    BY <1>2, <2>1 DEF Walking
  <2> QED
    BY <1>1, <2>2, <2>3, <2>4
<1>4. CASE at # "walk"
  <2>1. at' = "object" /\ UNCHANGED <<fsVars, result>> /\ at = "parent"
    BY <1>1, <1>4 DEF WalkEnds, Goto
  <2>2. RootTypeOK' /\ KnowsParent'
    BY <1>2, <2>1 DEF RootTypeOK, service, fsVars, KnowsParent
  <2>3. Walking'
    BY <1>2, <2>1 DEF Walking
  <2> QED
    BY <1>1, <2>2, <2>3
<1> QED
  BY <1>3, <1>4

\* Both ways to look for an object in the parent.
LEMMA ObjectKeeps == LibInv /\ (PointObject \/ ListedObject) => LibInv'
<1> SUFFICES ASSUME LibInv, PointObject \/ ListedObject PROVE LibInv'
  OBVIOUS
<1> USE DEF LibInv
<1>1. Placed' /\ BeforeCall' /\ LibrariesKept' /\ at \in {"object", "listing"}
  BY TreeKept DEF PointObject, ListedObject
<1>2. /\ Len(walk.path) = Len(walk.id) /\ walk.path = Parent(root) /\ walk.id \in Chains
      /\ root \in Paths /\ Parent(root) \in Paths /\ root # <<>> /\ walk.n = Len(walk.path)
  BY <1>1, ParentFits DEF RootTypeOK, Walking
<1>3. UNCHANGED <<service, root, walk, op, others>> /\ failures' \in 0 .. MaxFailures
  BY FailureFits DEF PointObject, ListedObject, RootTypeOK
<1>4. CASE Root(Parent(root), walk.id) /\ Returns("file")
  <2>1. /\ fsRoot' \in Paths /\ rootId' \in Chains /\ parentId' \in Chains \union {NoId}
        /\ Len(rootId') = Len(fsRoot') /\ KnowsParent'
    BY <1>2, <1>4, RootFits
  <2>2. RootTypeOK'
    BY <1>3, <1>4, <2>1 DEF RootTypeOK, service, Returns
  <2>3. Walking'
    BY <1>3, <1>4 DEF Walking, Returns
  <2> QED
    BY <1>1, <2>1, <2>2, <2>3
<1>5. CASE /\ UNCHANGED fsVars /\ at' \in {"ready", "listing", "done"}
           /\ result' \in {result, "later", "error"}
  <2>1. RootTypeOK' /\ KnowsParent'
    BY <1>3, <1>5 DEF RootTypeOK, service, fsVars, KnowsParent
  <2>2. Walking'
    BY <1>2, <1>3, <1>5 DEF Walking
  <2> QED
    BY <1>1, <2>1, <2>2
<1> QED
  BY <1>4, <1>5 DEF PointObject, ListedObject, Returns, NoFs, Goto

-----------------------------------------------------------------------------
(* Other clients and the call on the Fs *)

\* What is left of a tree without a folder and all below it is a tree.
LEMMA DeleteWell ==
  ASSUME LibInv, at # "done", NEW id, DeleteDir(id)
  PROVE  WellFormed'
<1> DEFINE gone == {x \in alive : \E n \in 1 .. Len(DocId(x)) : SubSeq(DocId(x), 1, n) = id}
<1>1. alive' = alive \ gone /\ place' = [x \in Entries |-> IF x \in gone THEN Nowhere ELSE place[x]]
  BY DEF DeleteDir
<1>2. WellFormed /\ alive \subseteq Entries /\ RootTypeOK /\ Placed
  BY DEF LibInv, BeforeCall, RootTypeOK
<1>3. ASSUME NEW y \in alive, place[y].above # <<>>, Leaf(place[y].above) \in gone
      PROVE  y \in gone
  <2> DEFINE above == place[y].above
  <2>1. /\ DocId(y) \in Seq(Entries) /\ DocId(y) # <<>> /\ Parent(DocId(y)) = above
        /\ Len(DocId(y)) = Len(above) + 1 /\ above \in Seq(Entries)
    BY <1>2, DocIdFits, ChainSeq
  <2>2. DocId(Leaf(above)) = above
    BY <1>2, <1>3 DEF WellFormed
  <2>3. PICK n \in 1 .. Len(above) : SubSeq(above, 1, n) = id
    BY <1>3, <2>2
  <2>4. Len(above) \in Nat
    BY <2>1, LenProperties
  <2>5. n \in 0 .. Len(DocId(y)) - 1 /\ n \in 1 .. Len(DocId(y))
    BY <2>1, <2>4
  <2>6. SubSeq(DocId(y), 1, n) = id
    BY <2>1, <2>3, <2>5, ParentPrefix
  <2> QED
    BY <2>5, <2>6
<1> HIDE DEF gone
<1>4. \A x \in alive' : x \in alive /\ x \in Entries /\ x \notin gone /\ place'[x] = place[x]
  BY <1>1, <1>2
<1>5. \A x \in alive' : DocId(x)' = DocId(x)
  BY <1>4 DEF DocId
<1>6. ASSUME NEW x \in alive', NEW above, above = place[x].above
      PROVE  /\ place'[x].above = above
             /\ x \in Libraries <=> above = <<>>
             /\ above # <<>> => /\ Leaf(above) \in alive' \intersect Folders
                                /\ DocId(Leaf(above))' = above
  <2>1. place'[x] = place[x] /\ x \in alive /\ x \notin gone
    BY <1>4
  <2>2. x \in Libraries <=> above = <<>>
    BY <1>2, <1>6, <2>1 DEF WellFormed
  <2>3. ASSUME above # <<>>
        PROVE  Leaf(above) \in alive' \intersect Folders /\ DocId(Leaf(above))' = above
    <3>1. Leaf(above) \in alive \intersect Folders /\ DocId(Leaf(above)) = above
      BY <1>2, <1>6, <2>1, <2>3 DEF WellFormed
    <3>2. Leaf(above) \notin gone
      BY <1>3, <1>6, <2>1, <2>3
    <3>3. Leaf(above) \in alive'
      BY <1>1, <3>1, <3>2
    <3> QED
      BY <1>5, <3>1, <3>3
  <2> QED
    BY <1>6, <2>1, <2>2, <2>3
<1>7. \A x, y \in alive' : place'[x] = place'[y] => x = y
  <2>1. \A x, y \in alive : place[x] = place[y] => x = y
    BY <1>2 DEF WellFormed
  <2> QED
    BY <1>4, <2>1
<1> QED
  BY <1>6, <1>7 DEF WellFormed

LEMMA OthersKeep == LibInv /\ OtherClients => LibInv'
<1> SUFFICES ASSUME LibInv, OtherClients PROVE LibInv'
  OBVIOUS
<1>1. RootTypeOK /\ Placed /\ SafeLibraries /\ op = "none" /\ at \notin {"ready", "done"}
  BY DEF LibInv, BeforeCall, OtherClients
<1>2. UNCHANGED <<fsVars, root, at, walk, result, op, failures>>
  BY DEF OtherClients
<1>3. others' \in 0 .. MaxOthers
  <2>1. others \in 0 .. MaxOthers /\ MaxOthers \in Nat
    BY DepthAssumption DEF LibInv, RootTypeOK
  <2> QED
    BY <2>1 DEF OtherClients
<1>4. /\ alive' \subseteq Entries /\ place' \in [Entries -> [above : Chains, name : Segments]]
      /\ Placed' /\ WellFormed' /\ SafeLibraries'
  <2>1. PICK x \in Dirs \union Files :
         \/ /\ \A y \in alive : x \notin {place[y].above[i] : i \in DOMAIN place[y].above}
            /\ \E p \in [above : {DocId(y) : y \in alive \intersect Folders}, name : Segments] :
                 place' = [place EXCEPT ![x] = p]
            /\ alive' = alive \union {x}
            /\ WellFormed' /\ Len(place'[x].above) < MaxDepth
         \/ x \in alive /\ DeleteDir(DocId(x))
    BY DEF OtherClients
  <2>2. x \in Entries /\ x \notin Libraries
    BY KindAssumption DEF Entries
  <2>3. CASE /\ \E p \in [above : {DocId(y) : y \in alive \intersect Folders}, name : Segments] :
                  place' = [place EXCEPT ![x] = p]
             /\ alive' = alive \union {x}
             /\ WellFormed' /\ Len(place'[x].above) < MaxDepth
    <3>1. PICK p \in [above : {DocId(y) : y \in alive \intersect Folders}, name : Segments] :
            place' = [place EXCEPT ![x] = p]
      BY <2>3
    <3>2. p \in [above : Chains, name : Segments]
      <4>1. \A y \in alive : DocId(y) \in Chains
        BY <1>1, DocIdFits DEF RootTypeOK
      <4> QED
        BY <4>1
    <3>3. place' \in [Entries -> [above : Chains, name : Segments]]
      BY <1>1, <3>1, <3>2 DEF RootTypeOK
    <3>4. \A y \in Entries : y # x => place'[y] = place[y]
      BY <1>1, <3>1 DEF RootTypeOK
    <3>5. Placed' /\ SafeLibraries' /\ alive' \subseteq Entries
      BY <1>1, <2>2, <2>3, <3>4 DEF Placed, SafeLibraries, RootTypeOK, Entries
    <3> QED
      BY <2>3, <3>3, <3>5
  <2>4. CASE x \in alive /\ DeleteDir(DocId(x))
    <3>1. ASSUME NEW l \in Libraries PROVE DocId(x) # <<l>>
      <4>1. Leaf(DocId(x)) = x
        BY <1>1, <2>2, DocIdFits
      <4>2. Leaf(<<l>>) = l
        BY DEF Leaf
      <4> QED
        BY <2>2, <4>1, <4>2
    <3>2. SafeLibraries'
      BY <1>1, <2>4, <3>1, DeleteSafe
    <3> QED
      BY <1>1, <2>4, <3>2, DeleteTypes, DeleteWell
  <2> QED
    BY <2>1, <2>3, <2>4
<1>5. RootTypeOK'
  BY <1>1, <1>2, <1>3, <1>4 DEF RootTypeOK, fsVars
<1>6. KnowsParent' /\ Walking'
  BY <1>2 DEF LibInv, KnowsParent, Walking, fsVars
<1> QED
  BY <1>1, <1>2, <1>4, <1>5, <1>6 DEF LibInv, BeforeCall, LibrariesKept, SafeLibraries

\* Whatever the call does to the tree, it is the last step.
LEMMA CallKeeps ==
  ASSUME LibInv, NEW name, Call(name),
         name \in {"purge", "rmdir root", "rmdir", "sync-delete-dir", "dirmove", "sync-move"},
         alive' \subseteq Entries, place' \in [Entries -> [above : Chains, name : Segments]],
         Placed', name # "rmdir" => SafeLibraries', UNCHANGED others
  PROVE  LibInv'
<1>1. RootTypeOK'
  BY DEF LibInv, RootTypeOK, Call, fsVars
<1>2. BeforeCall' /\ KnowsParent' /\ Walking'
  BY DEF LibInv, BeforeCall, KnowsParent, Walking, Call, fsVars
<1>3. LibrariesKept'
  BY DEF LibrariesKept, SafeLibraries, Call
<1> QED
  BY <1>1, <1>2, <1>3 DEF LibInv

LEMMA ServiceStays ==
  ASSUME LibInv, at # "done", UNCHANGED service
  PROVE  /\ alive' \subseteq Entries /\ place' \in [Entries -> [above : Chains, name : Segments]]
         /\ Placed' /\ SafeLibraries'
BY DEF LibInv, BeforeCall, RootTypeOK, Placed, SafeLibraries, service

\* An ID of two parts or more may go.
LEMMA DeleteLong ==
  ASSUME LibInv, at # "done", NEW id, DeleteDir(id), Len(id) >= 2
  PROVE  /\ alive' \subseteq Entries /\ place' \in [Entries -> [above : Chains, name : Segments]]
         /\ Placed' /\ SafeLibraries'
<1>1. RootTypeOK /\ Placed /\ SafeLibraries
  BY DEF LibInv, BeforeCall
<1>2. ASSUME NEW l \in Libraries, id = <<l>> PROVE FALSE
  <2>1. Len(<<l>>) = 1
    OBVIOUS
  <2> QED
    BY <1>2, <2>1
<1> QED
  BY <1>1, <1>2, DeleteTypes, DeleteSafe

LEMMA BelowFits ==
  ASSUME RootTypeOK, NEW path \in Below
  PROVE  /\ path \in Paths /\ path \in Seq(Segments) /\ fsRoot \in Seq(Segments)
         /\ path # <<>> => Leaf(path) \in Segments
         /\ Parent(path) \in Paths
         /\ path = <<>> /\ path \o fsRoot # <<>> => fsRoot # <<>>
<1>1. path \in Paths /\ path \in Seq(Segments) /\ fsRoot \in Seq(Segments)
  BY PathSeq DEF Below, RootTypeOK
<1>2. path # <<>> => Leaf(path) \in Segments
  BY <1>1, ParentSeq, Zenon
<1> QED
  BY <1>1, <1>2, ParentFits, ConcatEmptySeq

LEMMA PurgeKeeps == LibInv /\ Purge => LibInv'
<1> SUFFICES ASSUME LibInv, Purge PROVE LibInv'
  OBVIOUS
<1>1. RootTypeOK /\ KnowsParent /\ at = "ready" /\ Call("purge") /\ others' = others
  BY DEF LibInv, Purge, Call
<1>2. PICK path \in Below :
         IF path \o fsRoot = <<>> \/ Lookup(path) \in {NoId, <<>>} \/ ~ MayPurge(path, Lookup(path))
         THEN UNCHANGED service
         ELSE DeleteDir(Lookup(path))
  BY DEF Purge
<1>3. CASE UNCHANGED service
  BY <1>1, <1>3, ServiceStays, CallKeeps
<1>4. CASE /\ path \o fsRoot # <<>> /\ Lookup(path) \notin {NoId, <<>>} /\ MayPurge(path, Lookup(path))
           /\ DeleteDir(Lookup(path))
  <2>1. CASE path = <<>>
    <3>1. Len(Lookup(path)) >= 2
      BY <1>1, <1>4, <2>1, BelowFits, ProtectsRoot DEF MayPurge
    <3> QED
      BY <1>1, <1>4, <3>1, DeleteLong, CallKeeps
  <2>2. CASE path # <<>>
    <3>1. /\ Lookup(Parent(path)) # NoId /\ Lookup(Parent(path)) # <<>>
          /\ Len(Lookup(path)) = Len(Lookup(Parent(path))) + 1
      BY <1>1, <1>4, <2>2, BelowFits, LookupParent DEF MayPurge
    <3>2. Lookup(Parent(path)) \in Seq(Entries)
      BY <3>1, LookupChain, ChainSeq
    <3>3. Len(Lookup(Parent(path))) \in Nat \ {0}
      BY <3>1, <3>2, EmptySeq
    <3>4. Len(Lookup(path)) >= 2
      BY <3>1, <3>3
    <3> QED
      BY <1>1, <1>4, <3>4, DeleteLong, CallKeeps
  <2> QED
    BY <2>1, <2>2
<1> QED
  BY <1>2, <1>3, <1>4

LEMMA RmdirKeeps == LibInv /\ Rmdir => LibInv'
<1> SUFFICES ASSUME LibInv, Rmdir PROVE LibInv'
  OBVIOUS
<1>1. PICK path \in Below :
       /\ Call(IF path = <<>> THEN "rmdir root" ELSE "rmdir")
       /\ IF path \o fsRoot = <<>> \/ Lookup(path) \in {NoId, <<>>} \/ ~ MayRemove(path, Lookup(path))
             \/ Children(Lookup(path)) # {}
          THEN UNCHANGED service
          ELSE DeleteDir(Lookup(path))
  BY DEF Rmdir
<1>2. RootTypeOK /\ Placed /\ KnowsParent /\ at = "ready" /\ others' = others
  BY <1>1 DEF LibInv, Call
<1>3. CASE UNCHANGED service
  BY <1>1, <1>2, <1>3, ServiceStays, CallKeeps
<1>4. CASE path = <<>> /\ path \o fsRoot # <<>> /\ Lookup(path) \notin {NoId, <<>>}
           /\ MayRemove(path, Lookup(path)) /\ DeleteDir(Lookup(path))
  <2>1. Len(Lookup(path)) >= 2
    BY <1>2, <1>4, BelowFits, ProtectsRoot DEF MayRemove
  <2> QED
    BY <1>1, <1>2, <1>4, <2>1, DeleteLong, CallKeeps
<1>5. CASE path # <<>> /\ DeleteDir(Lookup(path))
  BY <1>1, <1>2, <1>5, DeleteTypes, CallKeeps
<1> QED
  BY <1>1, <1>3, <1>4, <1>5

LEMMA SyncDeleteKeeps == LibInv /\ SyncDeleteDir => LibInv'
<1> SUFFICES ASSUME LibInv, SyncDeleteDir PROVE LibInv'
  OBVIOUS
<1>1. at = "ready" /\ Call("sync-delete-dir") /\ others' = others
  BY DEF SyncDeleteDir, Call
<1>2. PICK id \in Chains \ {<<>>} :
         IF ParentDocID(id) = NoId \/ ~ Resolves(id) \/ Leaf(id) \notin Folders \/ Children(id) # {}
         THEN UNCHANGED service
         ELSE DeleteDir(id)
  BY DEF SyncDeleteDir
<1>3. CASE UNCHANGED service
  BY <1>1, <1>3, ServiceStays, CallKeeps
<1>4. CASE ParentDocID(id) # NoId /\ DeleteDir(id)
  <2>1. Len(id) >= 2
    BY <1>4, ChainSeq, NotTop DEF ParentDocID
  <2> QED
    BY <1>1, <1>4, <2>1, DeleteLong, CallKeeps
<1> QED
  BY <1>2, <1>3, <1>4

\* A move of an ID of two parts or more.
LEMMA MoveLong ==
  ASSUME LibInv, NEW name \in {"dirmove", "sync-move"}, Call(name),
         NEW id \in Chains, Len(id) >= 2, NEW to \in Chains, NEW leaf \in Segments,
         MoveDir(id, to, leaf)
  PROVE  LibInv'
<1>1. RootTypeOK /\ Placed /\ SafeLibraries /\ others' = others
  BY DEF LibInv, BeforeCall, Call
<1> QED
  BY <1>1, MoveKeeps, CallKeeps

LEMMA DirMoveKeeps == LibInv /\ DirMove => LibInv'
<1> SUFFICES ASSUME LibInv, DirMove PROVE LibInv'
  OBVIOUS
<1>1. RootTypeOK /\ KnowsParent /\ at = "ready" /\ Call("dirmove") /\ others' = others
  BY DEF LibInv, DirMove, Call
<1>2. PICK src \in Below, dst \in Below :
         IF src \o fsRoot = <<>> \/ dst = <<>> \/ Lookup(src) = NoId
            \/ Lookup(Parent(dst)) \in {NoId, <<>>}
            \/ (IF src = <<>> THEN RootParent ELSE Parent(Lookup(src))) = <<>>
         THEN UNCHANGED service
         ELSE MoveDir(Lookup(src), Lookup(Parent(dst)), Leaf(dst))
  BY DEF DirMove
<1>3. CASE UNCHANGED service
  BY <1>1, <1>3, ServiceStays, CallKeeps
<1>4. CASE /\ src \o fsRoot # <<>> /\ dst # <<>> /\ Lookup(src) # NoId
           /\ Lookup(Parent(dst)) \notin {NoId, <<>>}
           /\ (IF src = <<>> THEN RootParent ELSE Parent(Lookup(src))) # <<>>
           /\ MoveDir(Lookup(src), Lookup(Parent(dst)), Leaf(dst))
  <2>1. /\ Lookup(src) \in Chains /\ Lookup(src) \in Seq(Entries)
        /\ Lookup(Parent(dst)) \in Chains /\ Leaf(dst) \in Segments
    BY <1>1, <1>4, LookupChain, ChainSeq, BelowFits
  <2>2. Len(Lookup(src)) >= 2
    <3>1. CASE src = <<>>
      BY <1>1, <1>4, <3>1, BelowFits, ProtectsRoot
    <3>2. CASE src # <<>>
      BY <1>4, <2>1, <3>2, NotTop
    <3> QED
      BY <3>1, <3>2
  <2> QED
    BY <1>1, <1>4, <2>1, <2>2, MoveLong
<1> QED
  BY <1>2, <1>3, <1>4

LEMMA SyncMoveKeeps == LibInv /\ SyncMove => LibInv'
<1> SUFFICES ASSUME LibInv, SyncMove PROVE LibInv'
  OBVIOUS
<1>1. RootTypeOK /\ at = "ready" /\ Call("sync-move") /\ others' = others
  BY DEF LibInv, SyncMove, Call
<1>2. PICK id \in Chains \ {<<>>}, dst \in Below \ {<<>>} :
         IF Lookup(Parent(dst)) \in {NoId, <<>>} \/ ParentDocID(id) = NoId
            \/ ~ Resolves(id) \/ Leaf(id) \notin Folders
         THEN UNCHANGED service
         ELSE MoveDir(id, Lookup(Parent(dst)), Leaf(dst))
  BY DEF SyncMove
<1>3. CASE UNCHANGED service
  BY <1>1, <1>3, ServiceStays, CallKeeps
<1>4. CASE /\ Lookup(Parent(dst)) \notin {NoId, <<>>} /\ ParentDocID(id) # NoId
           /\ MoveDir(id, Lookup(Parent(dst)), Leaf(dst))
  <2>1. Len(id) >= 2
    BY <1>4, ChainSeq, NotTop DEF ParentDocID
  <2>2. Lookup(Parent(dst)) \in Chains /\ Leaf(dst) \in Segments
    BY <1>1, <1>4, LookupChain, BelowFits
  <2> QED
    BY <1>1, <1>4, <2>1, <2>2, MoveLong
<1> QED
  BY <1>2, <1>3, <1>4

LEMMA StutterKeeps == LibInv /\ UNCHANGED rootVars => LibInv'
BY ZenonT(30) DEF LibInv, rootVars, RootTypeOK, Placed, BeforeCall, WellFormed, SafeLibraries, DocId,
       KnowsParent, Walking, LibrariesKept

LEMMA LibStep == LibInv /\ [RootNext]_rootVars => LibInv'
BY PointLookupKeeps, WalkOnKeeps, WalkFailsKeeps, WalkEndsKeeps, ObjectKeeps, OthersKeep,
   PurgeKeeps, RmdirKeeps, SyncDeleteKeeps, DirMoveKeeps, SyncMoveKeeps, StutterKeeps
   DEF RootNext, NewFs, Operate, RootTerminated

LEMMA LibAlways == RootSpec => []LibInv
BY InitLib, LibStep, PTL DEF RootSpec

\* Every variable has its type; an ID has as many parts as its path.
THEOREM RootTyped == RootSpec => []RootTypeOK
<1>1. LibInv => RootTypeOK
  BY DEF LibInv
<1> QED
  BY <1>1, LibAlways, PTL

\* No call but Rmdir of a library's path removes a library, and none moves one:
\* pkudisk.go compares the parent's ID with that of the virtual root before it
\* removes or moves, and the ID it removes or moves has a parent below it.
THEOREM LibrariesAreKept == RootSpec => []LibrariesKept
<1>1. LibInv => LibrariesKept
  BY DEF LibInv
<1> QED
  BY <1>1, LibAlways, PTL

-----------------------------------------------------------------------------
(* Paths of the tree *)

LEMMA PathFits ==
  ASSUME RootTypeOK, Placed, NEW x \in Entries
  PROVE  /\ PathOf(x) \in Seq(Segments) /\ PathOf(x) # <<>>
         /\ Len(PathOf(x)) = Len(DocId(x)) /\ Len(DocId(x)) \in Nat \ {0}
         /\ \A i \in 1 .. Len(DocId(x)) : PathOf(x)[i] = place[DocId(x)[i]].name
         /\ Leaf(PathOf(x)) = place[x].name
<1>1. /\ DocId(x) \in Seq(Entries) /\ DocId(x) # <<>> /\ Leaf(DocId(x)) = x
  BY DocIdFits
<1>2. Len(DocId(x)) \in Nat \ {0}
  BY <1>1, EmptySeq
<1>3. \A i \in 1 .. Len(DocId(x)) : DocId(x)[i] \in Entries
  BY <1>1, ElementOfSeq
<1>4. \A i \in 1 .. Len(DocId(x)) : place[DocId(x)[i]].name \in Segments
  BY <1>3, DocIdFits
<1>5. PathOf(x) \in [1 .. Len(DocId(x)) -> Segments]
  BY <1>4 DEF PathOf
<1>6. PathOf(x) \in Seq(Segments)
  BY <1>2, <1>5, SeqDef
<1>7. Len(PathOf(x)) \in Nat /\ DOMAIN PathOf(x) = 1 .. Len(PathOf(x))
  BY <1>6, LenProperties
<1>8. Len(PathOf(x)) = Len(DocId(x))
  BY <1>2, <1>5, <1>7, EqualIntervals
<1>9. PathOf(x) # <<>>
  BY <1>2, <1>8, EmptySeq
<1>10. \A i \in 1 .. Len(DocId(x)) : PathOf(x)[i] = place[DocId(x)[i]].name
  BY DEF PathOf
<1>11. Leaf(PathOf(x)) = place[x].name
  <2>1. Len(DocId(x)) \in 1 .. Len(DocId(x))
    BY <1>2
  <2> QED
    BY <1>1, <1>8, <1>10, <2>1 DEF Leaf
<1> QED
  BY <1>2, <1>6, <1>8, <1>9, <1>10, <1>11

\* The path of an entry goes through the folder it is in.
LEMMA PathParent ==
  ASSUME RootTypeOK, Placed, WellFormed, NEW x \in alive
  PROVE  /\ Len(PathOf(x)) = Len(place[x].above) + 1
         /\ place[x].above # <<>> =>
              /\ Leaf(place[x].above) \in alive
              /\ DocId(Leaf(place[x].above)) = place[x].above
              /\ Parent(PathOf(x)) = PathOf(Leaf(place[x].above))
<1>1. x \in Entries
  BY DEF RootTypeOK
<1>2. /\ PathOf(x) \in Seq(Segments) /\ PathOf(x) # <<>>
      /\ Len(PathOf(x)) = Len(DocId(x)) /\ Len(DocId(x)) \in Nat \ {0}
      /\ \A i \in 1 .. Len(DocId(x)) : PathOf(x)[i] = place[DocId(x)[i]].name
  BY <1>1, PathFits
<1>3. /\ DocId(x) \in Seq(Entries) /\ DocId(x) # <<>> /\ Parent(DocId(x)) = place[x].above
      /\ Len(DocId(x)) = Len(place[x].above) + 1
  BY <1>1, DocIdFits
<1>4. ASSUME place[x].above # <<>>
      PROVE  /\ Leaf(place[x].above) \in alive
             /\ DocId(Leaf(place[x].above)) = place[x].above
             /\ Parent(PathOf(x)) = PathOf(Leaf(place[x].above))
  <2> DEFINE y == Leaf(place[x].above)
  <2>1. y \in alive /\ DocId(y) = place[x].above
    BY <1>4 DEF WellFormed
  <2>2. /\ PathOf(y) \in Seq(Segments) /\ Len(PathOf(y)) = Len(DocId(y))
        /\ \A i \in 1 .. Len(DocId(y)) : PathOf(y)[i] = place[DocId(y)[i]].name
    BY <2>1, PathFits DEF RootTypeOK
  <2>3. /\ Parent(PathOf(x)) \in Seq(Segments) /\ Len(Parent(PathOf(x))) = Len(PathOf(x)) - 1
        /\ \A i \in 1 .. Len(PathOf(x)) - 1 : Parent(PathOf(x))[i] = PathOf(x)[i]
    BY <1>2, ParentSeq, Zenon
  <2>4. \A i \in 1 .. Len(DocId(x)) - 1 : Parent(DocId(x))[i] = DocId(x)[i]
    BY <1>3, ParentSeq, Zenon
  <2> HIDE DEF y
  <2>5. Len(DocId(y)) = Len(DocId(x)) - 1 /\ Len(Parent(PathOf(x))) = Len(PathOf(y))
    <3>1. Len(place[x].above) \in Nat
      BY <1>1, DocIdFits, ChainSeq, LenProperties
    <3> QED
      BY <1>2, <1>3, <2>1, <2>2, <2>3, <3>1
  <2>6. ASSUME NEW i \in 1 .. Len(DocId(x)) - 1
        PROVE  Parent(PathOf(x))[i] = PathOf(y)[i]
    <3>1. i \in 1 .. Len(DocId(x))
      BY <1>2
    <3>2. PathOf(x)[i] = place[DocId(x)[i]].name
      BY <1>2, <3>1, Zenon
    <3>3. PathOf(y)[i] = place[DocId(y)[i]].name
      BY <2>2, <2>5, Zenon
    <3>4. DocId(y)[i] = DocId(x)[i]
      BY <1>3, <2>1, <2>4, Zenon
    <3>5. Parent(PathOf(x))[i] = PathOf(x)[i]
      BY <1>2, <2>3, Zenon
    <3> QED
      BY <3>2, <3>3, <3>4, <3>5
  <2>7. Len(Parent(PathOf(x))) = Len(DocId(x)) - 1
    BY <1>2, <2>3
  <2>8. Parent(PathOf(x)) = PathOf(y)
    BY <2>2, <2>3, <2>5, <2>6, <2>7, SeqEqual
  <2> QED
    BY <2>1, <2>8 DEF y
<1> QED
  BY <1>2, <1>3, <1>4

\* No two entries have the same path: a shortest pair would be in one folder,
\* under one name.
LEMMA UniquePath ==
  ASSUME RootTypeOK, Placed, WellFormed,
         NEW x \in alive, NEW y \in alive, PathOf(x) = PathOf(y)
  PROVE  x = y
<1> DEFINE Twins(n) == \E a, b \in alive : a # b /\ PathOf(a) = PathOf(b) /\ Len(PathOf(a)) = n
           T == {n \in Nat : Twins(n)}
<1>1. SUFFICES ASSUME x # y PROVE FALSE
  OBVIOUS
<1>2. Len(PathOf(x)) \in T
  BY <1>1, PathFits DEF RootTypeOK
<1>3. PICK n \in T : \A m \in T : n <= m
  BY <1>2, LeastOf
<1>4. PICK a \in alive, b \in alive : a # b /\ PathOf(a) = PathOf(b) /\ Len(PathOf(a)) = n
  BY <1>3
<1>5. /\ place[a].name = place[b].name /\ a \in Entries /\ b \in Entries
      /\ Len(place[a].above) = n - 1 /\ Len(place[b].above) = n - 1 /\ n \in Nat
      /\ place[a].above \in Seq(Entries) /\ place[b].above \in Seq(Entries)
  <2>1. a \in Entries /\ b \in Entries
    BY DEF RootTypeOK
  <2>2. /\ place[a].above \in Seq(Entries) /\ place[b].above \in Seq(Entries)
        /\ Len(place[a].above) \in Nat /\ Len(place[b].above) \in Nat
    BY <2>1, DocIdFits, ChainSeq, LenProperties
  <2>3. Leaf(PathOf(a)) = place[a].name /\ Leaf(PathOf(b)) = place[b].name
    BY <2>1, PathFits
  <2>4. Len(PathOf(a)) = Len(place[a].above) + 1 /\ Len(PathOf(b)) = Len(place[b].above) + 1
    BY PathParent
  <2> QED
    BY <1>3, <1>4, <2>1, <2>2, <2>3, <2>4
<1>6. place[a].above = place[b].above
  <2>1. CASE n - 1 = 0
    <3>1. Len(place[a].above) = 0 /\ Len(place[b].above) = 0
      BY <1>5, <2>1
    <3>2. place[a].above = <<>> /\ place[b].above = <<>>
      BY <1>5, <3>1, EmptySeq
    <3> QED
      BY <3>2
  <2>2. CASE n - 1 # 0
    <3>1. place[a].above # <<>> /\ place[b].above # <<>>
      BY <1>5, <2>2, EmptySeq
    <3> DEFINE c == Leaf(place[a].above)
               d == Leaf(place[b].above)
    <3>2. /\ c \in alive /\ d \in alive
          /\ DocId(c) = place[a].above /\ DocId(d) = place[b].above
          /\ PathOf(c) = PathOf(d)
      BY <1>4, <3>1, PathParent
    <3>3. Len(PathOf(c)) = n - 1
      BY <1>5, <3>2, PathFits DEF RootTypeOK
    <3>4. ~ (n <= n - 1)
      BY <1>5
    <3>5. n - 1 \notin T
      BY <1>3, <3>4
    <3>6. n - 1 \in Nat
      BY <1>5, <3>1, EmptySeq
    <3>7. c = d
      BY <3>2, <3>3, <3>5, <3>6
    <3> QED
      BY <3>2, <3>7
  <2> QED
    BY <2>1, <2>2
<1>7. place[a] = place[b]
  <2>1. place[a] \in [above : Chains, name : Segments] /\ place[b] \in [above : Chains, name : Segments]
    BY <1>5 DEF RootTypeOK
  <2> QED
    BY <1>5, <1>6, <2>1
<1> QED
  BY <1>4, <1>7 DEF WellFormed

\* The service finds by the encoded name path what has the path.
LEMMA AskedHasPath ==
  ASSUME RootTypeOK, Placed, NEW path \in Paths, NEW x \in alive
  PROVE  x \in Asked(path) <=> PathOf(x) = path
<1>1. path \in Seq(Segments) /\ PathOf(x) \in Seq(Segments)
  BY PathSeq, PathFits DEF RootTypeOK
<1>2. ASSUME PathOf(x) = path PROVE NamePath(PathOf(x)) = EncodedNamePath(path)
  BY <1>2 DEF NamePath, EncodedNamePath
<1>3. ASSUME NamePath(PathOf(x)) = EncodedNamePath(path) PROVE PathOf(x) = path
  <2> DEFINE p == PathOf(x)
  <2>1. /\ DOMAIN p = 1 .. Len(p) /\ Len(p) \in Nat
        /\ DOMAIN path = 1 .. Len(path) /\ Len(path) \in Nat
    BY <1>1, LenProperties
  <2> HIDE DEF p
  <2>2. DOMAIN p = DOMAIN path
    <3>1. DOMAIN NamePath(p) = DOMAIN p /\ DOMAIN EncodedNamePath(path) = DOMAIN path
      BY DEF NamePath, EncodedNamePath
    <3> QED
      BY <1>3, <3>1 DEF p
  <2>3. Len(p) = Len(path)
    BY <2>1, <2>2, EqualIntervals
  <2>4. ASSUME NEW i \in 1 .. Len(path) PROVE p[i] = path[i]
    <3>1. /\ NamePath(p)[i] = IF i = 1 THEN p[i] ELSE <<p[i]>>
          /\ EncodedNamePath(path)[i] = IF i = 1 THEN path[1] ELSE <<path[i]>>
      BY <2>1, <2>2 DEF NamePath, EncodedNamePath, Encode
    <3>2. NamePath(p)[i] = EncodedNamePath(path)[i]
      BY <1>3 DEF p
    <3>3. CASE i = 1
      BY <3>1, <3>2, <3>3
    <3>4. CASE i # 1
      <4>1. <<p[i]>> = <<path[i]>>
        BY <3>1, <3>2, <3>4
      <4>2. <<p[i]>>[1] = p[i] /\ <<path[i]>>[1] = path[i]
        OBVIOUS
      <4> QED
        BY <4>1, <4>2
    <3> QED
      BY <3>3, <3>4
  <2>5. p = path
    BY <1>1, <2>3, <2>4, SeqEqual DEF p
  <2> QED
    BY <2>5 DEF p
<1> QED
  BY <1>2, <1>3 DEF Asked

\* What a path means, by the entry that has it.
LEMMA MeaningOf ==
  ASSUME RootTypeOK, Placed, WellFormed, NEW path, path # <<>>
  PROVE  /\ \A x \in alive : PathOf(x) = path =>
              Meaning(path) = [kind |-> IF x \in Folders THEN "folder" ELSE "file", id |-> DocId(x)]
         /\ (\A x \in alive : PathOf(x) # path) => Meaning(path).kind = "nothing"
<1>1. ASSUME NEW x \in alive, PathOf(x) = path
      PROVE  Meaning(path) = [kind |-> IF x \in Folders THEN "folder" ELSE "file", id |-> DocId(x)]
  <2> DEFINE y == CHOOSE y \in alive : PathOf(y) = path
  <2>1. y \in alive /\ PathOf(y) = path
    BY <1>1
  <2>2. y = x
    BY <1>1, <2>1, UniquePath
  <2>3. Meaning(path) = [kind |-> IF y \in Folders THEN "folder" ELSE "file", id |-> DocId(y)]
    BY <1>1 DEF Meaning
  <2> QED
    BY <2>2, <2>3
<1>2. ASSUME \A x \in alive : PathOf(x) # path PROVE Meaning(path).kind = "nothing"
  BY <1>2 DEF Meaning
<1> QED
  BY <1>1, <1>2

-----------------------------------------------------------------------------
(* NewFs answers the same on every route *)

\* An entry in the folder at a path has the path below it.
LEMMA ChildPath ==
  ASSUME RootTypeOK, Placed, WellFormed, NEW x \in alive, NEW path \in Seq(Segments), path # <<>>,
         Located(place[x].above, Parent(path)), Len(place[x].above) = Len(Parent(path)),
         place[x].name = Leaf(path)
  PROVE  PathOf(x) = path
<1>1. /\ x \in Entries /\ PathOf(x) \in Seq(Segments) /\ PathOf(x) # <<>>
      /\ Leaf(PathOf(x)) = place[x].name /\ Len(PathOf(x)) = Len(place[x].above) + 1
      /\ Parent(PathOf(x)) \in Seq(Segments) /\ Parent(path) \in Seq(Segments)
  BY PathFits, PathParent, ParentSeq DEF RootTypeOK
<1>2. CASE place[x].above = <<>>
  <2>1. Len(Parent(path)) = 0 /\ Len(PathOf(x)) = 1
    BY <1>1, <1>2
  <2>2. Len(Parent(PathOf(x))) = Len(PathOf(x)) - 1
    BY <1>1, ParentSeq, Zenon
  <2>3. Parent(path) = <<>> /\ Parent(PathOf(x)) = <<>>
    BY <1>1, <2>1, <2>2, EmptySeq
  <2> QED
    BY <1>1, <2>3, SeqByParent
<1>3. CASE place[x].above # <<>>
  <2>1. Parent(PathOf(x)) = Parent(path)
    BY <1>3, PathParent DEF Located
  <2> QED
    BY <1>1, <2>1, SeqByParent
<1> QED
  BY <1>2, <1>3

\* An entry whose path is one below a located folder's is in that folder.
LEMMA InFolder ==
  ASSUME RootTypeOK, Placed, WellFormed, NEW x \in alive, NEW id \in Chains,
         Located(id, Parent(PathOf(x))), Len(id) = Len(Parent(PathOf(x)))
  PROVE  place[x].above = id
<1>1. /\ x \in Entries /\ PathOf(x) \in Seq(Segments) /\ PathOf(x) # <<>>
      /\ Len(PathOf(x)) = Len(place[x].above) + 1
      /\ place[x].above \in Seq(Entries) /\ id \in Seq(Entries)
  BY PathFits, PathParent, DocIdFits, ChainSeq DEF RootTypeOK
<1>2. Len(place[x].above) \in Nat /\ Len(Parent(PathOf(x))) = Len(PathOf(x)) - 1
  BY <1>1, LenProperties, ParentSeq, Zenon
<1>3. Len(id) = Len(place[x].above)
  BY <1>1, <1>2
<1>4. CASE place[x].above = <<>>
  <2>1. Len(id) = 0
    BY <1>3, <1>4
  <2> QED
    BY <1>1, <1>4, <2>1, EmptySeq
<1>5. CASE place[x].above # <<>>
  <2>1. Len(id) # 0
    BY <1>1, <1>3, <1>5, EmptySeq
  <2>2. id # <<>>
    BY <2>1, EmptySeq
  <2>3. /\ Leaf(id) \in alive /\ DocId(Leaf(id)) = id /\ PathOf(Leaf(id)) = Parent(PathOf(x))
    BY <2>2 DEF Located
  <2>4. /\ Leaf(place[x].above) \in alive /\ DocId(Leaf(place[x].above)) = place[x].above
        /\ Parent(PathOf(x)) = PathOf(Leaf(place[x].above))
    BY <1>5, PathParent
  <2>5. Leaf(id) = Leaf(place[x].above)
    BY <2>3, <2>4, UniquePath
  <2> QED
    BY <2>3, <2>4, <2>5
<1> QED
  BY <1>4, <1>5

\* While the tree stays, so does what is known of it.
LEMMA TreeStays ==
  ASSUME UNCHANGED service, UNCHANGED root
  PROVE  /\ Meaning(root)' = Meaning(root)
         /\ (\A x \in alive : PathOf(x) # root) => (\A x \in alive : PathOf(x) # root)'
         /\ Located(walk'.id, SubSeq(walk'.path, 1, walk'.n)) =>
              Located(walk.id, SubSeq(walk.path, 1, walk.n))'
<1>1. alive' = alive /\ place' = place /\ root' = root
  BY DEF service
<1>2. Located(walk'.id, SubSeq(walk'.path, 1, walk'.n)) =>
        Located(walk.id, SubSeq(walk.path, 1, walk.n))'
  BY <1>1 DEF Located, DocId, PathOf
<1>3. Meaning(root)' = Meaning(root)
  BY <1>1 DEF Meaning, DocId, PathOf
<1>4. (\A x \in alive : PathOf(x) # root) => (\A x \in alive : PathOf(x) # root)'
  BY <1>1 DEF DocId, PathOf
<1> QED
  BY <1>2, <1>3, <1>4

LEMMA TreeFacts ==
  ASSUME LibInv, at # "done"
  PROVE  /\ RootTypeOK /\ Placed /\ WellFormed /\ alive \subseteq Entries
         /\ root \in Paths /\ root \in Seq(Segments)
         /\ walk.id \in Chains /\ walk.id \in Seq(Entries)
         /\ failures \in Nat /\ others \in Nat
<1>1. RootTypeOK /\ Placed /\ WellFormed
  BY DEF LibInv, BeforeCall
<1>2. failures \in Nat /\ others \in Nat
  <2>1. failures \in 0 .. MaxFailures /\ others \in 0 .. MaxOthers
    BY <1>1 DEF RootTypeOK
  <2> QED
    BY <2>1, DepthAssumption
<1>3. alive \subseteq Entries /\ root \in Paths /\ walk.id \in Chains
  BY <1>1 DEF RootTypeOK
<1> QED
  BY <1>1, <1>2, <1>3, PathSeq, ChainSeq

\* The three answers, by what has the path.
LEMMA FolderAnswer ==
  ASSUME LibInv, at # "done", UNCHANGED <<service, root>>, NEW x \in alive, x \in Folders,
         PathOf(x) = root, Root(root, DocId(x)), Returns("folder")
  PROVE  Undisturbed' /\ SameAnswer'
<1>1. RootTypeOK /\ Placed /\ WellFormed /\ root # <<>>
  BY TreeFacts, PathFits
<1>2. Meaning(root) = [kind |-> "folder", id |-> DocId(x)]
  BY <1>1, MeaningOf
<1>3. Meaning(root)' = [kind |-> "folder", id |-> DocId(x)] /\ root' = root
  BY <1>2, TreeStays
<1> QED
  BY <1>3 DEF SameAnswer, Undisturbed, Searching, Root, Returns

LEMMA FileAnswer ==
  ASSUME LibInv, at # "done", UNCHANGED <<service, root>>, NEW x \in alive, x \in Files,
         PathOf(x) = root, Root(Parent(root), place[x].above), Returns("file")
  PROVE  Undisturbed' /\ SameAnswer'
<1>1. RootTypeOK /\ Placed /\ WellFormed /\ root # <<>> /\ x \in Entries /\ x \notin Folders
  BY TreeFacts, PathFits, FileParent
<1>2. Meaning(root) = [kind |-> "file", id |-> DocId(x)]
  BY <1>1, MeaningOf
<1>3. Meaning(root)' = [kind |-> "file", id |-> DocId(x)] /\ root' = root
  BY <1>2, TreeStays
<1>4. Parent(DocId(x)) = place[x].above
  BY <1>1, DocIdFits
<1>5. (Meaning(root)').kind = "file" /\ (Meaning(root)').id = DocId(x)
  BY <1>3
<1>6. rootId' = Parent((Meaning(root)').id) /\ fsRoot' = Parent(root')
  BY <1>3, <1>4, <1>5 DEF Root
<1> QED
  BY <1>3, <1>5, <1>6 DEF SameAnswer, Undisturbed, Searching, Returns

LEMMA LaterAnswer ==
  ASSUME LibInv, at # "done", UNCHANGED <<service, root, others>>, Returns("later"),
         others = 0 => failures' > 0 \/ (root # <<>> /\ \A x \in alive : PathOf(x) # root)
  PROVE  Undisturbed' /\ SameAnswer'
<1>1. others = 0 => failures' > 0 \/ Meaning(root).kind = "nothing"
  BY TreeFacts, MeaningOf
<1>2. others' = 0 => failures' > 0 \/ (Meaning(root)').kind = "nothing"
  BY <1>1, TreeStays
<1> QED
  BY <1>2 DEF SameAnswer, Undisturbed, Searching, Returns

\* NewFs goes on, with what it knows of the tree.
LEMMA SearchGoesOn ==
  ASSUME UNCHANGED <<service, root>>, at' # "ready",
         others' = 0 =>
           /\ Located(walk'.id, SubSeq(walk'.path, 1, walk'.n))
           /\ failures' = 0 /\ root # <<>> => \A x \in alive : PathOf(x) # root
           /\ at' = "listing" => failures' > 0
  PROVE  Undisturbed' /\ SameAnswer'
<1>1. root' = root
  OBVIOUS
<1>2. others' = 0 => Located(walk.id, SubSeq(walk.path, 1, walk.n))'
  BY TreeStays
<1>3. others' = 0 /\ failures' = 0 /\ root' # <<>> => (\A x \in alive : PathOf(x) # root)'
  BY <1>1, TreeStays
<1> QED
  BY <1>2, <1>3 DEF SameAnswer, Undisturbed

LEMMA PointLookupAnswers ==
  LibInv /\ Undisturbed /\ PointLookup => Undisturbed' /\ SameAnswer'
<1> SUFFICES ASSUME LibInv, Undisturbed, PointLookup PROVE Undisturbed' /\ SameAnswer'
  OBVIOUS
<1>1. at = "point" /\ UNCHANGED <<service, root>> /\ others' = others
  BY DEF PointLookup
<1>2. /\ RootTypeOK /\ Placed /\ WellFormed /\ root \in Paths /\ failures \in Nat
  BY <1>1, TreeFacts
<1>3. CASE \E x \in Asked(root) :
               \/ x \in Folders /\ Seeds(root, DocId(x))
                    /\ Root(root, DocId(x)) /\ Returns("folder")
               \/ x \in Files /\ Seeds(Parent(root), ParentDocID(DocId(x))) /\ RootOfFile(x)
  <2>1. PICK x \in Asked(root) :
               \/ x \in Folders /\ Root(root, DocId(x)) /\ Returns("folder")
               \/ x \in Files /\ RootOfFile(x)
    BY <1>3
  <2>2. x \in alive /\ PathOf(x) = root
    BY <1>2, <2>1, AskedHasPath DEF Asked
  <2>3. CASE x \in Folders /\ Root(root, DocId(x)) /\ Returns("folder")
    BY <1>1, <2>2, <2>3, FolderAnswer
  <2>4. CASE x \in Files /\ RootOfFile(x)
    <3>1. ParentDocID(DocId(x)) = place[x].above
      BY <1>1, <2>2, <2>4, FileParent
    <3> QED
      BY <1>1, <2>2, <2>4, <3>1, FileAnswer DEF RootOfFile
  <2> QED
    BY <2>1, <2>3, <2>4
<1>4. CASE /\ \/ (root = <<>> \/ Asked(root) = {}) /\ UNCHANGED failures
              \/ root # <<>> /\ Failure
           /\ walk' = [path |-> root, n |-> 0, id |-> <<>>]
           /\ at' = "walk"
  <2>1. Located(walk'.id, SubSeq(walk'.path, 1, walk'.n))
    BY <1>4 DEF Located
  <2>2. failures' = 0 /\ root # <<>> => Asked(root) = {}
    BY <1>2, <1>4 DEF Failure
  <2>3. failures' = 0 /\ root # <<>> => \A x \in alive : PathOf(x) # root
    BY <1>2, <2>2, AskedHasPath
  <2> QED
    BY <1>1, <1>4, <2>1, <2>3, SearchGoesOn
<1> QED
  BY <1>3, <1>4 DEF PointLookup, Goto

LEMMA WalkOnAnswers ==
  LibInv /\ Undisturbed /\ WalkOn => Undisturbed' /\ SameAnswer'
<1> SUFFICES ASSUME LibInv, Undisturbed, WalkOn PROVE Undisturbed' /\ SameAnswer'
  OBVIOUS
<1>1. /\ at \in {"walk", "parent"} /\ at' = at /\ walk.n < Len(walk.path)
      /\ UNCHANGED <<service, root>> /\ others' = others /\ failures' = failures
  BY DEF WalkOn
<1>2. RootTypeOK /\ Placed /\ WellFormed /\ alive \subseteq Entries
  BY <1>1, TreeFacts
<1>3. PICK x \in Found(walk.id, walk.path[walk.n + 1]) :
        walk' = [walk EXCEPT !.n = @ + 1, !.id = DocId(x)]
  BY DEF WalkOn
<1>4. /\ x \in alive /\ x \in Entries /\ x \in Folders
      /\ place[x].above = walk.id /\ place[x].name = walk.path[walk.n + 1]
  BY <1>2, <1>3 DEF Found, Children
<1>5. /\ walk \in [path : Paths, n : 0 .. MaxDepth, id : Chains]
      /\ walk.path \in Seq(Segments) /\ walk.n \in Nat /\ Len(walk.path) \in Nat
      /\ Len(walk.id) = walk.n
  <2>1. walk \in [path : Paths, n : 0 .. MaxDepth, id : Chains] /\ Len(walk.id) = walk.n
    BY <1>2 DEF RootTypeOK, LibInv, Walking
  <2>2. walk.path \in Seq(Segments) /\ walk.n \in Nat
    BY <2>1, PathSeq, DepthAssumption
  <2> QED
    BY <2>1, <2>2, LenProperties
<1>6. walk'.path = walk.path /\ walk'.n = walk.n + 1 /\ walk'.id = DocId(x)
  BY <1>3, <1>5
<1> DEFINE n == walk.n
           q == SubSeq(walk.path, 1, n + 1)
<1>7. /\ q \in Seq(Segments) /\ q # <<>> /\ Leaf(q) = walk.path[n + 1]
      /\ Parent(q) = SubSeq(walk.path, 1, n) /\ Len(Parent(q)) = n
  <2>1. n \in 0 .. Len(walk.path) - 1
    BY <1>1, <1>5
  <2> QED
    BY <1>5, <2>1, PrefixParent
<1> HIDE DEF q
<1>8. ASSUME others = 0 PROVE Located(walk'.id, SubSeq(walk'.path, 1, walk'.n))
  <2>1. Located(walk.id, SubSeq(walk.path, 1, walk.n))
    BY <1>1, <1>8 DEF Undisturbed, Searching
  <2>2. PathOf(x) = q
    BY <1>2, <1>4, <1>5, <1>7, <2>1, ChildPath
  <2>3. Leaf(DocId(x)) = x
    BY <1>2, <1>4, DocIdFits
  <2> QED
    BY <1>4, <1>6, <2>2, <2>3 DEF Located, q
<1>9. others = 0 /\ failures = 0 /\ root # <<>> => \A y \in alive : PathOf(y) # root
  BY <1>1 DEF Undisturbed, Searching
<1> QED
  BY <1>1, <1>8, <1>9, SearchGoesOn

LEMMA WalkFailsAnswers ==
  LibInv /\ Undisturbed /\ WalkFails => Undisturbed' /\ SameAnswer'
<1> SUFFICES ASSUME LibInv, Undisturbed, WalkFails PROVE Undisturbed' /\ SameAnswer'
  OBVIOUS
<1>1. /\ at \in {"walk", "parent"} /\ walk.n < Len(walk.path)
      /\ UNCHANGED <<service, root, others>>
  BY DEF WalkFails
<1>2. failures \in Nat
  BY <1>1, TreeFacts
<1>3. failures' = 0 => failures = 0
  BY <1>2 DEF WalkFails, Failure
<1>4. failures' \in Nat
  BY <1>2 DEF WalkFails, Failure
<1>5. CASE at = "walk"
  <2>1. walk' = [path |-> Parent(root), n |-> 0, id |-> <<>>] /\ at' = "parent"
    BY <1>5 DEF WalkFails, Goto
  <2>2. Located(walk'.id, SubSeq(walk'.path, 1, walk'.n))
    BY <2>1 DEF Located
  <2>3. others = 0 /\ failures' = 0 /\ root # <<>> => \A x \in alive : PathOf(x) # root
    BY <1>3, <1>5 DEF Undisturbed, Searching
  <2> QED
    BY <1>1, <2>1, <2>2, <2>3, SearchGoesOn
<1>6. CASE at = "parent"
  <2>1. Returns("later") /\ root # <<>>
    BY <1>6 DEF WalkFails, LibInv, Walking
  <2>2. others = 0 => failures' > 0 \/ (root # <<>> /\ \A x \in alive : PathOf(x) # root)
    BY <1>3, <1>4, <1>6, <2>1 DEF Undisturbed, Searching
  <2> QED
    BY <1>1, <2>1, <2>2, LaterAnswer
<1> QED
  BY <1>1, <1>5, <1>6

LEMMA WalkEndsAnswers ==
  LibInv /\ Undisturbed /\ WalkEnds => Undisturbed' /\ SameAnswer'
<1> SUFFICES ASSUME LibInv, Undisturbed, WalkEnds PROVE Undisturbed' /\ SameAnswer'
  OBVIOUS
<1>1. /\ at \in {"walk", "parent"} /\ walk.n = Len(walk.path)
      /\ UNCHANGED <<service, root, walk, op, failures, others>>
  BY DEF WalkEnds
<1>2. CASE at = "walk"
  <2>1. /\ Root(root, walk.id) /\ Returns("folder") /\ walk.path = root
        /\ Len(walk.id) = Len(root)
    BY <1>1, <1>2 DEF WalkEnds, LibInv, Walking
  <2>2. root \in Seq(Segments) /\ walk.id \in Seq(Entries)
    BY <1>2, TreeFacts
  <2>3. CASE others # 0
    BY <1>1, <2>1, <2>3 DEF SameAnswer, Undisturbed, Returns
  <2>4. CASE others = 0 /\ root = <<>>
    <3>1. walk.id = <<>>
      BY <2>1, <2>2, <2>4, EmptySeq
    <3>2. Meaning(root)' = [kind |-> "folder", id |-> <<>>]
      BY <1>1, <2>4 DEF Meaning
    <3> QED
      BY <1>1, <2>1, <3>1, <3>2 DEF SameAnswer, Undisturbed, Searching, Root, Returns
  <2>5. CASE others = 0 /\ root # <<>>
    <3>1. Len(root) # 0
      BY <2>2, <2>5, EmptySeq
    <3>2. walk.id # <<>>
      BY <2>1, <3>1, EmptySeq
    <3>3. SubSeq(walk.path, 1, walk.n) = root
      BY <1>1, <2>1, <2>2, SubSeqFull
    <3>4. PICK x \in alive \intersect Folders : DocId(x) = walk.id /\ PathOf(x) = root
      BY <1>2, <2>5, <3>2, <3>3 DEF Undisturbed, Searching, Located
    <3> QED
      BY <1>1, <1>2, <2>1, <3>4, FolderAnswer
  <2> QED
    BY <2>3, <2>4, <2>5
<1>3. CASE at = "parent"
  <2>1. at' = "object"
    BY <1>3 DEF WalkEnds, Goto
  <2>2. others = 0 =>
           /\ Located(walk.id, SubSeq(walk.path, 1, walk.n))
           /\ failures = 0 /\ root # <<>> => \A x \in alive : PathOf(x) # root
    BY <1>3 DEF Undisturbed, Searching
  <2> QED
    BY <1>1, <2>1, <2>2, SearchGoesOn
<1> QED
  BY <1>1, <1>2, <1>3

\* In the parent of a root that is no folder: where it is, and what is known.
LEMMA AtParent ==
  ASSUME LibInv, Undisturbed, at \in {"object", "listing"}, others = 0
  PROVE  /\ root # <<>> /\ root \in Seq(Segments)
         /\ walk.path = Parent(root) /\ SubSeq(walk.path, 1, walk.n) = Parent(root)
         /\ Located(walk.id, Parent(root)) /\ Len(walk.id) = Len(Parent(root))
<1>1. /\ root # <<>> /\ walk.path = Parent(root) /\ walk.n = Len(walk.path)
      /\ Len(walk.id) = walk.n
  BY DEF LibInv, Walking
<1>2. root \in Seq(Segments) /\ Parent(root) \in Seq(Segments)
  BY TreeFacts, ParentSeq
<1>3. SubSeq(walk.path, 1, walk.n) = Parent(root)
  BY <1>1, <1>2, SubSeqFull
<1> QED
  BY <1>1, <1>2, <1>3 DEF Undisturbed, Searching

LEMMA PointObjectAnswers ==
  LibInv /\ Undisturbed /\ PointObject => Undisturbed' /\ SameAnswer'
<1> SUFFICES ASSUME LibInv, Undisturbed, PointObject PROVE Undisturbed' /\ SameAnswer'
  OBVIOUS
<1>1. at = "object" /\ UNCHANGED <<service, root, walk, op, others>>
  BY DEF PointObject
<1>2. /\ RootTypeOK /\ Placed /\ WellFormed /\ root \in Paths /\ walk.id \in Chains
      /\ failures \in Nat
  BY <1>1, TreeFacts
<1>3. CASE \E x \in Asked(root) : x \in Files /\ Root(Parent(root), walk.id) /\ Returns("file")
  <2>1. PICK x \in Asked(root) : x \in Files /\ Root(Parent(root), walk.id) /\ Returns("file")
    BY <1>3
  <2>2. x \in alive /\ PathOf(x) = root
    BY <1>2, AskedHasPath DEF Asked
  <2>3. CASE others = 0
    <3>1. place[x].above = walk.id
      BY <1>1, <1>2, <2>2, <2>3, AtParent, InFolder
    <3> QED
      BY <1>1, <2>1, <2>2, <3>1, FileAnswer
  <2>4. CASE others # 0
    BY <1>1, <2>1, <2>4 DEF SameAnswer, Undisturbed, Returns
  <2> QED
    BY <2>3, <2>4
<1>4. CASE Returns("later") /\ failures' = failures
  <2>1. others = 0 => failures' > 0 \/ (root # <<>> /\ \A x \in alive : PathOf(x) # root)
    BY <1>1, <1>2, <1>4, AtParent DEF Undisturbed, Searching
  <2> QED
    BY <1>1, <1>4, <2>1, LaterAnswer
<1>5. CASE Failure /\ at' = "listing"
  <2>1. failures' > 0 /\ failures' # 0
    BY <1>2, <1>5 DEF Failure
  <2>2. others = 0 => Located(walk'.id, SubSeq(walk'.path, 1, walk'.n))
    BY <1>1 DEF Undisturbed, Searching
  <2> QED
    BY <1>1, <1>5, <2>1, <2>2, SearchGoesOn
<1> QED
  BY <1>3, <1>4, <1>5 DEF PointObject, Goto

LEMMA ListedObjectAnswers ==
  LibInv /\ Undisturbed /\ ListedObject => Undisturbed' /\ SameAnswer'
<1> SUFFICES ASSUME LibInv, Undisturbed, ListedObject PROVE Undisturbed' /\ SameAnswer'
  OBVIOUS
<1>1. at = "listing" /\ UNCHANGED <<service, root, walk, op, others>>
  BY DEF ListedObject
<1>2. RootTypeOK /\ Placed /\ WellFormed /\ failures \in Nat
  BY <1>1, TreeFacts
<1>3. CASE /\ \E x \in Children(walk.id) \intersect Files : place[x].name = Leaf(root)
           /\ Root(Parent(root), walk.id) /\ Returns("file")
  <2>1. PICK x \in Children(walk.id) \intersect Files : place[x].name = Leaf(root)
    BY <1>3
  <2>2. x \in alive /\ place[x].above = walk.id
    BY <2>1 DEF Children
  <2>3. CASE others = 0
    <3>1. PathOf(x) = root
      BY <1>1, <1>2, <2>1, <2>2, <2>3, AtParent, ChildPath
    <3> QED
      BY <1>1, <1>3, <2>1, <2>2, <3>1, FileAnswer
  <2>4. CASE others # 0
    BY <1>1, <1>3, <2>4 DEF SameAnswer, Undisturbed, Returns
  <2> QED
    BY <2>3, <2>4
<1>4. CASE Returns("later") /\ failures' = failures
  <2>1. others = 0 => failures' > 0
    BY <1>1, <1>4 DEF Undisturbed, Searching
  <2> QED
    BY <1>1, <1>4, <2>1, LaterAnswer
<1>5. CASE NoFs
  BY <1>5 DEF NoFs, SameAnswer, Undisturbed, Searching
<1> QED
  BY <1>3, <1>4, <1>5 DEF ListedObject

LEMMA OthersAnswer ==
  LibInv /\ (OtherClients \/ Operate) => Undisturbed' /\ SameAnswer'
<1> SUFFICES ASSUME LibInv, OtherClients \/ Operate PROVE Undisturbed' /\ SameAnswer'
  OBVIOUS
<1>1. CASE OtherClients
  <2>1. others \in Nat /\ others' = others + 1
    BY <1>1, TreeFacts DEF OtherClients
  <2>2. others' # 0
    BY <2>1
  <2> QED
    BY <2>2 DEF SameAnswer, Undisturbed
<1>2. CASE Operate
  <2>1. at' = "done"
    BY <1>2 DEF Operate, Purge, Rmdir, SyncDeleteDir, DirMove, SyncMove, Call
  <2> QED
    BY <2>1 DEF SameAnswer, Undisturbed, Searching
<1> QED
  BY <1>1, <1>2

LEMMA StutterAnswers ==
  Undisturbed /\ SameAnswer /\ UNCHANGED rootVars => Undisturbed' /\ SameAnswer'
BY ZenonT(30) DEF rootVars, Undisturbed, Searching, Located, SameAnswer, Meaning, DocId, PathOf

LEMMA InitAnswers == RootInit => Undisturbed /\ SameAnswer
BY DEF RootInit, Undisturbed, Searching, SameAnswer

LEMMA RootStep == RootInv /\ [RootNext]_rootVars => RootInv'
BY LibStep, PointLookupAnswers, WalkOnAnswers, WalkFailsAnswers, WalkEndsAnswers,
   PointObjectAnswers, ListedObjectAnswers, OthersAnswer, StutterAnswers
   DEF RootInv, RootNext, NewFs, RootTerminated

THEOREM RootInvariant == RootSpec => []RootInv
<1>1. RootInit => RootInv
  BY InitLib, InitAnswers DEF RootInv
<1> QED
  BY <1>1, RootStep, PTL DEF RootSpec

\* While nobody else changes the tree, NewFs answers the same whether it finds
\* the root by one request, by the walk or by the listing of its parent, in a
\* tree of any depth: no two entries have one path, and the walk is where it
\* believes to be.
THEOREM NewFsAnswersSame == RootSpec => []SameAnswer
<1>1. RootInv => SameAnswer
  BY DEF RootInv
<1> QED
  BY <1>1, RootInvariant, PTL
=============================================================================
