--------------------------- MODULE MCTokensProofs ---------------------------
(***************************************************************************)
(* Theorems about DesktopToken: what a call of Token reads from the files  *)
(* is the session of the desktop client, however the client rotates and    *)
(* flushes them under the reader; about WalReader: what the reader of the  *)
(* log files finds in them is what LevelDB wrote; and the instance of      *)
(* these and of ApiClient that the runs check.                             *)
(***************************************************************************)
EXTENDS MCTokens, ApiClientProofs, WellFoundedInduction, FiniteSetTheorems, SequenceTheorems,
        TLAPS

-----------------------------------------------------------------------------
(* What several files say together *)

Say(old, new) == IF new = Unset THEN old ELSE new

\* The files of S whose value is set, in the function f.
SetIn(f, S) == {n \in S : f[n] # Unset}

\* What the files of S say over b, the later ones over the earlier ones.
LastSaid(f, S, b) == IF SetIn(f, S) = {} THEN b ELSE f[Max(SetIn(f, S))]

TokenIn(l)  == [n \in DOMAIN l |-> Summary(l[n]).token]
SignedIn(l) == [n \in DOMAIN l |-> Summary(l[n]).signedIn]

\* The logs of S over the entry e.
Combined(l, S, e) ==
    [token    |-> LastSaid(TokenIn(l), S, e.token),
     signedIn |-> LastSaid(SignedIn(l), S, e.signedIn)]

\* The logs that are not in the tables.
Unflushed == {n \in DOMAIN logs : n > flushed}

-----------------------------------------------------------------------------
(* The inductive invariant *)

\* An entry that says of each key what the session is, or nothing of a key
\* that was never written.
IsSession(e) ==
    /\ e.token = session.token \/ (e.token = Unset /\ session.token = 0)
    /\ e.signedIn = session.signedIn \/ (e.signedIn = Unset /\ session.signedIn = FALSE)

\* No token is newer than the last one that was issued.
Old(e) == e.token = Unset \/ e.token <= issued

\* The files of the client hold its session.
ClientInv ==
    /\ session.signedIn <=> session.token # 0
    /\ session.token \in {0, issued}
    /\ flushed < newest
    /\ flushed + 1 .. newest \subseteq DOMAIN logs
    /\ DOMAIN logs \subseteq flushed .. newest
    /\ IsSession(Combined(logs, Unflushed, tables))
    /\ flushed \in DOMAIN logs =>
         LET last == Summary(logs[flushed]) IN
         last.token \in {Unset, tables.token} /\ last.signedIn \in {Unset, tables.signedIn}
    /\ Old(tables) /\ \A n \in DOMAIN logs : Old(Summary(logs[n]))

Reading(c) == call[c].at \in {"logs", "decide"}
Copying(c) == call[c].at \in {"list", "tables", "copy", "open"}

\* The files that have a say in what c will have found.
Counting(c) ==
    IF call[c].at \in {"tables", "copy"} THEN {n \in call[c].todo : n > call[c].version}
    ELSE call[c].todo

WillFind(c) ==
    Combined(logs, Counting(c), IF call[c].at = "tables" THEN tables ELSE call[c].found)

\* What c will have found was the session at some moment since the listing.
Seen(c, e) ==
    /\ e.token \in seen[c] \union {Unset}
    /\ e.signedIn = FALSE => 0 \in seen[c]

\* The reading of caller c.
ReaderInv(c) ==
    /\ call[c].at \in {"idle", "cached", "wait", "glob"} =>
         call[c].found = Nothing /\ ~ call[c].missed
    /\ call[c].at \in {"idle", "cached", "wait", "glob", "decide", "list", "open"} =>
         call[c].todo = {}
    /\ call[c].todo \subseteq 1 .. newest /\ call[c].version <= flushed
    /\ Old(call[c].found)
    /\ Reading(c) \/ Copying(c) =>
         Current \in seen[c] /\ \A t \in seen[c] : t # 0 => t >= cached
    /\ ~ changed[c] /\ (Reading(c) \/ Copying(c)) =>
         /\ call[c].todo \subseteq DOMAIN logs /\ ~ call[c].missed
         /\ call[c].at = "tables" => call[c].version = flushed
    /\ Reading(c) /\ ~ call[c].missed /\ call[c].todo \subseteq DOMAIN logs =>
         Seen(c, WillFind(c))
    /\ \/ call[c].at = "tables" /\ call[c].version = flushed
       \/ call[c].at \in {"copy", "open"} /\ Counting(c) \subseteq DOMAIN logs
       => Seen(c, WillFind(c)) /\ (WillFind(c).token = Unset => 0 \in seen[c])

\* One call at a time reads the files.
OneReader ==
    \A c, d \in Readers : call[c].at \in Locked /\ call[d].at \in Locked => c = d

DesktopInv ==
    /\ DesktopTypeOK
    /\ ClientInv
    /\ OneReader
    /\ cached <= issued
    /\ \A c \in Readers : ReaderInv(c)

-----------------------------------------------------------------------------
(* The last of several files *)

\* A set of numbers up to n that is not empty has a least element ...
LEMMA LeastOf ==
  ASSUME NEW T \in SUBSET Nat, T # {}
  PROVE  \E n \in T : \A m \in T : n <= m
<1>1. PICK n \in T : \A m \in T : ~ (<<m, n>> \in OpToRel(<, Nat))
  BY NatLessThanWellFounded, WFMin
<1>2. \A m \in T : ~ (m < n)
  BY <1>1 DEF OpToRel
<1> QED
  BY <1>2

LEMMA MinIsLeast ==
  ASSUME NEW T \in SUBSET Nat, T # {}
  PROVE  Min(T) \in T /\ \A m \in T : Min(T) <= m
BY LeastOf DEF Min

\* ... and a greatest one.
LEMMA MaxIsGreatest ==
  ASSUME NEW n \in Nat, NEW T \in SUBSET (0 .. n), T # {}
  PROVE  Max(T) \in T /\ \A m \in T : m <= Max(T)
<1> DEFINE D == {k \in 0 .. n : n - k \in T}
<1>1. PICK t \in T : TRUE
  OBVIOUS
<1>2. t \in 0 .. n /\ n - t \in 0 .. n /\ n - (n - t) = t
  OBVIOUS
<1>3. D \in SUBSET Nat /\ n - t \in D
  BY <1>2
<1> HIDE DEF D
<1>4. PICK k \in D : \A j \in D : k <= j
  BY <1>3, LeastOf
<1>5. k \in 0 .. n /\ n - k \in T
  BY <1>4 DEF D
<1>6. ASSUME NEW m \in T PROVE m <= n - k
  <2>1. m \in 0 .. n /\ n - m \in 0 .. n /\ n - (n - m) = m
    OBVIOUS
  <2>2. n - m \in D
    BY <2>1 DEF D
  <2>3. k <= n - m
    BY <1>4, <2>2
  <2> QED
    BY <1>5, <2>1, <2>3
<1>7. \E x \in T : \A m \in T : x >= m
  <2>1. \A m \in T : n - k >= m
    <3> SUFFICES ASSUME NEW m \in T PROVE n - k >= m
      OBVIOUS
    <3>1. m \in 0 .. n /\ m <= n - k
      BY <1>6
    <3> QED
      BY <1>5, <3>1
  <2> QED
    BY <1>5, <2>1
<1>8. Max(T) \in T /\ \A m \in T : Max(T) >= m
  BY <1>7 DEF Max
<1> QED
  BY <1>8

\* Sets of files, or of positions in one.
Bounded(S) == \E n \in Nat : S \in SUBSET (0 .. n)

LEMMA BoundedSubset ==
  ASSUME NEW S, Bounded(S), NEW R, R \subseteq S
  PROVE  Bounded(R)
BY DEF Bounded

LEMMA BoundedNat ==
  ASSUME NEW S, Bounded(S), NEW k \in S
  PROVE  k \in Nat
BY DEF Bounded

LEMMA BoundedMax ==
  ASSUME NEW S, Bounded(S), S # {}
  PROVE  Max(S) \in S /\ \A m \in S : m <= Max(S)
BY MaxIsGreatest DEF Bounded

\* The value of the last file that has one.
LEMMA LastIs ==
  ASSUME NEW S, Bounded(S), NEW f, NEW b,
         NEW m \in S, f[m] # Unset, \A k \in S : k > m => f[k] = Unset
  PROVE  LastSaid(f, S, b) = f[m]
<1>1. /\ m \in SetIn(f, S) /\ SetIn(f, S) # {} /\ Bounded(SetIn(f, S))
      /\ \A k \in SetIn(f, S) : k \in Nat
  BY BoundedSubset, BoundedNat DEF SetIn
<1>2. SetIn(f, S) # {} /\ Max(SetIn(f, S)) \in SetIn(f, S) /\ m <= Max(SetIn(f, S))
  BY <1>1, BoundedMax
<1>3. ~ (Max(SetIn(f, S)) > m) /\ Max(SetIn(f, S)) \in Nat
  BY <1>1, <1>2 DEF SetIn
<1>4. Max(SetIn(f, S)) = m
  BY <1>1, <1>2, <1>3
<1> QED
  BY <1>2, <1>4 DEF LastSaid

LEMMA LastNone ==
  ASSUME NEW S, NEW f, NEW b, \A k \in S : f[k] = Unset
  PROVE  LastSaid(f, S, b) = b
BY DEF LastSaid, SetIn

LEMMA LastOrNone ==
  ASSUME NEW S, Bounded(S), NEW f
  PROVE  \/ \A k \in S : f[k] = Unset
         \/ \E m \in S : f[m] # Unset /\ \A k \in S : k > m => f[k] = Unset
<1> SUFFICES ASSUME SetIn(f, S) # {}
             PROVE  \E m \in S : f[m] # Unset /\ \A k \in S : k > m => f[k] = Unset
  BY DEF SetIn
<1>1. Bounded(SetIn(f, S)) /\ \A k \in S : k \in Nat
  BY BoundedSubset, BoundedNat DEF SetIn
<1>2. /\ Max(SetIn(f, S)) \in SetIn(f, S)
      /\ \A k \in SetIn(f, S) : k <= Max(SetIn(f, S))
  BY <1>1, BoundedMax
<1>3. ASSUME NEW k \in S, k > Max(SetIn(f, S)) PROVE f[k] = Unset
  <2>1. Max(SetIn(f, S)) \in Nat /\ k \in Nat
    BY <1>1, <1>2 DEF SetIn
  <2>2. k \notin SetIn(f, S)
    BY <1>2, <1>3, <2>1
  <2> QED
    BY <2>2 DEF SetIn
<1> QED
  BY <1>2, <1>3 DEF SetIn

\* Reading the first file leaves what all of them say.
LEMMA LastFirst ==
  ASSUME NEW S, Bounded(S), NEW f, NEW b,
         NEW m \in S, \A k \in S : m <= k
  PROVE  LastSaid(f, S \ {m}, Say(b, f[m])) = LastSaid(f, S, b)
<1> DEFINE R == S \ {m}
<1>0. Bounded(R)
  BY BoundedSubset
<1>1. CASE \A k \in R : f[k] = Unset
  <2>1. LastSaid(f, R, Say(b, f[m])) = Say(b, f[m])
    BY <1>1, LastNone
  <2>2. CASE f[m] = Unset
    <3>1. \A k \in S : f[k] = Unset
      BY <1>1, <2>2
    <3>2. LastSaid(f, S, b) = b
      BY <3>1, LastNone
    <3> QED
      BY <2>1, <2>2, <3>2 DEF Say
  <2>3. CASE f[m] # Unset
    <3>1. \A k \in S : k > m => f[k] = Unset
      BY <1>1, BoundedNat
    <3>2. LastSaid(f, S, b) = f[m]
      BY <3>1, <2>3, LastIs
    <3> QED
      BY <2>1, <2>3, <3>2 DEF Say
  <2> QED
    BY <2>2, <2>3
<1>2. CASE \E k \in R : f[k] # Unset /\ \A j \in R : j > k => f[j] = Unset
  <2>1. PICK k \in R : f[k] # Unset /\ \A j \in R : j > k => f[j] = Unset
    BY <1>2
  <2>2. k \in S /\ m <= k /\ ~ (m > k)
    BY BoundedNat
  <2>3. \A j \in S : j > k => f[j] = Unset
    BY <2>1, <2>2
  <2>4. LastSaid(f, S, b) = f[k]
    BY <2>1, <2>2, <2>3, LastIs
  <2>5. \A d : LastSaid(f, R, d) = f[k]
    BY <1>0, <2>1, LastIs
  <2> QED
    BY <2>4, <2>5
<1> QED
  BY <1>0, <1>1, <1>2, LastOrNone

\* The last file has the last word.
LEMMA LastGreatest ==
  ASSUME NEW S, Bounded(S), NEW f, NEW b,
         NEW m \in S, \A k \in S : k <= m
  PROVE  LastSaid(f, S, b) = Say(LastSaid(f, S \ {m}, b), f[m])
<1> DEFINE R == S \ {m}
<1>0. Bounded(R)
  BY BoundedSubset
<1>1. CASE f[m] # Unset
  <2>1. \A k \in S : k > m => f[k] = Unset
    BY BoundedNat
  <2>2. LastSaid(f, S, b) = f[m]
    BY <1>1, <2>1, LastIs
  <2> QED
    BY <1>1, <2>2 DEF Say
<1>2. CASE f[m] = Unset
  <2>1. SetIn(f, S) = SetIn(f, R)
    BY <1>2 DEF SetIn
  <2> QED
    BY <1>2, <2>1 DEF Say, LastSaid
<1> QED
  BY <1>1, <1>2

\* Only the values of the files count.
LEMMA LastSame ==
  ASSUME NEW S, NEW f, NEW g, NEW b,
         Bounded(S), \A k \in S : f[k] = g[k]
  PROVE  LastSaid(f, S, b) = LastSaid(g, S, b)
<1>1. SetIn(f, S) = SetIn(g, S) /\ Bounded(SetIn(f, S))
  BY BoundedSubset DEF SetIn
<1>2. SetIn(f, S) # {} => Max(SetIn(f, S)) \in S
  BY <1>1, BoundedMax DEF SetIn
<1> QED
  BY <1>1, <1>2 DEF LastSaid

\* What is said last is b, or said by a file.
LEMMA LastIn ==
  ASSUME NEW S, Bounded(S), NEW f, NEW b
  PROVE  LastSaid(f, S, b) = b \/ \E m \in S : LastSaid(f, S, b) = f[m]
<1>1. Bounded(SetIn(f, S)) /\ SetIn(f, S) \subseteq S
  BY BoundedSubset DEF SetIn
<1>2. SetIn(f, S) # {} => Max(SetIn(f, S)) \in S
  BY <1>1, BoundedMax
<1> QED
  BY <1>2 DEF LastSaid

-----------------------------------------------------------------------------
(* The summary of one file *)

TokenAt(s)  == [i \in DOMAIN s |-> s[i].token]
SignedAt(s) == [i \in DOMAIN s |-> s[i].signedIn]

LEMMA SummaryIs ==
  ASSUME NEW s \in Seq(Entry)
  PROVE  Summary(s) = [token    |-> LastSaid(TokenAt(s), DOMAIN s, Unset),
                       signedIn |-> LastSaid(SignedAt(s), DOMAIN s, Unset)]
<1>1. DOMAIN s = 1 .. Len(s) /\ Len(s) \in Nat
  OBVIOUS
<1>2. SayToken(s) = SetIn(TokenAt(s), DOMAIN s) /\ SaySigned(s) = SetIn(SignedAt(s), DOMAIN s)
  BY DEF SayToken, SaySigned, SetIn, TokenAt, SignedAt
<1>3. Bounded(SayToken(s)) /\ Bounded(SaySigned(s))
  BY <1>1 DEF SayToken, SaySigned, Bounded
<1>4. /\ SayToken(s) # {} => Max(SayToken(s)) \in DOMAIN s
      /\ SaySigned(s) # {} => Max(SaySigned(s)) \in DOMAIN s
  BY <1>1, <1>3, BoundedMax DEF SayToken, SaySigned
<1>5. /\ SayToken(s) # {} => TokenAt(s)[Max(SayToken(s))] = s[Max(SayToken(s))].token
      /\ SaySigned(s) # {} => SignedAt(s)[Max(SaySigned(s))] = s[Max(SaySigned(s))].signedIn
  BY <1>4 DEF TokenAt, SignedAt
<1> QED
  BY <1>2, <1>5 DEF Summary, LastSaid

LEMMA SummaryEmpty == Summary(<<>>) = Nothing
<1>1. SayToken(<<>>) = {} /\ SaySigned(<<>>) = {}
  BY DEF SayToken, SaySigned
<1> QED
  BY <1>1 DEF Summary, Nothing

LEMMA SummaryAppend ==
  ASSUME NEW s \in Seq(Entry), NEW b \in Entry
  PROVE  Append(s, b) \in Seq(Entry) /\ Summary(Append(s, b)) = Over(Summary(s), b)
<1> DEFINE r == Append(s, b)
           n == Len(s) + 1
<1>1. /\ r \in Seq(Entry) /\ Len(s) \in Nat /\ n \in Nat
      /\ DOMAIN r = 1 .. n /\ DOMAIN s = 1 .. Len(s)
      /\ r[n] = b /\ \A i \in 1 .. Len(s) : r[i] = s[i]
  OBVIOUS
<1> HIDE DEF r
<1>2. /\ n \in 1 .. n /\ (\A k \in 1 .. n : k <= n)
      /\ (1 .. n) \ {n} = DOMAIN s
      /\ Bounded(1 .. n) /\ Bounded(DOMAIN s)
  BY <1>1 DEF Bounded
<1>3. /\ TokenAt(r)[n] = b.token /\ SignedAt(r)[n] = b.signedIn
      /\ \A i \in DOMAIN s : TokenAt(r)[i] = TokenAt(s)[i] /\ SignedAt(r)[i] = SignedAt(s)[i]
  BY <1>1, <1>2 DEF TokenAt, SignedAt
<1> HIDE DEF n
<1>4. \A f, g : (\A i \in DOMAIN s : f[i] = g[i])
                => LastSaid(f, DOMAIN s, Unset) = LastSaid(g, DOMAIN s, Unset)
  <2> SUFFICES ASSUME NEW f, NEW g, \A i \in DOMAIN s : f[i] = g[i]
               PROVE  LastSaid(f, DOMAIN s, Unset) = LastSaid(g, DOMAIN s, Unset)
    OBVIOUS
  <2> QED
    BY <1>2, LastSame
<1>5. \A f : LastSaid(f, 1 .. n, Unset) = Say(LastSaid(f, DOMAIN s, Unset), f[n])
  <2> DEFINE I == 1 .. n
  <2>1. Bounded(I) /\ n \in I /\ \A k \in I : k <= n
    BY <1>2
  <2>2. I \ {n} = DOMAIN s
    BY <1>2
  <2> HIDE DEF I
  <2>3. \A f : LastSaid(f, I, Unset) = Say(LastSaid(f, I \ {n}, Unset), f[n])
    BY <2>1, LastGreatest
  <2> QED
    BY <2>2, <2>3 DEF I
<1>6. /\ Summary(r).token = LastSaid(TokenAt(r), 1 .. n, Unset)
      /\ Summary(r).signedIn = LastSaid(SignedAt(r), 1 .. n, Unset)
      /\ Summary(s).token = LastSaid(TokenAt(s), DOMAIN s, Unset)
      /\ Summary(s).signedIn = LastSaid(SignedAt(s), DOMAIN s, Unset)
  BY <1>1, SummaryIs
<1>7. /\ Summary(r).token = Say(Summary(s).token, b.token)
      /\ Summary(r).signedIn = Say(Summary(s).signedIn, b.signedIn)
  <2>1. LastSaid(TokenAt(r), DOMAIN s, Unset) = LastSaid(TokenAt(s), DOMAIN s, Unset)
    BY <1>3, <1>4
  <2>2. LastSaid(SignedAt(r), DOMAIN s, Unset) = LastSaid(SignedAt(s), DOMAIN s, Unset)
    BY <1>3, <1>4
  <2> QED
    BY <1>3, <1>5, <1>6, <2>1, <2>2
<1>8. Summary(r) = [token |-> Summary(r).token, signedIn |-> Summary(r).signedIn]
  BY <1>1, SummaryIs
<1>9. Summary(r) = Over(Summary(s), b)
  BY <1>7, <1>8 DEF Over, Say
<1> QED
  BY <1>1, <1>9 DEF r

\* Any entry that each file's summary is, is one.
LEMMA SummaryType ==
  ASSUME NEW s \in Seq(Entry)
  PROVE  Summary(s) \in Entry
<1>1. /\ Bounded(DOMAIN s)
      /\ \A i \in DOMAIN s : s[i] \in Entry
  <2>1. DOMAIN s = 1 .. Len(s) /\ Len(s) \in Nat
    OBVIOUS
  <2> QED
    BY <2>1 DEF Bounded
<1>2. \A i \in DOMAIN s : /\ TokenAt(s)[i] \in Tokens \union {Unset}
                          /\ SignedAt(s)[i] \in BOOLEAN \union {Unset}
  BY <1>1 DEF TokenAt, SignedAt, Entry
<1>5. \A f, b : LastSaid(f, DOMAIN s, b) = b \/ \E i \in DOMAIN s : LastSaid(f, DOMAIN s, b) = f[i]
  BY <1>1, LastIn
<1>3. LastSaid(TokenAt(s), DOMAIN s, Unset) \in Tokens \union {Unset}
  BY <1>2, <1>5
<1>4. LastSaid(SignedAt(s), DOMAIN s, Unset) \in BOOLEAN \union {Unset}
  BY <1>2, <1>5
<1>6. Summary(s) = [token    |-> LastSaid(TokenAt(s), DOMAIN s, Unset),
                    signedIn |-> LastSaid(SignedAt(s), DOMAIN s, Unset)]
  BY SummaryIs
<1> QED
  BY <1>3, <1>4, <1>6 DEF Entry

LEMMA OverType ==
  ASSUME NEW e \in Entry, NEW d \in Entry
  PROVE  Over(e, d) \in Entry /\ Nothing \in Entry /\ Over(e, Nothing) = e
<1>1. e = [token |-> e.token, signedIn |-> e.signedIn]
  BY DEF Entry
<1> QED
  BY <1>1 DEF Over, Entry, Nothing

-----------------------------------------------------------------------------
(* What several logs say together *)

LEMMA OverAssociates ==
  ASSUME NEW e, NEW d, NEW b
  PROVE  Over(Over(e, d), b) = Over(e, Over(d, b))
BY DEF Over

LEMMA CombinedNone ==
  ASSUME NEW l, NEW e \in Entry
  PROVE  Combined(l, {}, e) = e
<1>1. e = [token |-> e.token, signedIn |-> e.signedIn]
  BY DEF Entry
<1>2. \A f, b : LastSaid(f, {}, b) = b
  BY LastNone
<1> QED
  BY <1>1, <1>2 DEF Combined

LEMMA CombinedFirst ==
  ASSUME NEW l, NEW S, Bounded(S), S \subseteq DOMAIN l, NEW e,
         NEW m \in S, \A k \in S : m <= k
  PROVE  Combined(l, S \ {m}, Over(e, Summary(l[m]))) = Combined(l, S, e)
<1>1. \A f, b : LastSaid(f, S \ {m}, Say(b, f[m])) = LastSaid(f, S, b)
  BY LastFirst
<1>2. TokenIn(l)[m] = Summary(l[m]).token /\ SignedIn(l)[m] = Summary(l[m]).signedIn
  BY DEF TokenIn, SignedIn
<1>3. /\ Over(e, Summary(l[m])).token = Say(e.token, TokenIn(l)[m])
      /\ Over(e, Summary(l[m])).signedIn = Say(e.signedIn, SignedIn(l)[m])
  BY <1>2 DEF Over, Say
<1> QED
  BY <1>1, <1>3 DEF Combined

LEMMA CombinedLast ==
  ASSUME NEW l, NEW S, Bounded(S), S \subseteq DOMAIN l, NEW e,
         NEW m \in S, \A k \in S : k <= m
  PROVE  Combined(l, S, e) = Over(Combined(l, S \ {m}, e), Summary(l[m]))
<1>1. \A f, b : LastSaid(f, S, b) = Say(LastSaid(f, S \ {m}, b), f[m])
  BY LastGreatest
<1>2. TokenIn(l)[m] = Summary(l[m]).token /\ SignedIn(l)[m] = Summary(l[m]).signedIn
  BY DEF TokenIn, SignedIn
<1> QED
  BY <1>1, <1>2 DEF Combined, Over, Say

LEMMA CombinedSame ==
  ASSUME NEW l, NEW r, NEW S, Bounded(S), NEW e,
         S \subseteq DOMAIN l, S \subseteq DOMAIN r,
         \A k \in S : r[k] = l[k]
  PROVE  Combined(r, S, e) = Combined(l, S, e)
<1>1. \A f, g, b : (\A k \in S : f[k] = g[k]) => LastSaid(f, S, b) = LastSaid(g, S, b)
  BY LastSame
<1>2. \A k \in S : TokenIn(r)[k] = TokenIn(l)[k] /\ SignedIn(r)[k] = SignedIn(l)[k]
  BY DEF TokenIn, SignedIn
<1>3. /\ LastSaid(TokenIn(r), S, e.token) = LastSaid(TokenIn(l), S, e.token)
      /\ LastSaid(SignedIn(r), S, e.signedIn) = LastSaid(SignedIn(l), S, e.signedIn)
  BY <1>1, <1>2
<1> QED
  BY <1>3 DEF Combined

\* A batch in the last log has its say over all of them.
LEMMA CombinedAppend ==
  ASSUME NEW l, NEW r, NEW S, Bounded(S), NEW e, NEW b \in Entry,
         S \subseteq DOMAIN l, S \subseteq DOMAIN r,
         NEW m \in S, \A k \in S : k <= m,
         l[m] \in Seq(Entry), r[m] = Append(l[m], b), \A k \in S \ {m} : r[k] = l[k]
  PROVE  Combined(r, S, e) = Over(Combined(l, S, e), b)
<1>1. Bounded(S \ {m})
  BY BoundedSubset
<1>2. Combined(r, S \ {m}, e) = Combined(l, S \ {m}, e)
  BY <1>1, CombinedSame
<1>3. Summary(r[m]) = Over(Summary(l[m]), b)
  BY SummaryAppend
<1>4. \A t : S \subseteq DOMAIN t
              => Combined(t, S, e) = Over(Combined(t, S \ {m}, e), Summary(t[m]))
  BY CombinedLast
<1>5. /\ Combined(r, S, e) = Over(Combined(r, S \ {m}, e), Summary(r[m]))
      /\ Combined(l, S, e) = Over(Combined(l, S \ {m}, e), Summary(l[m]))
  BY <1>4
<1> QED
  BY <1>2, <1>3, <1>5, OverAssociates

-----------------------------------------------------------------------------
(* The desktop client's steps *)

LEMMA FilesFit ==
  ASSUME DesktopTypeOK, ClientInv
  PROVE  /\ \A S : S \subseteq DOMAIN logs => Bounded(S)
         /\ \A n \in DOMAIN logs : /\ n \in Nat /\ flushed <= n /\ n <= newest
                                   /\ logs[n] \in Seq(Entry) /\ Summary(logs[n]) \in Entry
         /\ newest \in DOMAIN logs /\ newest \in Nat /\ flushed \in Nat
         /\ Unflushed = flushed + 1 .. newest /\ newest \in Unflushed
         /\ Unflushed \subseteq DOMAIN logs
<1>1. newest \in Nat /\ flushed \in Nat /\ flushed < newest
  BY BoundsAssumption DEF DesktopTypeOK, ClientInv
<1>2. DOMAIN logs \in SUBSET (0 .. newest)
  BY <1>1 DEF ClientInv
<1>3. \A S : S \subseteq DOMAIN logs => Bounded(S)
  BY <1>1, <1>2 DEF Bounded
<1>4. newest \in flushed + 1 .. newest /\ flushed + 1 .. newest \subseteq DOMAIN logs
  BY <1>1 DEF ClientInv
<1>5. Unflushed = flushed + 1 .. newest
  BY <1>1, <1>2, <1>4 DEF Unflushed
<1>6. \A n \in DOMAIN logs : logs[n] \in Seq(Entry) /\ Summary(logs[n]) \in Entry
  BY SummaryType DEF DesktopTypeOK
<1>7. \A n \in DOMAIN logs : n \in Nat /\ flushed <= n /\ n <= newest
  BY <1>1, <1>2 DEF ClientInv
<1> QED
  BY <1>1, <1>3, <1>4, <1>5, <1>6, <1>7

\* What the logs of S say after a batch was written.
LEMMA CommitCombined ==
  ASSUME DesktopTypeOK, ClientInv, NEW batch \in Entry, Commit(batch),
         NEW S, S \subseteq DOMAIN logs, NEW e
  PROVE  Combined(logs', S, e) = IF newest \in S THEN Over(Combined(logs, S, e), batch)
                                 ELSE Combined(logs, S, e)
<1>1. /\ DOMAIN logs' = DOMAIN logs /\ newest \in DOMAIN logs
      /\ logs'[newest] = Append(logs[newest], batch)
      /\ \A k \in DOMAIN logs : k # newest => logs'[k] = logs[k]
  BY FilesFit DEF Commit
<1>2. Bounded(S) /\ \A k \in S : k <= newest
  BY FilesFit
<1>3. CASE newest \in S
  <2>1. logs[newest] \in Seq(Entry)
    BY FilesFit
  <2>2. \A k \in S \ {newest} : logs'[k] = logs[k]
    BY <1>1
  <2> QED
    BY <1>1, <1>2, <1>3, <2>1, <2>2, CombinedAppend, SMTT(20)
<1>4. CASE newest \notin S
  <2>1. \A k \in S : logs'[k] = logs[k]
    BY <1>1, <1>4
  <2> QED
    BY <1>1, <1>2, <1>4, <2>1, CombinedSame
<1> QED
  BY <1>3, <1>4

\* A batch that says what the session's token is from now on.
Tells(batch) ==
    /\ batch \in Entry /\ batch.token # Unset
    /\ issued' \in Tokens /\ issued <= issued'
    /\ session'.signedIn <=> session'.token # 0
    /\ session'.token \in {0, issued'}
    /\ session' \in [token : Tokens, signedIn : BOOLEAN]
    /\ session'.token = batch.token
    /\ session'.signedIn = IF batch.signedIn = Unset THEN session.signedIn ELSE batch.signedIn

LEMMA CommitKeepsTypes ==
  ASSUME DesktopInv, NEW batch, Tells(batch), Commit(batch),
         UNCHANGED <<cached, call, answer, reads, readFaults>>
  PROVE  DesktopTypeOK'
<1>1. /\ DOMAIN logs' = DOMAIN logs
      /\ \A n \in DOMAIN logs' : logs'[n] \in Seq(Entry)
  <2>1. Append(logs[newest], batch) \in Seq(Entry)
    BY FilesFit, SummaryAppend DEF DesktopInv, Tells
  <2> QED
    BY <2>1, FilesFit DEF Commit, DesktopInv
<1>2. Current' \in Tokens
  BY BoundsAssumption DEF Tells, Current, Tokens
<1>3. seen' \in [Readers -> SUBSET Tokens]
  BY <1>2 DEF Commit, DesktopInv, DesktopTypeOK
<1> QED
  BY <1>1, <1>3 DEF DesktopTypeOK, DesktopInv, Commit, Tells

LEMMA CommitKeepsFiles ==
  ASSUME DesktopInv, NEW batch, Tells(batch), Commit(batch)
  PROVE  ClientInv'
<1> USE DEF DesktopInv
<1>0. batch \in Entry
  BY DEF Tells
<1>1. /\ DOMAIN logs' = DOMAIN logs /\ newest \in DOMAIN logs
      /\ logs'[newest] = Append(logs[newest], batch)
      /\ \A k \in DOMAIN logs : k # newest => logs'[k] = logs[k]
      /\ UNCHANGED <<newest, flushed, tables>>
  BY FilesFit DEF Commit
<1>2. Unflushed' = Unflushed /\ newest \in Unflushed /\ Unflushed \subseteq DOMAIN logs
  BY <1>1, FilesFit DEF Unflushed
<1>3. Combined(logs, Unflushed, tables)' = Over(Combined(logs, Unflushed, tables), batch)
  BY <1>0, <1>1, <1>2, CommitCombined
<1>4. IsSession(Combined(logs, Unflushed, tables))
  BY DEF ClientInv
<1>5. IsSession(Combined(logs, Unflushed, tables))'
  <2> DEFINE w == Combined(logs, Unflushed, tables)
  <2>1. IsSession(w)
    BY <1>4
  <2> HIDE DEF w
  <2>2. /\ Over(w, batch).token = session'.token
        /\ \/ Over(w, batch).signedIn = session'.signedIn
           \/ Over(w, batch).signedIn = Unset /\ session'.signedIn = FALSE
    BY <2>1 DEF IsSession, Over, Tells
  <2>3. Combined(logs, Unflushed, tables)' = Over(w, batch)
    BY <1>3 DEF w
  <2> QED
    BY <2>2, <2>3 DEF IsSession
<1>6. \A n \in DOMAIN logs : Summary(logs'[n]) =
         IF n = newest THEN Over(Summary(logs[n]), batch) ELSE Summary(logs[n])
  BY <1>0, <1>1, FilesFit, SummaryAppend
<1>7. issued \in Nat /\ issued' \in Nat /\ issued <= issued'
  BY BoundsAssumption DEF DesktopTypeOK, Tells, Tokens
<1>8. batch.token \in Nat /\ batch.token <= issued'
  BY <1>7, BoundsAssumption, UnsetAssumption DEF Tells, Entry, Tokens
<1>9. ASSUME NEW e \in Entry, Old(e) PROVE Old(e)' /\ Old(Over(e, batch))'
  <2>1. e.token = Unset \/ e.token \in Nat
    BY DEF Entry, Tokens
  <2> QED
    BY <1>7, <1>8, <1>9, <2>1 DEF Old, Over
<1>10. \A n \in DOMAIN logs' : Old(Summary(logs[n]))'
  BY <1>1, <1>6, <1>9, FilesFit DEF ClientInv, Old
<1>11. Old(tables)'
  BY <1>1, <1>9 DEF DesktopTypeOK, ClientInv, Old
<1>12. flushed \in DOMAIN logs => logs'[flushed] = logs[flushed]
  BY <1>1 DEF ClientInv, DesktopTypeOK
<1> QED
  BY <1>1, <1>5, <1>10, <1>11, <1>12 DEF ClientInv, Tells

LEMMA CommitKeepsReaders ==
  ASSUME DesktopInv, NEW batch, Tells(batch), Commit(batch),
         UNCHANGED <<cached, call, answer, reads, readFaults>>, NEW c \in Readers
  PROVE  ReaderInv(c)'
<1> USE DEF DesktopInv
<1>0. ReaderInv(c) /\ batch \in Entry
  BY DEF Tells
<1>1. /\ DOMAIN logs' = DOMAIN logs
      /\ UNCHANGED <<newest, flushed, tables, changed, call, cached>>
      /\ seen'[c] = seen[c] \union {Current'}
  BY DEF Commit
<1>2. /\ Current' = session'.token /\ Current' \in {0, issued'}
      /\ session'.signedIn = FALSE => Current' = 0
  BY DEF Current, Tells
<1>3. issued \in Nat /\ issued' \in Nat /\ issued <= issued' /\ cached \in Nat /\ cached <= issued
  BY BoundsAssumption DEF DesktopTypeOK, Tells, Tokens
<1>4. Current' # 0 => Current' >= cached'
  BY <1>1, <1>2, <1>3
<1>5. Old(call[c].found)'
  <2>1. call[c].found \in Entry
    BY DEF DesktopTypeOK, Call
  <2>2. call[c].found.token = Unset \/ call[c].found.token \in Nat
    BY <2>1 DEF Entry, Tokens
  <2> QED
    BY <1>0, <1>1, <1>3, <2>2 DEF ReaderInv, Old
<1>6. Counting(c)' = Counting(c)
  BY <1>1 DEF Counting
<1>7. ASSUME Counting(c) \subseteq DOMAIN logs
      PROVE  WillFind(c)' = IF newest \in Counting(c) THEN Over(WillFind(c), batch) ELSE WillFind(c)
  <2> DEFINE e == IF call[c].at = "tables" THEN tables ELSE call[c].found
  <2>1. /\ WillFind(c) = Combined(logs, Counting(c), e)
        /\ WillFind(c)' = Combined(logs', Counting(c), e)
    BY <1>1, <1>6 DEF WillFind
  <2> HIDE DEF e
  <2> QED
    BY <1>0, <1>7, <2>1, CommitCombined
<1>8. ASSUME NEW w, Seen(c, w)
      PROVE  Seen(c, w)' /\ Seen(c, Over(w, batch))' /\ Over(w, batch).token # Unset
  <2>1. Over(w, batch).token = Current' /\ Over(w, batch).token # Unset
    BY <1>2 DEF Over, Tells
  <2>2. Over(w, batch).signedIn = FALSE => w.signedIn = FALSE \/ session'.signedIn = FALSE
    BY UnsetAssumption DEF Over, Tells
  <2> QED
    BY <1>1, <1>2, <1>8, <2>1, <2>2 DEF Seen
<1>9. ASSUME Counting(c) \subseteq DOMAIN logs, Seen(c, WillFind(c))
      PROVE  /\ Seen(c, WillFind(c))'
             /\ WillFind(c)'.token = Unset => WillFind(c).token = Unset
  BY <1>7, <1>8, <1>9 DEF Seen
<1>10. Reading(c) => Counting(c) = call[c].todo
  BY DEF Reading, Counting
<1>11. call[c].at = "tables" /\ call[c].version = flushed => Counting(c) \subseteq DOMAIN logs
  <2>1. call[c].todo \subseteq 1 .. newest
    BY <1>0 DEF ReaderInv
  <2> QED
    BY <2>1, FilesFit DEF Counting
<1>12. call[c].at = "open" => Counting(c) = {}
  BY <1>0 DEF ReaderInv, Counting
<1>13. Reading(c)' = Reading(c) /\ Copying(c)' = Copying(c)
  BY <1>1 DEF Reading, Copying
<1>14. Reading(c) \/ Copying(c) =>
         Current' \in seen'[c] /\ \A t \in seen'[c] : t # 0 => t >= cached'
  BY <1>0, <1>1, <1>4 DEF ReaderInv
<1>15. Reading(c) /\ ~ call[c].missed /\ call[c].todo \subseteq DOMAIN logs
         => Seen(c, WillFind(c))'
  BY <1>0, <1>9, <1>10 DEF ReaderInv
<1>16. \/ call[c].at = "tables" /\ call[c].version = flushed
       \/ call[c].at \in {"copy", "open"} /\ Counting(c) \subseteq DOMAIN logs
       => Seen(c, WillFind(c))' /\ (WillFind(c)'.token = Unset => 0 \in seen'[c])
  BY <1>0, <1>1, <1>9, <1>11 DEF ReaderInv
<1> QED
  BY <1>0, <1>1, <1>5, <1>6, <1>13, <1>14, <1>15, <1>16 DEF ReaderInv

\* The client writes a batch.
LEMMA WriteStep ==
  ASSUME DesktopInv, ClientWrites,
         UNCHANGED <<cached, call, answer, reads, readFaults>>
  PROVE  DesktopInv'
<1> USE DEF DesktopInv
<1>0. /\ session \in [token : Tokens, signedIn : BOOLEAN] /\ issued \in Nat /\ MaxToken \in Nat
      /\ issued \in Tokens
  BY BoundsAssumption DEF DesktopTypeOK, Tokens
<1>1. \E batch : Tells(batch) /\ Commit(batch)
  <2>1. CASE ClientGetsToken
    <3> DEFINE b == [token |-> issued', signedIn |-> IF session.signedIn THEN Unset ELSE TRUE]
    <3>1. issued' = issued + 1 /\ Commit(b) /\ issued' \in Tokens /\ issued' # 0
      BY <1>0, <2>1 DEF ClientGetsToken, Tokens
    <3>2. b \in Entry /\ b.token # Unset
      BY <1>0, <3>1, UnsetAssumption DEF Entry, Tokens
    <3>3. /\ session' = Over(session, b) /\ session'.token = issued' /\ session'.signedIn = TRUE
          /\ session'.signedIn = IF b.signedIn = Unset THEN session.signedIn ELSE b.signedIn
      BY <1>0, <3>1, <3>2, UnsetAssumption DEF Commit, Over
    <3>4. session' \in [token : Tokens, signedIn : BOOLEAN]
      BY <3>1, <3>3 DEF Over
    <3>5. issued <= issued'
      BY <1>0, <3>1
    <3>6. Tells(b)
      BY <3>1, <3>2, <3>3, <3>4, <3>5 DEF Tells
    <3> QED
      BY <3>1, <3>6
  <2>2. CASE ClientSignsOut /\ UNCHANGED issued
    <3> DEFINE b == [token |-> 0, signedIn |-> FALSE]
    <3>1. Commit(b) /\ 0 \in Tokens
      BY <1>0, <2>2 DEF ClientSignsOut, Tokens
    <3>2. b \in Entry /\ b.token # Unset
      BY <3>1, UnsetAssumption DEF Entry
    <3>3. /\ session' = Over(session, b) /\ session'.token = 0 /\ session'.signedIn = FALSE
          /\ session'.token = b.token
          /\ session'.signedIn = IF b.signedIn = Unset THEN session.signedIn ELSE b.signedIn
      BY <3>1, <3>2, UnsetAssumption DEF Commit, Over
    <3>4. session' \in [token : Tokens, signedIn : BOOLEAN]
      BY <3>1, <3>3 DEF Over
    <3>5. issued' \in Tokens /\ issued <= issued'
      BY <1>0, <2>2
    <3> HIDE DEF b
    <3>6. Tells(b)
      BY <3>5, <3>1, <3>2, <3>3, <3>4 DEF Tells
    <3> QED
      BY <3>1, <3>6
  <2> QED
    BY <2>1, <2>2 DEF ClientWrites, ClientSignsOut
<1>2. PICK batch : Tells(batch) /\ Commit(batch)
  BY <1>1
<1>3. DesktopTypeOK' /\ ClientInv' /\ \A c \in Readers : ReaderInv(c)'
  BY <1>2, CommitKeepsTypes, CommitKeepsFiles, CommitKeepsReaders
<1>4. OneReader'
  BY DEF OneReader
<1>5. cached' <= issued'
  BY <1>0, <1>2, BoundsAssumption DEF Tells, DesktopTypeOK, Tokens
<1> QED
  BY <1>3, <1>4, <1>5

\* What a change of the files leaves as it is.
OnlyFiles ==
    /\ FilesChange /\ UNCHANGED <<cached, call, answer, reads, readFaults>>
    /\ newest' \in newest .. MaxLog /\ flushed' \in flushed .. MaxLog
    /\ flushed' = flushed => tables' = tables
    /\ \A n \in DOMAIN logs' : n <= newest => n \in DOMAIN logs /\ logs'[n] = logs[n]

LEMMA FilesKeepReaders ==
  ASSUME DesktopInv, OnlyFiles, ClientInv', DesktopTypeOK', NEW c \in Readers
  PROVE  ReaderInv(c)'
<1> USE DEF DesktopInv
<1>0. ReaderInv(c) /\ call[c] \in Call
  BY DEF DesktopTypeOK
<1>1. /\ UNCHANGED <<session, issued, seen, call, cached>> /\ changed'[c] = TRUE
      /\ newest \in Nat /\ flushed \in Nat /\ newest' \in Nat /\ flushed' \in Nat
      /\ newest <= newest' /\ flushed <= flushed' /\ call[c].version \in Nat
      /\ UNCHANGED Current
  BY <1>0, BoundsAssumption DEF OnlyFiles, FilesChange, DesktopTypeOK, Call, Current
<1>2. call[c].todo \subseteq 1 .. newest /\ call[c].version <= flushed
  BY <1>0 DEF ReaderInv
<1>3. call[c].todo \subseteq 1 .. newest' /\ call[c].version <= flushed'
  BY <1>1, <1>2
<1>4. Counting(c)' = Counting(c) /\ Counting(c) \subseteq call[c].todo
  BY <1>1 DEF Counting
<1>5. ASSUME Counting(c) \subseteq DOMAIN logs', call[c].at = "tables" => flushed' = flushed
      PROVE  Counting(c) \subseteq DOMAIN logs /\ WillFind(c)' = WillFind(c)
  <2> DEFINE e == IF call[c].at = "tables" THEN tables ELSE call[c].found
  <2>1. /\ WillFind(c) = Combined(logs, Counting(c), e)
        /\ WillFind(c)' = Combined(logs', Counting(c), e)
    BY <1>1, <1>4, <1>5 DEF WillFind, OnlyFiles
  <2> HIDE DEF e
  <2>2. \A n \in Counting(c) : n \in Nat /\ n <= newest
    BY <1>2, <1>4
  <2>3. Counting(c) \subseteq DOMAIN logs /\ \A n \in Counting(c) : logs'[n] = logs[n]
    BY <1>5, <2>2 DEF OnlyFiles
  <2>4. Bounded(Counting(c))
    BY <2>3, FilesFit
  <2> QED
    BY <1>5, <2>1, <2>3, <2>4, CombinedSame
<1>6. Reading(c)' = Reading(c) /\ Copying(c)' = Copying(c)
  BY <1>1 DEF Reading, Copying
<1>7. ASSUME Reading(c), ~ call[c].missed, call[c].todo \subseteq DOMAIN logs'
      PROVE  Seen(c, WillFind(c))'
  <2>1. Counting(c) = call[c].todo /\ call[c].at # "tables"
    BY <1>7 DEF Reading, Counting
  <2> QED
    BY <1>0, <1>1, <1>5, <1>7, <2>1 DEF ReaderInv, Seen
<1>8. ASSUME \/ call[c].at = "tables" /\ call[c].version = flushed'
             \/ call[c].at \in {"copy", "open"} /\ Counting(c) \subseteq DOMAIN logs'
      PROVE  Seen(c, WillFind(c))' /\ (WillFind(c)'.token = Unset => 0 \in seen'[c])
  <2>1. CASE call[c].at = "tables" /\ call[c].version = flushed'
    <3>1. flushed' = flushed
      BY <1>1, <1>2, <2>1
    <3>2. flushed' + 1 .. newest' \subseteq DOMAIN logs'
      BY DEF ClientInv
    <3>3. Counting(c) \subseteq flushed' + 1 .. newest'
      BY <1>1, <1>3, <2>1 DEF Counting
    <3> QED
      BY <1>0, <1>1, <1>5, <2>1, <3>1, <3>2, <3>3 DEF ReaderInv, Seen
  <2>2. CASE call[c].at \in {"copy", "open"} /\ Counting(c) \subseteq DOMAIN logs'
    BY <1>0, <1>1, <1>5, <2>2 DEF ReaderInv, Seen
  <2> QED
    BY <1>8, <2>1, <2>2
<1>9. Reading(c) \/ Copying(c) =>
        Current' \in seen'[c] /\ \A t \in seen'[c] : t # 0 => t >= cached'
  BY <1>0, <1>1 DEF ReaderInv
<1>10. Old(call[c].found)'
  BY <1>0, <1>1 DEF ReaderInv, Old
<1> QED
  BY <1>0, <1>1, <1>3, <1>4, <1>6, <1>7, <1>8, <1>9, <1>10 DEF ReaderInv

\* A change of the files that keeps the session in them.
LEMMA FilesStep ==
  ASSUME DesktopInv, OnlyFiles, ClientInv',
         DOMAIN logs' \subseteq 1 .. MaxLog, \A n \in DOMAIN logs' : logs'[n] \in Seq(Entry),
         tables' \in Entry
  PROVE  DesktopInv'
<1>1. DesktopTypeOK'
  <2>1. changed' \in [Readers -> BOOLEAN]
    BY DEF OnlyFiles, FilesChange
  <2>2. newest' \in 1 .. MaxLog /\ flushed' \in 0 .. MaxLog
    BY BoundsAssumption DEF OnlyFiles, DesktopInv, DesktopTypeOK
  <2> QED
    BY <2>1, <2>2 DEF OnlyFiles, FilesChange, DesktopInv, DesktopTypeOK
<1>2. \A c \in Readers : ReaderInv(c)'
  BY <1>1, FilesKeepReaders
<1>3. OneReader' /\ cached' <= issued'
  BY DEF OnlyFiles, FilesChange, DesktopInv, OneReader
<1> QED
  BY <1>1, <1>2, <1>3 DEF DesktopInv

LEMMA NewLogStep ==
  ASSUME DesktopInv, NewLog, UNCHANGED <<cached, call, answer, reads, readFaults>>
  PROVE  DesktopInv'
<1> USE DEF DesktopInv
<1>1. /\ newest \in Nat /\ newest' = newest + 1 /\ newest' \in newest .. MaxLog
      /\ flushed \in Nat /\ flushed < newest /\ flushed \in flushed .. MaxLog
      /\ newest' \in 1 .. MaxLog
      /\ UNCHANGED <<flushed, tables, session, issued>> /\ FilesChange
  BY BoundsAssumption DEF NewLog, DesktopTypeOK, ClientInv, FilesChange
<1>2. \A n \in DOMAIN logs : n \in Nat /\ n # newest' /\ n < newest'
  BY <1>1, FilesFit
<1>3. /\ DOMAIN logs' = DOMAIN logs \union {newest'} /\ logs'[newest'] = <<>>
      /\ \A n \in DOMAIN logs : logs'[n] = logs[n]
  BY <1>2 DEF NewLog
<1>4. \A n \in DOMAIN logs' : n <= newest => n \in DOMAIN logs /\ logs'[n] = logs[n]
  BY <1>1, <1>3
<1>5. OnlyFiles
  BY <1>1, <1>4 DEF OnlyFiles
<1>6. /\ DOMAIN logs' \subseteq 1 .. MaxLog
      /\ \A n \in DOMAIN logs' : logs'[n] \in Seq(Entry)
      /\ tables' \in Entry
  <2>1. <<>> \in Seq(Entry)
    OBVIOUS
  <2> QED
    BY <1>1, <1>3, <2>1 DEF DesktopTypeOK
<1>7. /\ Summary(logs'[newest']) = Nothing
      /\ \A n \in DOMAIN logs : Summary(logs'[n]) = Summary(logs[n])
  BY <1>3, SummaryEmpty
<1>8. IsSession(Combined(logs, Unflushed, tables))'
  <2> DEFINE S == Unflushed \union {newest'}
             w == Combined(logs, Unflushed, tables)
  <2>1. Unflushed' = S /\ S \ {newest'} = Unflushed /\ newest' \in S /\ S \subseteq DOMAIN logs'
    BY <1>1, <1>2, <1>3 DEF Unflushed
  <2>2. Bounded(S) /\ Bounded(Unflushed) /\ \A k \in S : k <= newest'
    <3>1. S \in SUBSET (0 .. newest')
      BY <1>1, <1>2 DEF Unflushed
    <3> QED
      BY <1>1, <3>1, FilesFit DEF Bounded
  <2>3. Combined(logs', Unflushed, tables) = w
    <3>1. /\ Unflushed \subseteq DOMAIN logs /\ Unflushed \subseteq DOMAIN logs'
          /\ \A k \in Unflushed : logs'[k] = logs[k]
      BY <1>3 DEF Unflushed
    <3>2. Bounded(Unflushed)
      BY <2>2
    <3> QED
      BY <3>1, <3>2, CombinedSame
  <2> HIDE DEF S, w
  <2>4. Combined(logs', S, tables)
          = Over(Combined(logs', S \ {newest'}, tables), Summary(logs'[newest']))
    BY <2>1, <2>2, CombinedLast
  <2>5. Combined(logs, Unflushed, tables)' = Over(w, Nothing)
    BY <1>1, <1>7, <2>1, <2>3, <2>4
  <2>6. Over(w, Nothing).token = w.token /\ Over(w, Nothing).signedIn = w.signedIn
    BY DEF Over, Nothing
  <2>7. IsSession(w)
    BY DEF w, ClientInv
  <2> QED
    BY <1>1, <2>5, <2>6, <2>7 DEF IsSession
<1>9. \A n \in DOMAIN logs' : Old(Summary(logs[n]))'
  BY <1>1, <1>3, <1>7 DEF ClientInv, Old, Nothing
<1>10. flushed < newest' /\ flushed + 1 .. newest' \subseteq DOMAIN logs'
       /\ DOMAIN logs' \subseteq flushed .. newest'
  BY <1>1, <1>3 DEF ClientInv
<1>11. flushed \in DOMAIN logs' => flushed \in DOMAIN logs /\ logs'[flushed] = logs[flushed]
  BY <1>1, <1>3
<1>12. ClientInv'
  BY <1>1, <1>8, <1>9, <1>10, <1>11 DEF ClientInv, Old
<1> QED
  BY <1>5, <1>6, <1>12, FilesStep

LEMMA FlushStep ==
  ASSUME DesktopInv, Flush, UNCHANGED <<cached, call, answer, reads, readFaults>>
  PROVE  DesktopInv'
<1> USE DEF DesktopInv
<1> DEFINE m == flushed + 1
<1>1. /\ newest \in Nat /\ newest \in newest .. MaxLog /\ newest <= MaxLog
      /\ flushed \in Nat /\ flushed + 1 < newest /\ flushed \notin DOMAIN logs
      /\ flushed' = m /\ m \in flushed .. MaxLog /\ m # flushed
      /\ UNCHANGED <<newest, logs, session, issued>> /\ FilesChange
  BY BoundsAssumption DEF Flush, DesktopTypeOK, ClientInv, FilesChange
<1>2. /\ m \in DOMAIN logs /\ m \in Unflushed /\ Unflushed = m .. newest
      /\ Unflushed \subseteq DOMAIN logs /\ Bounded(Unflushed)
      /\ \A k \in Unflushed : m <= k
  BY <1>1, FilesFit
<1>3. tables' = Over(tables, Summary(logs[m])) /\ Summary(logs[m]) \in Entry
  BY <1>1, <1>2, FilesFit DEF Flush, Add
<1>4. OnlyFiles
  BY <1>1 DEF OnlyFiles
<1>5. /\ DOMAIN logs' \subseteq 1 .. MaxLog
      /\ \A n \in DOMAIN logs' : logs'[n] \in Seq(Entry)
      /\ tables' \in Entry
  BY <1>1, <1>3, OverType DEF DesktopTypeOK
<1>6. m < newest /\ m + 1 .. newest \subseteq DOMAIN logs /\ DOMAIN logs \subseteq m .. newest
  BY <1>1, <1>2 DEF ClientInv
<1>7. IsSession(Combined(logs, Unflushed, tables))'
  <2>1. Unflushed' = Unflushed \ {m}
    BY <1>1, <1>2, FilesFit DEF Unflushed
  <2> HIDE DEF m
  <2>2. Combined(logs, Unflushed \ {m}, Over(tables, Summary(logs[m])))
          = Combined(logs, Unflushed, tables)
    BY <1>2, CombinedFirst
  <2>3. Combined(logs, Unflushed, tables)' = Combined(logs, Unflushed, tables)
    BY <1>1, <1>3, <2>1, <2>2
  <2> QED
    BY <1>1, <2>3 DEF ClientInv, IsSession
<1>8. Old(tables)'
  BY <1>1, <1>2, <1>3 DEF ClientInv, Old, Over
<1>9. /\ Summary(logs[m]).token \in {Unset, tables'.token}
      /\ Summary(logs[m]).signedIn \in {Unset, tables'.signedIn}
  BY <1>3 DEF Over
<1>10. ClientInv'
  BY <1>1, <1>6, <1>7, <1>8, <1>9 DEF ClientInv, Old
<1> QED
  BY <1>4, <1>5, <1>10, FilesStep

LEMMA RemoveLogStep ==
  ASSUME DesktopInv, RemoveLog, UNCHANGED <<cached, call, answer, reads, readFaults>>
  PROVE  DesktopInv'
<1> USE DEF DesktopInv
<1>1. /\ newest \in Nat /\ newest \in newest .. MaxLog
      /\ flushed \in Nat /\ flushed < newest /\ flushed \in flushed .. MaxLog
      /\ DOMAIN logs' = DOMAIN logs \ {flushed}
      /\ \A n \in DOMAIN logs' : n \in DOMAIN logs /\ logs'[n] = logs[n]
      /\ UNCHANGED <<newest, flushed, tables, session, issued>> /\ FilesChange
  BY BoundsAssumption DEF RemoveLog, DesktopTypeOK, ClientInv, FilesChange
<1>2. OnlyFiles
  BY <1>1 DEF OnlyFiles
<1>3. /\ DOMAIN logs' \subseteq 1 .. MaxLog
      /\ \A n \in DOMAIN logs' : logs'[n] \in Seq(Entry)
      /\ tables' \in Entry
  BY <1>1 DEF DesktopTypeOK
<1>4. Unflushed' = Unflushed /\ Unflushed \subseteq DOMAIN logs' /\ Unflushed \subseteq DOMAIN logs
  BY <1>1, FilesFit DEF Unflushed
<1>5. Combined(logs, Unflushed, tables)' = Combined(logs, Unflushed, tables)
  <2>1. Bounded(Unflushed)
    BY FilesFit
  <2> QED
    BY <1>1, <1>4, <2>1, CombinedSame
<1>6. flushed + 1 .. newest \subseteq DOMAIN logs' /\ DOMAIN logs' \subseteq flushed .. newest
  BY <1>1, <1>4, FilesFit DEF ClientInv
<1>7. ClientInv'
  BY <1>1, <1>5, <1>6 DEF ClientInv, IsSession, Old
<1> QED
  BY <1>2, <1>3, <1>7, FilesStep

LEMMA ClientStep ==
  ASSUME DesktopInv, Client
  PROVE  DesktopInv'
BY WriteStep, NewLogStep, FlushStep, RemoveLogStep DEF Client

-----------------------------------------------------------------------------
(* The readers' steps *)

Quiet == {"idle", "cached", "wait", "glob"}

\* A caller that reads nothing.
LEMMA QuietReader ==
  ASSUME DesktopInv, UNCHANGED client, NEW c \in Readers,
         call'[c].at \in Quiet, call'[c].found = Nothing, ~ call'[c].missed,
         call'[c].todo = {}, call'[c].version \in Nat, call'[c].version <= flushed
  PROVE  ReaderInv(c)'
<1>1. ~ Reading(c)' /\ ~ Copying(c)'
  BY DEF Reading, Copying, Quiet
<1>2. Old(call[c].found)'
  BY DEF Old, Nothing
<1>3. call'[c].at \notin {"decide", "list", "tables", "copy", "open"}
  BY DEF Quiet
<1>4. call'[c].version <= flushed' /\ call'[c].todo \subseteq 1 .. newest'
  BY DEF client
<1> QED
  BY <1>1, <1>2, <1>3, <1>4 DEF ReaderInv

\* A step of caller c leaves the other callers as they are.
ReaderMoves(c) ==
    /\ UNCHANGED client
    /\ call' \in [Readers -> Call] /\ \A d \in Readers : d # c => call'[d] = call[d]
    /\ answer' \in [Readers -> Tokens]
    /\ seen' \in [Readers -> SUBSET Tokens] /\ changed' \in [Readers -> BOOLEAN]
    /\ \A d \in Readers : d # c => seen'[d] = seen[d] /\ changed'[d] = changed[d]
    /\ cached' \in Tokens /\ cached' <= issued
    /\ cached' # cached => call[c].at \in Locked
    /\ call'[c].at \in Locked => call[c].at \in Locked \/ CacheUnlocked
    /\ reads' \in 0 .. MaxReads /\ readFaults' \in 0 .. MaxReadFaults

LEMMA ReaderStep ==
  ASSUME DesktopInv, NEW c \in Readers, ReaderMoves(c), ReaderInv(c)'
  PROVE  DesktopInv'
<1> USE DEF DesktopInv
<1>1. UNCHANGED <<session, issued, logs, newest, flushed, tables>>
  BY DEF ReaderMoves, client
<1>2. DesktopTypeOK'
  BY <1>1 DEF ReaderMoves, DesktopTypeOK
<1>3. ClientInv'
  BY <1>1 DEF ClientInv, Unflushed, IsSession, Old
<1>4. OneReader'
  BY DEF ReaderMoves, OneReader, CacheUnlocked
<1>5. cached' <= issued'
  BY <1>1 DEF ReaderMoves
<1>6. ASSUME NEW d \in Readers, d # c PROVE ReaderInv(d)'
  <2>1. call'[d] = call[d] /\ seen'[d] = seen[d] /\ changed'[d] = changed[d] /\ ReaderInv(d)
    BY <1>6 DEF ReaderMoves
  <2>2. Reading(d)' = Reading(d) /\ Copying(d)' = Copying(d) /\ Counting(d)' = Counting(d)
        /\ WillFind(d)' = WillFind(d) /\ Current' = Current
    BY <1>1, <2>1 DEF Reading, Copying, Counting, WillFind, Current
  <2>3. Reading(d) \/ Copying(d) => cached' = cached
    BY <1>6 DEF ReaderMoves, Reading, Copying, OneReader, Locked
  <2>4. Reading(d) \/ Copying(d) =>
          Current' \in seen'[d] /\ \A t \in seen'[d] : t # 0 => t >= cached'
    BY <2>1, <2>2, <2>3 DEF ReaderInv
  <2>5. /\ Old(call[d].found)'
        /\ Seen(d, WillFind(d)) => Seen(d, WillFind(d))'
    BY <1>1, <2>1, <2>2 DEF ReaderInv, Old, Seen
  <2> QED
    BY <1>1, <2>1, <2>2, <2>4, <2>5 DEF ReaderInv
<1> QED
  BY <1>2, <1>3, <1>4, <1>5, <1>6

\* A call ends with the token.
LEMMA EndStep ==
  ASSUME DesktopInv, NEW c \in Readers, NEW token \in Tokens, EndRead(c, token),
         UNCHANGED client, UNCHANGED history,
         cached' = cached \/ (cached' = token /\ token <= issued /\ call[c].at \in Locked),
         reads' \in 0 .. MaxReads, readFaults' \in 0 .. MaxReadFaults
  PROVE  DesktopInv'
<1>1. Idle \in Call
  BY BoundsAssumption DEF Idle, Call, Nothing, Entry
<1>2. /\ call' = [call EXCEPT ![c] = Idle] /\ call \in [Readers -> Call] /\ call'[c] = Idle
  BY DEF EndRead, DesktopInv, DesktopTypeOK
<1>3. ReaderMoves(c)
  BY <1>1, <1>2 DEF EndRead, DesktopInv, DesktopTypeOK, history, ReaderMoves, Idle, Locked
<1>4. ReaderInv(c)'
  <2>1. /\ call'[c].at \in Quiet /\ call'[c].found = Nothing /\ ~ call'[c].missed
        /\ call'[c].todo = {} /\ call'[c].version \in Nat /\ call'[c].version <= flushed
    BY <1>2, BoundsAssumption DEF Idle, Quiet, DesktopInv, DesktopTypeOK
  <2> QED
    BY <2>1, QuietReader
<1> QED
  BY <1>3, <1>4, ReaderStep

\* A call goes on, where the record of c becomes new.
LEMMA GoOn ==
  ASSUME DesktopInv, NEW c \in Readers, NEW new \in Call, call' = [call EXCEPT ![c] = new],
         UNCHANGED <<client, answer, cached>>,
         new.at \in Locked => call[c].at \in Locked \/ CacheUnlocked,
         seen' \in [Readers -> SUBSET Tokens], changed' \in [Readers -> BOOLEAN],
         \A d \in Readers : d # c => seen'[d] = seen[d] /\ changed'[d] = changed[d],
         reads' \in 0 .. MaxReads, readFaults' \in 0 .. MaxReadFaults
  PROVE  ReaderMoves(c) /\ call'[c] = new
BY DEF DesktopInv, DesktopTypeOK, ReaderMoves

\* Before the files are listed.
LEMMA BeginStep ==
  ASSUME DesktopInv, NEW c \in Readers, BeginRead(c), UNCHANGED client
  PROVE  DesktopInv'
<1> USE DEF DesktopInv
<1>1. PICK refresh \in BOOLEAN :
        call' = [call EXCEPT ![c] = [Idle EXCEPT
                   !.refresh = refresh, !.at = IF refresh THEN "wait" ELSE "cached"]]
  BY DEF BeginRead
<1> DEFINE new == [Idle EXCEPT !.refresh = refresh, !.at = IF refresh THEN "wait" ELSE "cached"]
<1>2. /\ new.at \in {"wait", "cached"} /\ new.found = Nothing /\ new.todo = {} /\ new.version = 0
      /\ new.missed = FALSE
  BY DEF Idle
<1>3. new \in Call
  <2>1. (IF refresh THEN "wait" ELSE "cached") \in {"wait", "cached"}
    OBVIOUS
  <2>2. Idle \in Call
    BY BoundsAssumption DEF Idle, Call, Nothing, Entry
  <2> QED
    BY <2>1, <2>2 DEF Call
<1>4. reads' \in 0 .. MaxReads
  BY BoundsAssumption DEF BeginRead, DesktopTypeOK
<1> HIDE DEF new
<1>5. ReaderMoves(c) /\ call'[c] = new
  BY <1>1, <1>2, <1>3, <1>4, GoOn DEF BeginRead, DesktopTypeOK, history, Locked, new
<1>6. ReaderInv(c)'
  <2>1. flushed \in Nat /\ 0 <= flushed
    BY DEF DesktopTypeOK
  <2> QED
    BY <1>2, <1>5, <2>1, QuietReader DEF ReaderMoves, Quiet
<1> QED
  BY <1>5, <1>6, ReaderStep

\* The place of a caller changes, and nothing else.
LEMMA ProceedMoves ==
  ASSUME DesktopInv, NEW c \in Readers, NEW step \in {"wait", "glob", "decide", "list", "open"},
         Proceed(c, step), UNCHANGED <<client, cached, history, reads, readFaults>>,
         step \in Locked => call[c].at \in Locked \/ CacheUnlocked
  PROVE  /\ ReaderMoves(c) /\ call'[c].at = step
         /\ call'[c].todo = call[c].todo /\ call'[c].found = call[c].found
         /\ call'[c].version = call[c].version /\ call'[c].missed = call[c].missed
<1> DEFINE new == [call[c] EXCEPT !.at = step]
<1>1. call[c] \in Call
  BY DEF DesktopInv, DesktopTypeOK
<1>2. /\ new \in Call /\ new.at = step /\ new.todo = call[c].todo /\ new.found = call[c].found
      /\ new.version = call[c].version /\ new.missed = call[c].missed
  BY <1>1 DEF Call
<1>3. call' = [call EXCEPT ![c] = new] /\ UNCHANGED answer
  BY DEF Proceed
<1> HIDE DEF new
<1>4. ReaderMoves(c) /\ call'[c] = new
  BY <1>2, <1>3, GoOn DEF DesktopInv, DesktopTypeOK, history
<1> QED
  BY <1>2, <1>4

LEMMA WaitStep ==
  ASSUME DesktopInv, NEW c \in Readers, UNCHANGED client, AnswerCached(c) \/ LockWrite(c)
  PROVE  DesktopInv'
<1> USE DEF DesktopInv
<1>1. ReaderInv(c) /\ call[c] \in Call /\ cached \in Tokens
  BY DEF DesktopTypeOK
<1>2. CASE EndRead(c, cached)
  BY <1>1, <1>2, EndStep DEF AnswerCached, LockWrite, DesktopTypeOK
<1>3. ASSUME NEW step \in {"wait", "glob"}, Proceed(c, step) PROVE DesktopInv'
  <2>1. /\ ReaderMoves(c) /\ call'[c].at = step
        /\ call'[c].todo = call[c].todo /\ call'[c].found = call[c].found
        /\ call'[c].version = call[c].version /\ call'[c].missed = call[c].missed
    BY <1>3, ProceedMoves DEF AnswerCached, LockWrite, history
  <2>2. /\ call[c].todo = {} /\ call[c].found = Nothing /\ ~ call[c].missed
        /\ call[c].version <= flushed /\ call[c].version \in Nat
    BY <1>1 DEF ReaderInv, AnswerCached, LockWrite, Call
  <2>3. ReaderInv(c)'
    BY <2>1, <2>2, QuietReader DEF Quiet
  <2> QED
    BY <2>1, <2>3, ReaderStep
<1> QED
  BY <1>2, <1>3 DEF AnswerCached, LockWrite

\* What the logs say that are there says nothing but the session.
LEMMA LastMentions ==
  ASSUME NEW S, Bounded(S), NEW f, NEW b, NEW d \in {Unset, b}
  PROVE  LastSaid(f, S, d) \in {Unset, LastSaid(f, S, b)}
<1>1. CASE \A k \in S : f[k] = Unset
  <2>1. \A x : LastSaid(f, S, x) = x
    BY <1>1, LastNone
  <2> QED
    BY <2>1
<1>2. CASE \E m \in S : f[m] # Unset /\ \A k \in S : k > m => f[k] = Unset
  <2>1. PICK m \in S : f[m] # Unset /\ \A k \in S : k > m => f[k] = Unset
    BY <1>2
  <2>2. \A x : LastSaid(f, S, x) = f[m]
    BY <2>1, LastIs
  <2> QED
    BY <2>2
<1> QED
  BY <1>1, <1>2, LastOrNone

LEMMA AllLogsSay ==
  ASSUME DesktopTypeOK, ClientInv
  PROVE  LET w == Combined(logs, DOMAIN logs, Nothing) IN
         w.token \in {Unset, session.token} /\ w.signedIn \in {Unset, session.signedIn}
<1> DEFINE U == Unflushed
           w == Combined(logs, DOMAIN logs, Nothing)
           v == Combined(logs, U, tables)
<1>1. Bounded(U) /\ Bounded(DOMAIN logs)
  BY FilesFit
<1>2. PICK d : /\ d.token \in {Unset, tables.token} /\ d.signedIn \in {Unset, tables.signedIn}
               /\ w = Combined(logs, U, d)
  <2>1. CASE flushed \in DOMAIN logs
    <3>1. \A k \in DOMAIN logs : flushed <= k
      BY FilesFit
    <3>2. (DOMAIN logs) \ {flushed} = U
      BY <2>1, FilesFit DEF Unflushed
    <3>3. Combined(logs, U, Over(Nothing, Summary(logs[flushed]))) = w
      BY <1>1, <2>1, <3>1, <3>2, CombinedFirst
    <3>4. /\ Over(Nothing, Summary(logs[flushed])).token \in {Unset, tables.token}
          /\ Over(Nothing, Summary(logs[flushed])).signedIn \in {Unset, tables.signedIn}
      BY <2>1 DEF ClientInv, Over, Nothing
    <3> QED
      BY <3>3, <3>4
  <2>2. CASE flushed \notin DOMAIN logs
    <3>1. \A n \in DOMAIN logs : n > flushed
      BY <2>2, FilesFit
    <3>2. DOMAIN logs = U
      BY <3>1 DEF Unflushed
    <3> QED
      BY <3>2 DEF Nothing
  <2> QED
    BY <2>1, <2>2
<1>3. /\ w.token = LastSaid(TokenIn(logs), U, d.token)
      /\ w.signedIn = LastSaid(SignedIn(logs), U, d.signedIn)
      /\ v.token = LastSaid(TokenIn(logs), U, tables.token)
      /\ v.signedIn = LastSaid(SignedIn(logs), U, tables.signedIn)
  BY <1>2 DEF Combined
<1> HIDE DEF U
<1>4. w.token \in {Unset, v.token} /\ w.signedIn \in {Unset, v.signedIn}
  <2>1. LastSaid(TokenIn(logs), U, d.token) \in {Unset, LastSaid(TokenIn(logs), U, tables.token)}
    BY <1>1, <1>2, LastMentions
  <2>2. LastSaid(SignedIn(logs), U, d.signedIn)
          \in {Unset, LastSaid(SignedIn(logs), U, tables.signedIn)}
    BY <1>1, <1>2, LastMentions
  <2> QED
    BY <1>3, <2>1, <2>2
<1>5. IsSession(v)
  BY DEF U, ClientInv
<1> HIDE DEF w, v
<1>6. w.token \in {Unset, session.token} /\ w.signedIn \in {Unset, session.signedIn}
  BY <1>4, <1>5 DEF IsSession
<1> QED
  BY <1>6 DEF w

LEMMA ListLogsStep ==
  ASSUME DesktopInv, NEW c \in Readers, ListLogs(c), UNCHANGED client
  PROVE  DesktopInv'
<1> USE DEF DesktopInv
<1>0. ReaderInv(c) /\ call[c] \in Call /\ 0 \in Tokens
  BY BoundsAssumption DEF DesktopTypeOK, Tokens
<1>1. CASE FileFails(c) /\ UNCHANGED history
  <2>1. readFaults' \in 0 .. MaxReadFaults
    BY <1>1, BoundsAssumption DEF FileFails, DesktopTypeOK
  <2> QED
    BY <1>0, <1>1, <2>1, EndStep DEF FileFails, Fail, ListLogs, DesktopTypeOK
<1>2. CASE /\ call' = [call EXCEPT ![c].todo = DOMAIN logs, ![c].at = "logs"]
           /\ seen' = [seen EXCEPT ![c] = {Current}]
           /\ changed' = [changed EXCEPT ![c] = FALSE]
           /\ UNCHANGED <<answer, readFaults>>
  <2> DEFINE new == [call[c] EXCEPT !.todo = DOMAIN logs, !.at = "logs"]
  <2>1. /\ new \in Call /\ new.at = "logs" /\ new.todo = DOMAIN logs /\ new.found = Nothing
        /\ new.version = call[c].version /\ new.missed = FALSE
    BY <1>0 DEF Call, DesktopTypeOK, ReaderInv, ListLogs
  <2>2. call' = [call EXCEPT ![c] = new]
    BY <1>2
  <2>3. Current \in Tokens
    BY <1>0 DEF Current, DesktopTypeOK
  <2>4. /\ seen' \in [Readers -> SUBSET Tokens] /\ seen'[c] = {Current}
        /\ changed' \in [Readers -> BOOLEAN] /\ changed'[c] = FALSE
        /\ \A d \in Readers : d # c => seen'[d] = seen[d] /\ changed'[d] = changed[d]
    BY <1>2, <2>3 DEF DesktopTypeOK
  <2> HIDE DEF new
  <2>5. ReaderMoves(c) /\ call'[c] = new
    BY <1>2, <2>1, <2>2, <2>4, GoOn DEF ListLogs, DesktopTypeOK, Locked
  <2>6. UNCHANGED <<session, issued, logs, newest, flushed, tables, cached>>
    BY DEF client, ListLogs
  <2>7. Current = session.token /\ Current' = Current
    BY <2>6 DEF Current, ClientInv
  <2>8. Counting(c)' = DOMAIN logs /\ WillFind(c)' = Combined(logs, DOMAIN logs, Nothing)
    BY <2>1, <2>5, <2>6 DEF Counting, WillFind
  <2>9. Seen(c, WillFind(c))'
    BY <2>4, <2>7, <2>8, AllLogsSay, UnsetAssumption DEF Seen, ClientInv
  <2>10. /\ Reading(c)' /\ call'[c].at = "logs"
         /\ DOMAIN logs \subseteq 1 .. newest /\ call'[c].version <= flushed
    BY <1>0, <2>1, <2>5, FilesFit DEF Reading, ReaderInv, ClientInv, DesktopTypeOK
  <2>11. \A t \in seen'[c] : t # 0 => t >= cached
    BY <2>4, <2>7 DEF ClientInv, DesktopTypeOK, Tokens
  <2>12. Old(call[c].found)'
    BY <2>1, <2>5 DEF Old, Nothing
  <2> QED
    BY <2>1, <2>4, <2>5, <2>6, <2>7, <2>9, <2>10, <2>11, <2>12, ReaderStep
       DEF ReaderInv, Copying
<1> QED
  BY <1>1, <1>2 DEF ListLogs

\* An entry over another is no newer than both.
LEMMA OverOld ==
  ASSUME NEW e, NEW d, Old(e), Old(d)
  PROVE  Old(Over(e, d))
BY DEF Old, Over

LEMMA ReadLogStep ==
  ASSUME DesktopInv, NEW c \in Readers, ReadLog(c), UNCHANGED client
  PROVE  DesktopInv'
<1> USE DEF DesktopInv
<1> DEFINE n == Min(call[c].todo)
           there == n \in DOMAIN logs
           said == IF there THEN Over(call[c].found, Summary(logs[n])) ELSE call[c].found
           new == [call[c] EXCEPT !.todo = @ \ {n}, !.found = said, !.missed = @ \/ ~ there]
<1>0. ReaderInv(c) /\ call[c] \in Call /\ call[c].at = "logs" /\ call[c].todo # {}
  BY DEF DesktopTypeOK, ReadLog
<1>1. /\ n \in call[c].todo /\ \A m \in call[c].todo : n <= m
      /\ call[c].todo \subseteq Nat
  <2>1. call[c].todo \subseteq Nat
    BY <1>0 DEF Call
  <2> QED
    BY <1>0, <2>1, MinIsLeast
<1>2. call' = [call EXCEPT ![c] = new]
  BY DEF ReadLog, Latest, Add
<1> HIDE DEF n
<1>3. said \in Entry /\ Old(said)
  <2>1. call[c].found \in Entry /\ Old(call[c].found)
    BY <1>0 DEF Call, ReaderInv
  <2>2. there => Summary(logs[n]) \in Entry /\ Old(Summary(logs[n]))
    BY FilesFit DEF ClientInv
  <2> QED
    BY <2>1, <2>2, OverType, OverOld
<1> HIDE DEF said
<1>4. /\ new \in Call /\ new.at = "logs" /\ new.todo = call[c].todo \ {n} /\ new.found = said
      /\ new.version = call[c].version /\ (~ new.missed <=> ~ call[c].missed /\ there)
  BY <1>0, <1>3 DEF Call
<1> HIDE DEF new
<1>5. ReaderMoves(c) /\ call'[c] = new
  BY <1>0, <1>2, <1>4, GoOn DEF ReadLog, DesktopTypeOK, history, Locked
<1>6. UNCHANGED <<session, issued, logs, newest, flushed, tables, cached, seen, changed>>
  BY DEF client, ReadLog, history
<1>7. ASSUME ~ new.missed, new.todo \subseteq DOMAIN logs PROVE Seen(c, WillFind(c))'
  <2>1. there /\ ~ call[c].missed /\ call[c].todo \subseteq DOMAIN logs
    BY <1>1, <1>4, <1>7
  <2>2. Bounded(call[c].todo)
    BY <2>1, FilesFit
  <2>3. /\ WillFind(c) = Combined(logs, call[c].todo, call[c].found)
        /\ WillFind(c)' = Combined(logs, call[c].todo \ {n}, Over(call[c].found, Summary(logs[n])))
    BY <1>0, <1>4, <1>5, <1>6, <2>1 DEF WillFind, Counting, said
  <2>4. WillFind(c)' = WillFind(c)
    BY <1>1, <2>1, <2>2, <2>3, CombinedFirst
  <2> QED
    BY <1>0, <1>6, <2>1, <2>4 DEF ReaderInv, Reading, Seen
<1>8. ~ changed[c] => new.todo \subseteq DOMAIN logs /\ ~ new.missed
  BY <1>0, <1>1, <1>4 DEF ReaderInv, Reading
<1>9. /\ Current' = Current /\ new.todo \subseteq 1 .. newest /\ new.version <= flushed
      /\ Old(call[c].found)'
  BY <1>0, <1>3, <1>4, <1>5, <1>6 DEF ReaderInv, Current, Old
<1>10. Current \in seen[c] /\ \A t \in seen[c] : t # 0 => t >= cached
  BY <1>0 DEF ReaderInv, Reading
<1> QED
  BY <1>4, <1>5, <1>6, <1>7, <1>8, <1>9, <1>10, ReaderStep DEF ReaderInv, Reading, Copying

\* Everything is read: what was found stays.
LEMMA StageStep ==
  ASSUME DesktopInv, NEW c \in Readers, UNCHANGED client, LogsRead(c) \/ LogsCopied(c)
  PROVE  DesktopInv'
<1> USE DEF DesktopInv
<1>0. ReaderInv(c) /\ call[c] \in Call /\ call[c].at \in {"logs", "copy"} /\ call[c].todo = {}
  BY DEF DesktopTypeOK, LogsRead, LogsCopied
<1>1. PICK step \in {"decide", "open"} :
        /\ Proceed(c, step) /\ (step = "decide" <=> call[c].at = "logs")
        /\ UNCHANGED <<cached, history, reads, readFaults>>
  BY DEF LogsRead, LogsCopied
<1>2. /\ ReaderMoves(c) /\ call'[c].at = step
      /\ call'[c].todo = {} /\ call'[c].found = call[c].found
      /\ call'[c].version = call[c].version /\ call'[c].missed = call[c].missed
  BY <1>0, <1>1, ProceedMoves DEF Locked
<1>3. UNCHANGED <<session, issued, logs, newest, flushed, tables, cached, seen, changed>>
  BY <1>1 DEF client, history
<1>4. /\ Counting(c) = {} /\ Counting(c)' = {}
      /\ WillFind(c)' = WillFind(c)
  BY <1>0, <1>1, <1>2, <1>3 DEF Counting, WillFind
<1>5. /\ Reading(c) \/ Copying(c)
      /\ Reading(c)' <=> Reading(c)
      /\ Current' = Current
  BY <1>0, <1>1, <1>2, <1>3 DEF Reading, Copying, Current
<1>6. Reading(c)' /\ ~ call'[c].missed => Seen(c, WillFind(c))'
  BY <1>0, <1>2, <1>3, <1>4, <1>5 DEF ReaderInv, Seen, Reading
<1>7. step = "open" => Seen(c, WillFind(c))' /\ (WillFind(c)'.token = Unset => 0 \in seen'[c])
  BY <1>0, <1>1, <1>3, <1>4 DEF ReaderInv, Seen
<1>8. Current' \in seen'[c] /\ \A t \in seen'[c] : t # 0 => t >= cached'
  BY <1>0, <1>3, <1>5 DEF ReaderInv, Reading, Copying
<1>9. ~ changed'[c] => ~ call'[c].missed
  BY <1>0, <1>2, <1>3 DEF ReaderInv, Reading, Copying
<1>10. Old(call[c].found)' /\ call'[c].version <= flushed
  BY <1>0, <1>2, <1>3 DEF ReaderInv, Old
<1> QED
  BY <1>1, <1>2, <1>3, <1>6, <1>7, <1>8, <1>9, <1>10, ReaderStep DEF ReaderInv

LEMMA AnswerStep ==
  ASSUME DesktopInv, NEW c \in Readers, NEW e \in Entry, Old(e), Answer(c, e),
         call[c].at \in Locked, UNCHANGED <<client, history>>,
         reads' \in 0 .. MaxReads, readFaults' \in 0 .. MaxReadFaults
  PROVE  DesktopInv'
<1>1. CASE Fail(c) /\ UNCHANGED cached
  <2>1. 0 \in Tokens
    BY BoundsAssumption DEF Tokens
  <2> QED
    BY <1>1, <2>1, EndStep DEF Fail
<1>2. CASE e.token \notin {0, Unset} /\ cached' = e.token /\ EndRead(c, e.token)
  <2>1. e.token \in Tokens /\ e.token <= issued
    BY <1>2 DEF Entry, Old
  <2> QED
    BY <1>2, <2>1, EndStep
<1> QED
  BY <1>1, <1>2 DEF Answer

\* A file operation fails, or the copy cannot be opened.
LEMMA FailStep ==
  ASSUME DesktopInv, NEW c \in Readers, UNCHANGED <<client, history, cached, reads>>,
         FileFails(c) \/ (Fail(c) /\ UNCHANGED readFaults)
  PROVE  DesktopInv'
<1>1. 0 \in Tokens /\ reads' \in 0 .. MaxReads /\ readFaults' \in 0 .. MaxReadFaults
  BY BoundsAssumption DEF Tokens, FileFails, DesktopInv, DesktopTypeOK
<1>2. EndRead(c, 0)
  BY DEF FileFails, Fail
<1> QED
  BY <1>1, <1>2, EndStep

LEMMA DecideStep ==
  ASSUME DesktopInv, NEW c \in Readers, Decide(c), UNCHANGED client
  PROVE  DesktopInv'
<1> USE DEF DesktopInv
<1>0. ReaderInv(c) /\ call[c] \in Call /\ call[c].at = "decide"
  BY DEF DesktopTypeOK, Decide
<1>1. CASE Answer(c, call[c].found)
  <2>1. call[c].found \in Entry /\ Old(call[c].found)
    BY <1>0 DEF Call, ReaderInv
  <2> QED
    BY <1>0, <1>1, <2>1, AnswerStep DEF Decide, Locked, DesktopTypeOK
<1>2. CASE Proceed(c, "list") /\ UNCHANGED cached
  <2>1. /\ ReaderMoves(c) /\ call'[c].at = "list"
        /\ call'[c].todo = call[c].todo /\ call'[c].found = call[c].found
        /\ call'[c].version = call[c].version /\ call'[c].missed = call[c].missed
    BY <1>0, <1>2, ProceedMoves DEF Decide, Locked
  <2>2. UNCHANGED <<session, issued, logs, newest, flushed, tables, cached, seen, changed>>
    BY <1>2 DEF client, history, Decide
  <2>3. Reading(c) /\ Current' = Current
    BY <1>0, <2>2 DEF Reading, Current
  <2>4. Old(call[c].found)'
    BY <1>0, <2>1, <2>2 DEF ReaderInv, Old
  <2>5. ReaderInv(c)'
    BY <1>0, <2>1, <2>2, <2>3, <2>4 DEF ReaderInv, Reading
  <2> QED
    BY <2>1, <2>5, ReaderStep
<1> QED
  BY <1>1, <1>2 DEF Decide

LEMMA ListFilesStep ==
  ASSUME DesktopInv, NEW c \in Readers, ListFiles(c), UNCHANGED client
  PROVE  DesktopInv'
<1> USE DEF DesktopInv
<1>0. ReaderInv(c) /\ call[c] \in Call /\ call[c].at = "list"
  BY DEF DesktopTypeOK, ListFiles
<1>1. CASE FileFails(c)
  BY <1>1, FailStep DEF ListFiles
<1>2. CASE /\ call' = [call EXCEPT ![c].todo = DOMAIN logs, ![c].version = flushed,
                                   ![c].at = "tables"]
           /\ UNCHANGED <<answer, readFaults>>
  <2> DEFINE new == [call[c] EXCEPT !.todo = DOMAIN logs, !.version = flushed, !.at = "tables"]
  <2>1. /\ new \in Call /\ new.at = "tables" /\ new.todo = DOMAIN logs /\ new.version = flushed
        /\ new.found = call[c].found /\ new.missed = call[c].missed
    BY <1>0 DEF Call, DesktopTypeOK
  <2>2. call' = [call EXCEPT ![c] = new]
    BY <1>2
  <2> HIDE DEF new
  <2>3. ReaderMoves(c) /\ call'[c] = new
    BY <1>0, <1>2, <2>1, <2>2, GoOn DEF ListFiles, DesktopTypeOK, history, Locked
  <2>4. UNCHANGED <<session, issued, logs, newest, flushed, tables, cached, seen, changed>>
    BY DEF client, ListFiles, history
  <2>5. Current = session.token /\ Current' = Current
    BY <2>4 DEF Current, ClientInv
  <2>6. Current \in seen[c] /\ \A t \in seen[c] : t # 0 => t >= cached
    BY <1>0 DEF ReaderInv, Copying
  <2> DEFINE w == Combined(logs, Unflushed, tables)
  <2>7. Counting(c)' = Unflushed /\ WillFind(c)' = w
    BY <2>1, <2>3, <2>4 DEF Counting, Unflushed, WillFind
  <2>8. IsSession(w)
    BY DEF ClientInv
  <2> HIDE DEF w
  <2>9. /\ w.token \in seen[c] \union {Unset}
        /\ w.signedIn = FALSE => 0 \in seen[c]
        /\ w.token = Unset => 0 \in seen[c]
    <3>1. session.signedIn \in BOOLEAN /\ (session.signedIn <=> session.token # 0)
      BY DEF ClientInv, DesktopTypeOK
    <3>2. session.signedIn = FALSE => 0 \in seen[c]
      BY <2>5, <2>6, <3>1
    <3>3. w.signedIn = FALSE => session.signedIn = FALSE
      BY <2>8, UnsetAssumption DEF IsSession
    <3>4. w.token = session.token \/ (w.token = Unset /\ session.token = 0)
      BY <2>8 DEF IsSession
    <3>5. session.token # Unset
      BY UnsetAssumption DEF DesktopTypeOK, Tokens
    <3> QED
      BY <2>5, <2>6, <3>2, <3>3, <3>4, <3>5
  <2>10. Seen(c, WillFind(c))' /\ (WillFind(c)'.token = Unset => 0 \in seen'[c])
    BY <2>4, <2>7, <2>9 DEF Seen
  <2>11. /\ DOMAIN logs \subseteq 1 .. newest /\ call'[c].version <= flushed
         /\ Old(call[c].found)'
    BY <1>0, <2>1, <2>3, <2>4, FilesFit DEF ReaderInv, Old, ClientInv, DesktopTypeOK
  <2>12. ~ changed[c] => ~ call[c].missed
    BY <1>0 DEF ReaderInv, Copying
  <2>13. ReaderInv(c)'
    BY <2>1, <2>3, <2>4, <2>5, <2>6, <2>10, <2>11, <2>12 DEF ReaderInv, Reading
  <2> QED
    BY <2>3, <2>13, ReaderStep
<1> QED
  BY <1>1, <1>2 DEF ListFiles

LEMMA CopyTablesStep ==
  ASSUME DesktopInv, NEW c \in Readers, CopyTables(c), UNCHANGED client
  PROVE  DesktopInv'
<1> USE DEF DesktopInv
<1>0. ReaderInv(c) /\ call[c] \in Call /\ call[c].at = "tables"
  BY DEF DesktopTypeOK, CopyTables
<1>1. CASE FileFails(c) \/ (Fail(c) /\ UNCHANGED readFaults)
  BY <1>1, FailStep DEF CopyTables
<1>2. CASE /\ call[c].version = flushed
           /\ call' = [call EXCEPT ![c].found = tables, ![c].at = "copy"]
           /\ UNCHANGED <<answer, readFaults>>
  <2> DEFINE new == [call[c] EXCEPT !.found = tables, !.at = "copy"]
  <2>1. /\ new \in Call /\ new.at = "copy" /\ new.todo = call[c].todo
        /\ new.version = call[c].version
        /\ new.found = tables /\ new.missed = call[c].missed
    BY <1>0 DEF Call, DesktopTypeOK
  <2>2. call' = [call EXCEPT ![c] = new]
    BY <1>2
  <2> HIDE DEF new
  <2>3. ReaderMoves(c) /\ call'[c] = new
    BY <1>0, <1>2, <2>1, <2>2, GoOn DEF CopyTables, DesktopTypeOK, history, Locked
  <2>4. UNCHANGED <<session, issued, logs, newest, flushed, tables, cached, seen, changed>>
    BY DEF client, CopyTables, history
  <2>5. Current' = Current /\ Current \in seen[c] /\ \A t \in seen[c] : t # 0 => t >= cached
    BY <1>0, <2>4 DEF ReaderInv, Copying, Current
  <2>6. Counting(c)' = Counting(c) /\ WillFind(c)' = WillFind(c)
    BY <1>0, <2>1, <2>3, <2>4 DEF Counting, WillFind
  <2>7. Seen(c, WillFind(c))' /\ (WillFind(c)'.token = Unset => 0 \in seen'[c])
    BY <1>0, <1>2, <2>4, <2>6 DEF ReaderInv, Seen
  <2>8. /\ call'[c].todo \subseteq 1 .. newest /\ call'[c].version <= flushed
        /\ Old(call[c].found)'
    BY <1>0, <2>1, <2>3, <2>4 DEF ReaderInv, Old, ClientInv
  <2>9. ~ changed[c] => ~ call[c].missed /\ call[c].todo \subseteq DOMAIN logs
    BY <1>0 DEF ReaderInv, Copying
  <2>10. ReaderInv(c)'
    BY <2>1, <2>3, <2>4, <2>5, <2>7, <2>8, <2>9 DEF ReaderInv, Reading
  <2> QED
    BY <2>3, <2>10, ReaderStep
<1> QED
  BY <1>1, <1>2 DEF CopyTables

LEMMA CopyLogStep ==
  ASSUME DesktopInv, NEW c \in Readers, CopyLog(c), UNCHANGED client
  PROVE  DesktopInv'
<1> USE DEF DesktopInv
<1> DEFINE n == Min(call[c].todo)
           said == IF n <= call[c].version THEN call[c].found
                   ELSE Over(call[c].found, Summary(logs[n]))
           new == [call[c] EXCEPT !.todo = @ \ {n}, !.found = said]
<1>0. ReaderInv(c) /\ call[c] \in Call /\ call[c].at = "copy" /\ call[c].todo # {}
  BY DEF DesktopTypeOK, CopyLog
<1>1. CASE FileFails(c) \/ (Fail(c) /\ UNCHANGED readFaults)
  BY <1>1, FailStep DEF CopyLog
<1>2. CASE /\ n \in DOMAIN logs /\ call' = [call EXCEPT ![c] = new]
           /\ UNCHANGED <<answer, readFaults>>
  <2>1. /\ n \in call[c].todo /\ \A m \in call[c].todo : n <= m
        /\ call[c].todo \subseteq Nat
    <3>1. call[c].todo \subseteq Nat
      BY <1>0 DEF Call
    <3> QED
      BY <1>0, <3>1, MinIsLeast
  <2> HIDE DEF n
  <2>2. said \in Entry /\ Old(said)
    <3>1. call[c].found \in Entry /\ Old(call[c].found)
      BY <1>0 DEF Call, ReaderInv
    <3>2. Summary(logs[n]) \in Entry /\ Old(Summary(logs[n]))
      BY <1>2, FilesFit DEF ClientInv
    <3> QED
      BY <3>1, <3>2, OverType, OverOld
  <2> HIDE DEF said
  <2>3. /\ new \in Call /\ new.at = "copy" /\ new.todo = call[c].todo \ {n}
        /\ new.found = said
        /\ new.version = call[c].version /\ new.missed = call[c].missed
    BY <1>0, <2>2 DEF Call
  <2> HIDE DEF new
  <2>4. ReaderMoves(c) /\ call'[c] = new
    BY <1>0, <1>2, <2>3, GoOn DEF CopyLog, DesktopTypeOK, history, Locked
  <2>5. UNCHANGED <<session, issued, logs, newest, flushed, tables, cached, seen, changed>>
    BY DEF client, CopyLog, history
  <2>6. Current' = Current /\ Current \in seen[c] /\ \A t \in seen[c] : t # 0 => t >= cached
    BY <1>0, <2>5 DEF ReaderInv, Copying, Current
  <2>7. Counting(c)' = Counting(c) \ {n} /\ \A m \in Counting(c) : n <= m
    BY <1>0, <2>1, <2>3, <2>4 DEF Counting
  <2>8. ASSUME Counting(c)' \subseteq DOMAIN logs
        PROVE  Seen(c, WillFind(c))' /\ (WillFind(c)'.token = Unset => 0 \in seen'[c])
    <3>1. Counting(c) \subseteq DOMAIN logs
      BY <1>2, <2>7, <2>8
    <3>2. Bounded(Counting(c))
      BY <3>1, FilesFit
    <3>3. /\ WillFind(c) = Combined(logs, Counting(c), call[c].found)
          /\ WillFind(c)' = Combined(logs, Counting(c) \ {n}, said)
      BY <1>0, <2>3, <2>4, <2>5, <2>7 DEF WillFind
    <3>4. CASE n <= call[c].version
      <4>1. n \notin Counting(c)
        BY <1>0, <2>1, <3>4 DEF Counting, Call
      <4>2. Counting(c) \ {n} = Counting(c)
        BY <4>1
      <4>3. said = call[c].found
        BY <3>4 DEF said
      <4> QED
        BY <1>0, <2>5, <3>1, <3>3, <4>2, <4>3 DEF ReaderInv, Seen
    <3>5. CASE ~ (n <= call[c].version)
      <4>1. n \in Counting(c)
        BY <1>0, <2>1, <3>5 DEF Counting, Call
      <4>2. said = Over(call[c].found, Summary(logs[n]))
        BY <3>5 DEF said
      <4>3. WillFind(c)' = WillFind(c)
        BY <2>7, <3>1, <3>2, <3>3, <4>1, <4>2, CombinedFirst
      <4> QED
        BY <1>0, <2>5, <3>1, <4>3 DEF ReaderInv, Seen
    <3> QED
      BY <3>4, <3>5
  <2>9. /\ call'[c].todo \subseteq 1 .. newest /\ call'[c].version <= flushed
        /\ Old(call[c].found)'
    BY <1>0, <2>2, <2>3, <2>4, <2>5 DEF ReaderInv, Old
  <2>10. ~ changed[c] => ~ call[c].missed /\ call'[c].todo \subseteq DOMAIN logs
    BY <1>0, <2>3, <2>4 DEF ReaderInv, Copying
  <2>11. ReaderInv(c)'
    BY <2>3, <2>4, <2>5, <2>6, <2>8, <2>9, <2>10 DEF ReaderInv, Reading
  <2> QED
    BY <2>4, <2>11, ReaderStep
<1>3. CopyLog(c) => \/ FileFails(c) \/ (Fail(c) /\ UNCHANGED readFaults)
                    \/ /\ n \in DOMAIN logs /\ call' = [call EXCEPT ![c] = new]
                       /\ UNCHANGED <<answer, readFaults>>
  BY DEF CopyLog, Latest, Add
<1> QED
  BY <1>1, <1>2, <1>3

LEMMA OpenStep ==
  ASSUME DesktopInv, NEW c \in Readers, OpenCopy(c), UNCHANGED client
  PROVE  DesktopInv'
<1> USE DEF DesktopInv
<1>1. call[c].found \in Entry /\ Old(call[c].found) /\ call[c].at \in Locked
  BY DEF DesktopTypeOK, Call, ReaderInv, OpenCopy, Locked
<1>2. CASE Answer(c, call[c].found) /\ UNCHANGED readFaults
  BY <1>1, <1>2, AnswerStep DEF OpenCopy, DesktopTypeOK
<1>3. CASE FileFails(c) /\ UNCHANGED cached
  BY <1>3, FailStep DEF OpenCopy
<1> QED
  BY <1>2, <1>3 DEF OpenCopy

-----------------------------------------------------------------------------
(* Theorems *)

LEMMA StepKeepsInv ==
  ASSUME DesktopInv, NEW c \in Readers, Step(c)
  PROVE  DesktopInv'
<1>1. UNCHANGED client
  BY DEF Step
<1>2. CASE BeginRead(c)
  BY <1>1, <1>2, BeginStep
<1>3. CASE AnswerCached(c) \/ LockWrite(c)
  BY <1>1, <1>3, WaitStep
<1>4. CASE ListLogs(c)
  BY <1>1, <1>4, ListLogsStep
<1>5. CASE ReadLog(c)
  BY <1>1, <1>5, ReadLogStep
<1>6. CASE LogsRead(c) \/ LogsCopied(c)
  BY <1>1, <1>6, StageStep
<1>7. CASE Decide(c)
  BY <1>1, <1>7, DecideStep
<1>8. CASE ListFiles(c)
  BY <1>1, <1>8, ListFilesStep
<1>9. CASE CopyTables(c)
  BY <1>1, <1>9, CopyTablesStep
<1>10. CASE CopyLog(c)
  BY <1>1, <1>10, CopyLogStep
<1>11. CASE OpenCopy(c)
  BY <1>1, <1>11, OpenStep
<1> QED
  BY <1>2, <1>3, <1>4, <1>5, <1>6, <1>7, <1>8, <1>9, <1>10, <1>11 DEF Step, ClientToken

LEMMA InitialInv == DesktopInit => DesktopInv
<1> SUFFICES ASSUME DesktopInit PROVE DesktopInv
  OBVIOUS
<1> USE DEF DesktopInit
<1>1. /\ DOMAIN logs = {1} /\ logs[1] = <<>> /\ <<>> \in Seq(Entry)
      /\ 0 \in Tokens /\ Nothing \in Entry
  BY BoundsAssumption DEF Tokens, Nothing, Entry
<1>2. Idle \in Call
  BY <1>1, BoundsAssumption DEF Idle, Call
<1>3. DesktopTypeOK
  BY <1>1, <1>2, BoundsAssumption DEF DesktopTypeOK
<1>4. Summary(logs[1]) = Nothing
  BY <1>1, SummaryEmpty
<1>5. IsSession(Combined(logs, Unflushed, tables))
  <2>1. Unflushed = {1}
    BY <1>1 DEF Unflushed
  <2>2. TokenIn(logs)[1] = Unset /\ SignedIn(logs)[1] = Unset
    BY <1>1, <1>4 DEF TokenIn, SignedIn, Nothing
  <2>3. /\ LastSaid(TokenIn(logs), {1}, Unset) = Unset
        /\ LastSaid(SignedIn(logs), {1}, Unset) = Unset
    BY <2>2, LastNone
  <2>4. /\ Combined(logs, Unflushed, tables).token = Unset
        /\ Combined(logs, Unflushed, tables).signedIn = Unset
    BY <2>1, <2>3 DEF Combined, Nothing
  <2> QED
    BY <2>4 DEF IsSession
<1>6. ClientInv
  BY <1>1, <1>4, <1>5 DEF ClientInv, Old, Nothing
<1>7. OneReader /\ cached <= issued
  BY DEF OneReader, Locked, Idle
<1>8. \A c \in Readers : ReaderInv(c)
  <2> SUFFICES ASSUME NEW c \in Readers PROVE ReaderInv(c)
    OBVIOUS
  <2>1. call[c] = Idle
    OBVIOUS
  <2>2. ~ Reading(c) /\ ~ Copying(c) /\ Old(call[c].found)
    BY <2>1 DEF Reading, Copying, Idle, Old, Nothing
  <2> QED
    BY <2>1, <2>2 DEF ReaderInv, Idle
<1> QED
  BY <1>3, <1>6, <1>7, <1>8 DEF DesktopInv

LEMMA StutterKeepsInv ==
  ASSUME DesktopInv, UNCHANGED desktopVars
  PROVE  DesktopInv'
<1>1. UNCHANGED <<session, issued, logs, newest, flushed, tables, cached, call, answer,
                  seen, changed, reads, readFaults>>
  BY DEF desktopVars
<1>2. DesktopTypeOK' /\ ClientInv' /\ OneReader' /\ cached' <= issued'
  BY <1>1 DEF DesktopInv, DesktopTypeOK, ClientInv, Unflushed, IsSession, Old, OneReader
<1>3. ASSUME NEW c \in Readers PROVE ReaderInv(c)'
  <2>1. ReaderInv(c)
    BY DEF DesktopInv
  <2> QED
    BY <1>1, <2>1 DEF ReaderInv, Reading, Copying, Counting, WillFind, Seen, Current, Old
<1> QED
  BY <1>2, <1>3 DEF DesktopInv

\* The invariant holds for any number of readers, tokens, log files, calls and
\* failing file operations.
THEOREM DesktopInvariant == DesktopSpec => []DesktopInv
<1>1. DesktopInit => DesktopInv
  BY InitialInv
<1>2. DesktopInv /\ [DesktopNext]_desktopVars => DesktopInv'
  <2> SUFFICES ASSUME DesktopInv, [DesktopNext]_desktopVars PROVE DesktopInv'
    OBVIOUS
  <2>1. CASE Client
    BY <2>1, ClientStep
  <2>2. CASE \E c \in Readers : Step(c)
    BY <2>2, StepKeepsInv
  <2>3. CASE UNCHANGED desktopVars
    BY <2>3, StutterKeepsInv
  <2> QED
    BY <2>1, <2>2, <2>3 DEF DesktopNext, DesktopTerminated
<1> QED
  BY <1>1, <1>2, PTL DEF DesktopSpec

\* Every variable of the token reader and of the client keeps its type.
THEOREM DesktopTyped == DesktopSpec => []DesktopTypeOK
<1>1. DesktopInv => DesktopTypeOK
  BY DEF DesktopInv
<1> QED
  BY <1>1, DesktopInvariant, PTL

\* An entry that tells of a client that is signed out.
SignedOut(e) == e.signedIn = FALSE \/ e.token \in {0, Unset}

\* What was found was the session at some moment, when it decides.
LEMMA FoundWasSession ==
  ASSUME DesktopInv, NEW c \in Readers,
         call[c].at = "decide" \/ call[c].at = "open"
  PROVE  /\ call[c].at = "open" \/ ~ call[c].missed => Seen(c, call[c].found)
         /\ call[c].at = "open" /\ call[c].found.token = Unset => 0 \in seen[c]
         /\ call[c].at = "decide" /\ ~ changed[c] => ~ call[c].missed
         /\ \A t \in seen[c] : t # 0 => t >= cached
<1>1. ReaderInv(c) /\ call[c].found \in Entry
  BY DEF DesktopInv, DesktopTypeOK, Call
<1>2. call[c].todo = {} /\ Counting(c) = {}
  BY <1>1 DEF ReaderInv, Counting
<1>3. WillFind(c) = call[c].found
  BY <1>1, <1>2, CombinedNone DEF WillFind
<1> QED
  BY <1>1, <1>2, <1>3 DEF ReaderInv, Reading, Copying

\* How a call that read the files ends.
LEMMA EndOfRead ==
  ASSUME DesktopInv, NEW c \in Readers, [DesktopNext]_desktopVars, Answers(c)
  PROVE  \/ answer'[c] = 0 /\ (readFaults' # readFaults \/ changed[c])
         \/ /\ Answer(c, call[c].found)
            /\ answer'[c] = IF SignedOut(call[c].found) THEN 0 ELSE call[c].found.token
            /\ \/ call[c].at = "open"
               \/ /\ call[c].at = "decide"
                  /\ call[c].found.signedIn = FALSE \/ call[c].found.token # Unset
<1> USE DEF Answers
<1>1. answer \in [Readers -> Tokens] /\ ReaderInv(c) /\ readFaults \in Nat
      /\ call \in [Readers -> Call]
  BY BoundsAssumption DEF DesktopInv, DesktopTypeOK
<1>2. call'[c] # call[c]
  BY DEF Locked
<1>3. Step(c)
  <2>1. ~ (UNCHANGED desktopVars) /\ ~ Client
    BY <1>2 DEF desktopVars, Client
  <2>2. PICK d \in Readers : Step(d)
    BY <2>1 DEF DesktopNext, DesktopTerminated
  <2>3. ASSUME d # c PROVE FALSE
    <3>1. call'[c] = call[c]
      BY <1>1, <2>2, <2>3 DEF Step, BeginRead, ClientToken, AnswerCached, LockWrite, ListLogs,
           ReadLog, LogsRead, Decide, ListFiles, CopyTables, CopyLog, LogsCopied, OpenCopy,
           Answer, FileFails, Fail, EndRead, Proceed
    <3> QED
      BY <1>2, <3>1
  <2> QED
    BY <2>2, <2>3
<1>4. ASSUME FileFails(c)
      PROVE  answer'[c] = 0 /\ readFaults' # readFaults
  BY <1>1, <1>4 DEF FileFails, Fail, EndRead
<1>5. ASSUME Fail(c) PROVE answer'[c] = 0
  BY <1>1, <1>5 DEF Fail, EndRead
<1>6. ASSUME Answer(c, call[c].found)
      PROVE  answer'[c] = IF SignedOut(call[c].found) THEN 0 ELSE call[c].found.token
  BY <1>1, <1>5, <1>6 DEF Answer, SignedOut, EndRead
<1>7. ASSUME NEW step \in {"wait", "glob", "decide", "list", "open"}, Proceed(c, step) PROVE FALSE
  BY <1>1, <1>7 DEF Proceed
<1>8. \/ ListLogs(c) \/ ReadLog(c) \/ Decide(c)
      \/ ListFiles(c) \/ CopyTables(c) \/ CopyLog(c) \/ OpenCopy(c)
  <2>1. ~ LogsRead(c) /\ ~ LogsCopied(c)
    BY <1>7 DEF LogsRead, LogsCopied
  <2>2. ~ BeginRead(c) /\ ~ AnswerCached(c) /\ ~ LockWrite(c)
    BY DEF BeginRead, AnswerCached, LockWrite, Locked
  <2> QED
    BY <1>3, <2>1, <2>2 DEF Step, ClientToken
<1>9. CASE ListLogs(c)
  <2>1. call' = [call EXCEPT ![c].todo = DOMAIN logs, ![c].at = "logs"] => call'[c].at = "logs"
    BY <1>1
  <2> QED
    BY <1>4, <1>9, <2>1 DEF ListLogs
<1>10. CASE ReadLog(c)
  <2>1. call'[c].at = call[c].at
    BY <1>1, <1>10 DEF ReadLog
  <2> QED
    BY <1>10, <2>1 DEF ReadLog
<1>11. CASE Decide(c)
  BY <1>6, <1>7, <1>11 DEF Decide
<1>12. CASE ListFiles(c)
  <2>1. call' = [call EXCEPT ![c].todo = DOMAIN logs, ![c].version = flushed, ![c].at = "tables"]
          => call'[c].at = "tables"
    BY <1>1
  <2> QED
    BY <1>4, <1>12, <2>1 DEF ListFiles
<1>13. CASE CopyTables(c)
  <2>1. call' = [call EXCEPT ![c].found = tables, ![c].at = "copy"] => call'[c].at = "copy"
    BY <1>1
  <2>2. call[c].version # flushed => changed[c]
    BY <1>1, <1>13 DEF CopyTables, ReaderInv, Copying
  <2> QED
    BY <1>4, <1>5, <1>13, <2>1, <2>2 DEF CopyTables
<1>14. CASE CopyLog(c)
  <2> DEFINE n == Min(call[c].todo)
  <2>1. /\ call[c].at = "copy" /\ n \in call[c].todo
    <3>1. call[c].todo \subseteq Nat /\ call[c].todo # {}
      BY <1>1, <1>14 DEF Call, CopyLog
    <3> QED
      BY <1>14, <3>1, MinIsLeast DEF CopyLog
  <2>2. n \notin DOMAIN logs => changed[c]
    BY <1>1, <2>1 DEF ReaderInv, Copying
  <2>3. \/ FileFails(c)
        \/ n \notin DOMAIN logs /\ Fail(c)
        \/ call'[c].at = call[c].at
    <3> DEFINE new == [call[c] EXCEPT !.todo = @ \ {n},
                  !.found = IF n <= call[c].version THEN @ ELSE Latest(@, logs[n])]
    <3>1. CopyLog(c) => \/ FileFails(c)
                        \/ n \notin DOMAIN logs /\ Fail(c)
                        \/ call' = [call EXCEPT ![c] = new]
      BY DEF CopyLog
    <3>2. new.at = call[c].at
      BY <1>1 DEF Call
    <3> HIDE DEF new
    <3> QED
      BY <1>1, <1>14, <3>1, <3>2
  <2> QED
    BY <1>4, <1>5, <2>1, <2>2, <2>3
<1>15. CASE OpenCopy(c)
  BY <1>4, <1>6, <1>15 DEF OpenCopy
<1> QED
  BY <1>8, <1>9, <1>10, <1>11, <1>12, <1>13, <1>14, <1>15

\* What a call reads is a token of the signed-in client since the listing, for
\* any number of readers, log files and tokens.
THEOREM ReadsCurrentToken == DesktopSpec => ReadsCurrent
<1>1. DesktopInv /\ [DesktopNext]_desktopVars =>
        \A c \in Readers :
          Answers(c) /\ ~ call[c].missed => answer'[c] \in seen[c] \union {0}
  <2> SUFFICES ASSUME DesktopInv, [DesktopNext]_desktopVars, NEW c \in Readers,
                      Answers(c), ~ call[c].missed
               PROVE  answer'[c] \in seen[c] \union {0}
    OBVIOUS
  <2>1. CASE answer'[c] = 0
    BY <2>1
  <2>2. CASE answer'[c] # 0
    <3>1. /\ call[c].at = "decide" \/ call[c].at = "open"
          /\ answer'[c] = call[c].found.token /\ ~ SignedOut(call[c].found)
      BY <2>2, EndOfRead
    <3>2. Seen(c, call[c].found)
      BY <3>1, FoundWasSession
    <3> QED
      BY <3>1, <3>2 DEF Seen, SignedOut
  <2> QED
    BY <2>1, <2>2
<1> QED
  BY <1>1, DesktopInvariant, PTL DEF DesktopSpec, ReadsCurrent

\* Reading is refused only to a client that was signed out at some moment since its
\* files were listed, or when files came or went since then, or reading failed.
THEOREM RefusesOnlySignedOut == DesktopSpec => RefusesSignedOut
<1>1. DesktopInv /\ [DesktopNext]_desktopVars =>
        \A c \in Readers :
          Answers(c) /\ answer'[c] = 0 =>
             0 \in seen[c] \/ changed[c] \/ readFaults' # readFaults
  <2> SUFFICES ASSUME DesktopInv, [DesktopNext]_desktopVars, NEW c \in Readers,
                      Answers(c), answer'[c] = 0, ~ changed[c], readFaults' = readFaults
               PROVE  0 \in seen[c]
    OBVIOUS
  <2>1. /\ answer'[c] = IF SignedOut(call[c].found) THEN 0 ELSE call[c].found.token
        /\ \/ call[c].at = "open"
           \/ /\ call[c].at = "decide"
              /\ call[c].found.signedIn = FALSE \/ call[c].found.token # Unset
    BY EndOfRead
  <2>2. SignedOut(call[c].found)
    BY <2>1 DEF SignedOut
  <2>3. Seen(c, call[c].found)
    BY <2>1, FoundWasSession
  <2>4. CASE call[c].found.signedIn = FALSE
    BY <2>3, <2>4 DEF Seen
  <2>5. CASE call[c].found.token = 0
    BY <2>3, <2>5, UnsetAssumption DEF Seen
  <2>6. CASE call[c].found.token = Unset /\ ~ (call[c].found.signedIn = FALSE)
    BY <2>1, <2>6, FoundWasSession
  <2> QED
    BY <2>2, <2>4, <2>5, <2>6 DEF SignedOut
<1> QED
  BY <1>1, DesktopInvariant, PTL DEF DesktopSpec, RefusesSignedOut

\* The token that the calls share never gives way to an older one.
THEOREM CachedTokenMovesOn == DesktopSpec => CachedMovesOn
<1>1. DesktopInv /\ [DesktopNext]_desktopVars =>
        ((\A c \in Readers : ~ call[c].missed) => cached' >= cached)
  <2> SUFFICES ASSUME DesktopInv, [DesktopNext]_desktopVars,
                      \A c \in Readers : ~ call[c].missed, cached' # cached
               PROVE  cached' >= cached
    BY DEF DesktopInv, DesktopTypeOK, Tokens
  <2>1. PICK c \in Readers : /\ Answer(c, call[c].found)
                             /\ call[c].at = "decide" \/ call[c].at = "open"
    <3>1. PICK c \in Readers : Step(c)
      BY DEF DesktopNext, DesktopTerminated, Client, desktopVars
    <3>2. Decide(c) \/ OpenCopy(c)
      BY <3>1 DEF Step, BeginRead, ClientToken, AnswerCached, LockWrite, ListLogs,
           ReadLog, LogsRead, ListFiles, CopyTables, CopyLog, LogsCopied
    <3> QED
      BY <3>2 DEF Decide, OpenCopy
  <2>2. /\ cached' = call[c].found.token /\ cached' \notin {0, Unset}
    BY <2>1 DEF Answer
  <2>3. Seen(c, call[c].found) /\ \A t \in seen[c] : t # 0 => t >= cached
    BY <2>1, FoundWasSession
  <2> QED
    BY <2>2, <2>3 DEF Seen
<1> QED
  BY <1>1, DesktopInvariant, PTL DEF DesktopSpec, CachedMovesOn


-----------------------------------------------------------------------------
(* The log files *)

\* No more is to be written than the batch is long.
WalInv == WalTypeOK /\ (Writing => batches # <<>> /\ left <= Last(batches).length)

LEMMA MultipleRemainder ==
  ASSUME NEW q \in Int, NEW b \in Int, b > 0
  PROVE  (b * q) % b = 0
OBVIOUS

LEMMA Remainder ==
  ASSUME NEW s \in Nat, NEW b \in Nat, b > 0
  PROVE  s % b \in 0 .. b - 1
OBVIOUS

\* What is left to the end of a block leads to the beginning of the next one.
LEMMA NextMultiple ==
  ASSUME NEW s \in Nat, NEW b \in Nat, b > 0
  PROVE  (s + (b - (s % b))) % b = 0
<1> DEFINE q == s \div b
<1>1. q \in Int
  OBVIOUS
<1>2. s % b = s - q * b
  BY SMT
<1>3. s % b \in Int
  OBVIOUS
<1> HIDE DEF q
<1>4. b * (q + 1) = q * b + b
  BY <1>1
<1>5. s + (b - (s % b)) = b * (q + 1)
  BY <1>1, <1>2, <1>3, <1>4
<1>6. q + 1 \in Int
  BY <1>1
<1>7. (b * (q + 1)) % b = 0
  BY <1>6, MultipleRemainder
<1> QED
  BY <1>5, <1>7, Zenon

LEMMA SizeIsNat ==
  ASSUME NEW log \in Seq(Physical)
  PROVE  Size(log) \in Nat
<1>1. CASE log = <<>>
  BY <1>1 DEF Size
<1>2. CASE log # <<>>
  <2>1. Last(log) \in Physical
    BY <1>2 DEF Last
  <2> QED
    BY <1>2, <2>1, SizeAssumption DEF Size, End, Physical
<1> QED
  BY <1>1, <1>2

\* Where a record begins there is room for its header.
LEMMA HeaderFits ==
  ASSUME NEW log \in Seq(Physical)
  PROVE  /\ NextAt(log) \in Nat
         /\ Block - (NextAt(log) % Block) - Header \in Nat
<1> DEFINE s == Size(log)
           r == s % Block
           rest == Block - r
<1>1. s \in Nat
  BY SizeIsNat
<1>2. NextAt(log) = IF rest < Header THEN s + rest ELSE s
  BY DEF NextAt
<1> HIDE DEF s
<1>0. Block \in Nat /\ Block > 0
  BY SizeAssumption
<1>3. r \in 0 .. Block - 1
  BY <1>0, <1>1, Remainder
<1>4. (s + rest) % Block = 0
  BY <1>0, <1>1, NextMultiple
<1>5. CASE rest < Header
  <2>1. NextAt(log) = s + rest /\ NextAt(log) % Block = 0
    BY <1>2, <1>4, <1>5
  <2> HIDE DEF r
  <2> QED
    BY <1>1, <1>3, <2>1, SizeAssumption
<1>6. CASE ~ (rest < Header)
  <2>1. NextAt(log) = s /\ NextAt(log) % Block = r
    BY <1>2, <1>6
  <2> HIDE DEF r
  <2> QED
    BY <1>1, <1>3, <1>6, <2>1, SizeAssumption
<1> QED
  BY <1>5, <1>6

LEMMA MinOfTwo ==
  ASSUME NEW m \in Nat, NEW n \in Nat
  PROVE  Min({m, n}) \in Nat /\ Min({m, n}) <= m
<1>1. {m, n} \in SUBSET Nat /\ {m, n} # {} /\ m \in {m, n}
  OBVIOUS
<1> QED
  BY <1>1, MinIsLeast

LEMMA NextSequenceIsNat ==
  ASSUME WalInv, Finished \subseteq DOMAIN batches
  PROVE  NextSequence \in Nat
<1>1. CASE Finished = {}
  BY <1>1 DEF NextSequence
<1>2. CASE Finished # {}
  <2>1. Finished \subseteq DOMAIN batches /\ batches \in Seq(Batch)
    BY DEF WalInv, WalTypeOK
  <2>2. DOMAIN batches \subseteq 0 .. Len(batches) /\ Len(batches) \in Nat
    BY <2>1
  <2>3. Bounded(Finished)
    BY <2>1, <2>2 DEF Bounded
  <2>4. Max(Finished) \in DOMAIN batches
    BY <1>2, <2>1, <2>3, BoundedMax
  <2> DEFINE last == batches[Max(Finished)]
  <2>5. last \in Batch
    BY <2>1, <2>4
  <2>6. NextSequence = last.sequence + Len(last.contents)
    BY <1>2 DEF NextSequence
  <2> HIDE DEF last
  <2>7. last.sequence \in Nat
    BY <2>5 DEF Batch
  <2>8. Len(last.contents) \in Nat
    <3>1. last.contents \in Contents
      BY <2>5 DEF Batch
    <3>2. last.contents \in Seq([key : Keys \union {Other}, put : BOOLEAN])
      BY <3>1, BatchAssumption
    <3> QED
      BY <3>2
  <2> QED
    BY <2>6, <2>7, <2>8
<1> QED
  BY <1>1, <1>2

LEMMA BeginBatchStep ==
  ASSUME WalInv, Finished \subseteq DOMAIN batches, BeginBatch
  PROVE  WalInv'
<1> DEFINE b(length, contents) == [length |-> length, sequence |-> NextSequence,
                                   contents |-> contents]
<1>1. PICK length \in Lengths, contents \in Contents :
        batches' = Append(batches, b(length, contents)) /\ left' = length
  BY DEF BeginBatch
<1>2. length \in Nat
  BY BatchAssumption
<1>3. b(length, contents) \in Batch
  BY <1>2, NextSequenceIsNat DEF Batch, WalInv, WalTypeOK
<1>4. b(length, contents).length = length
  OBVIOUS
<1> HIDE DEF b
<1>5. batches \in Seq(Batch) /\ Len(batches) < MaxBatches
  BY DEF WalInv, WalTypeOK, BeginBatch
<1>6. /\ batches' \in Seq(Batch) /\ Len(batches') = Len(batches) + 1
      /\ batches'[Len(batches')] = b(length, contents)
  BY <1>1, <1>3, <1>5
<1>7. Len(batches') <= MaxBatches
  BY <1>5, <1>6, BatchAssumption
<1>8. Last(batches)' = b(length, contents) /\ batches' # <<>>
  BY <1>5, <1>6 DEF Last
<1>9. left' \in Nat /\ left' <= Last(batches)'.length
  BY <1>1, <1>2, <1>4, <1>8
<1> QED
  BY <1>6, <1>7, <1>8, <1>9 DEF WalInv, WalTypeOK, BeginBatch

LEMMA WriteRecordStep == WalInv /\ WriteRecord => WalInv'
<1> SUFFICES ASSUME WalInv, WriteRecord PROVE WalInv'
  OBVIOUS
<1> DEFINE log    == Last(wals)
           at     == NextAt(log)
           room   == Block - (at % Block) - Header
           length == Min({left, room})
           type   == IF length = left THEN (IF begun THEN "LAST" ELSE "FULL")
                                      ELSE (IF begun THEN "MIDDLE" ELSE "FIRST")
           from   == Last(batches).length - left + 1
           p      == [type |-> type, at |-> at, batch |-> Len(batches),
                      from |-> from, length |-> length]
<1>1. /\ wals \in Seq(Seq(Physical)) /\ Len(wals) \in 1 .. MaxLogs
      /\ batches \in Seq(Batch) /\ batches # <<>>
      /\ left \in Nat /\ left <= Last(batches).length
  BY DEF WalInv, WalTypeOK, WriteRecord
<1>2. wals' = [wals EXCEPT ![Len(wals)] = Append(@, p)] /\ left' = left - length
  BY DEF WriteRecord
<1>3. UNCHANGED batches /\ begun' = TRUE
  BY DEF WriteRecord
<1>4. Len(wals) \in DOMAIN wals /\ log = wals[Len(wals)] /\ log \in Seq(Physical)
  BY <1>1, BatchAssumption DEF Last
<1>5. at \in Nat /\ room \in Nat
  BY <1>4, HeaderFits
<1>6. type \in Types
  BY DEF Types
<1> HIDE DEF log, at, room, type
<1>7. length \in Nat /\ length <= left
  BY <1>1, <1>5, MinOfTwo
<1> HIDE DEF length
<1>8. Last(batches).length \in Nat
  <2>1. Last(batches) \in Batch
    BY <1>1 DEF Last
  <2> QED
    BY <2>1 DEF Batch
<1>9. from \in Nat
  BY <1>1, <1>8
<1> HIDE DEF from
<1>10. p \in Physical
  BY <1>1, <1>5, <1>6, <1>7, <1>9 DEF Physical
<1> HIDE DEF p
<1>11. wals' \in Seq(Seq(Physical)) /\ Len(wals') = Len(wals)
  <2>1. Append(wals[Len(wals)], p) \in Seq(Physical)
    BY <1>4, <1>10
  <2> QED
    BY <1>1, <1>2, <1>4, <2>1
<1>12. left' \in Nat /\ left' <= left
  BY <1>1, <1>2, <1>7
<1>13. left' <= Last(batches)'.length
  <2>1. Last(batches)' = Last(batches)
    BY <1>3
  <2> QED
    BY <1>1, <1>8, <1>12, <2>1
<1> QED
  BY <1>1, <1>3, <1>11, <1>12, <1>13 DEF WalInv, WalTypeOK

LEMMA NewWalStep ==
  WalInv /\ Len(wals) < MaxLogs /\ wals' = Append(wals, <<>>)
    => wals' \in Seq(Seq(Physical)) /\ Len(wals') \in 1 .. MaxLogs
<1> SUFFICES ASSUME WalInv, Len(wals) < MaxLogs, wals' = Append(wals, <<>>)
             PROVE  wals' \in Seq(Seq(Physical)) /\ Len(wals') \in 1 .. MaxLogs
  OBVIOUS
<1>1. wals \in Seq(Seq(Physical)) /\ Len(wals) \in 1 .. MaxLogs
  BY DEF WalInv, WalTypeOK
<1>2. <<>> \in Seq(Physical)
  OBVIOUS
<1>3. wals' \in Seq(Seq(Physical)) /\ Len(wals') = Len(wals) + 1
  BY <1>1, <1>2
<1> QED
  BY <1>1, <1>3, BatchAssumption

-----------------------------------------------------------------------------
(* What the log files hold: an inductive invariant *)

BeginsBatch(p) == p.type \in {"FULL", "FIRST"}

\* Physical record q is written after p.
Follows(p, q) ==
    IF EndsBatch(p) THEN BeginsBatch(q)
    ELSE ~ BeginsBatch(q) /\ q.batch = p.batch /\ q.from = p.from + p.length

\* What a physical record says of its batch, one of bs.
PieceOf(bs, p) ==
    /\ p.batch \in DOMAIN bs /\ bs[p.batch].length > 0
    /\ BeginsBatch(p) => p.from = 1
    /\ EndsBatch(p) => p.from + p.length = bs[p.batch].length + 1

\* Physical record p is written before q: the batches come one after the other.
Before(p, q) ==
    /\ End(p) <= End(q) /\ p.batch <= q.batch
    /\ EndsBatch(p) \/ BeginsBatch(q) => p.batch < q.batch

Pieces(bs, log) ==
    /\ \A i \in DOMAIN log :
         /\ PieceOf(bs, log[i])
         /\ IF i = 1 THEN BeginsBatch(log[i]) ELSE Follows(log[i - 1], log[i])
    /\ \A i, j \in DOMAIN log : i < j => Before(log[i], log[j])

\* The last physical record of the file in use.
LastPiece(log) ==
    /\ Writing /\ begun =>
         /\ log # <<>> /\ ~ EndsBatch(log[Len(log)]) /\ log[Len(log)].batch = Len(batches)
         /\ log[Len(log)].from + log[Len(log)].length = batches[Len(batches)].length - left + 1
    /\ ~ (Writing /\ begun) => log = <<>> \/ EndsBatch(log[Len(log)])
    /\ Writing /\ ~ begun =>
         left = batches[Len(batches)].length /\ \A i \in DOMAIN log : log[i].batch < Len(batches)

\* Sequence numbers begin at one, and a batch that is whole has used up its own
\* before the next one is given any.
NumberedFor(S, bs) ==
    /\ \A b \in DOMAIN bs : bs[b].sequence > 0
    /\ \A b \in S, c \in DOMAIN bs :
         b < c => bs[b].sequence + Len(bs[b].contents) <= bs[c].sequence

LogInv ==
    /\ WalInv
    /\ \A n \in DOMAIN wals : Pieces(batches, wals[n])
    /\ LastPiece(wals[Len(wals)])
    /\ NumberedFor(Finished, batches)

-----------------------------------------------------------------------------
(* The writer keeps the invariant *)

LEMMA PieceTypes ==
  ASSUME NEW p \in Physical
  PROVE  /\ p.type \in Types /\ p.at \in Nat /\ p.batch \in Nat /\ p.from \in Nat
         /\ p.length \in Nat /\ End(p) \in Nat
<1>1. /\ p.type \in Types /\ p.at \in Nat /\ p.batch \in Nat /\ p.from \in Nat
      /\ p.length \in Nat
  BY DEF Physical
<1> QED
  BY <1>1, SizeAssumption DEF End

LEMMA PiecesEmpty == ASSUME NEW bs PROVE Pieces(bs, <<>>)
BY DEF Pieces

LEMMA PiecesAppend ==
  ASSUME NEW bs, NEW log \in Seq(Physical), NEW p \in Physical, Pieces(bs, log),
         PieceOf(bs, p), \A i \in DOMAIN log : Before(log[i], p),
         IF log = <<>> THEN BeginsBatch(p) ELSE Follows(log[Len(log)], p)
  PROVE  Pieces(bs, Append(log, p))
<1> DEFINE more == Append(log, p)
           n == Len(log)
<1>1. /\ n \in Nat /\ DOMAIN log = 1 .. n /\ DOMAIN more = 1 .. n + 1
      /\ more[n + 1] = p /\ \A i \in 1 .. n : more[i] = log[i]
      /\ (log = <<>> <=> n = 0)
  OBVIOUS
<1> HIDE DEF more, n
<1>2. ASSUME NEW i \in DOMAIN more
      PROVE  /\ PieceOf(bs, more[i])
             /\ IF i = 1 THEN BeginsBatch(more[i]) ELSE Follows(more[i - 1], more[i])
  <2>1. CASE i \in 1 .. n
    <3>1. i # 1 => i - 1 \in 1 .. n
      BY <1>1, <2>1
    <3> QED
      BY <1>1, <2>1, <3>1 DEF Pieces
  <2>2. CASE i = n + 1
    <3>1. n # 0 => i # 1 /\ i - 1 = n /\ n \in 1 .. n
      BY <1>1, <2>2
    <3>2. n = 0 => i = 1
      BY <2>2
    <3>3. n # 0 => Follows(log[n], p)
      BY <1>1 DEF n
    <3> QED
      BY <1>1, <2>2, <3>1, <3>2, <3>3
  <2> QED
    BY <1>1, <2>1, <2>2
<1>3. ASSUME NEW i \in DOMAIN more, NEW j \in DOMAIN more, i < j
      PROVE  Before(more[i], more[j])
  <2>1. i \in 1 .. n
    BY <1>1, <1>3
  <2>2. CASE j \in 1 .. n
    BY <1>1, <1>3, <2>1, <2>2 DEF Pieces
  <2>3. CASE j = n + 1
    BY <1>1, <2>1, <2>3
  <2> QED
    BY <1>1, <2>2, <2>3
<1>4. Pieces(bs, more)
  BY <1>2, <1>3 DEF Pieces
<1> QED
  BY <1>4 DEF more

LEMMA PiecesMore ==
  ASSUME NEW bs, NEW cs, NEW log \in Seq(Physical), Pieces(bs, log),
         \A b \in DOMAIN bs : b \in DOMAIN cs /\ cs[b].length = bs[b].length
  PROVE  Pieces(cs, log)
<1>1. ASSUME NEW i \in DOMAIN log PROVE PieceOf(cs, log[i])
  BY <1>1 DEF Pieces, PieceOf
<1> QED
  BY <1>1 DEF Pieces

EndedIn(log) == {log[i].batch : i \in {j \in DOMAIN log : EndsBatch(log[j])}}

\* The last physical record ends last.
LEMMA EndsLast ==
  ASSUME NEW bs, NEW log \in Seq(Physical), Pieces(bs, log), NEW i \in DOMAIN log
  PROVE  /\ Size(log) = End(log[Len(log)]) /\ End(log[i]) <= Size(log)
         /\ log[i].batch <= log[Len(log)].batch
<1>1. /\ log # <<>> /\ Len(log) \in Nat /\ i \in 1 .. Len(log) /\ Len(log) \in DOMAIN log
      /\ log[i] \in Physical
  OBVIOUS
<1>2. Size(log) = End(log[Len(log)])
  BY <1>1 DEF Size, Last
<1>3. CASE i = Len(log)
  BY <1>1, <1>2, <1>3, PieceTypes
<1>4. CASE i < Len(log)
  BY <1>1, <1>2, <1>4 DEF Pieces, Before
<1> QED
  BY <1>1, <1>2, <1>3, <1>4

LEMMA WholeFile ==
  ASSUME NEW bs, NEW log \in Seq(Physical), Pieces(bs, log)
  PROVE  Whole(log, Size(log)) = EndedIn(log) /\ EndedIn(log) \subseteq DOMAIN bs
<1>1. \A i \in DOMAIN log : End(log[i]) <= Size(log)
  BY EndsLast
<1>2. \A i \in DOMAIN log : log[i].batch \in DOMAIN bs
  BY DEF Pieces, PieceOf
<1> QED
  BY <1>1, <1>2 DEF Whole, EndedIn

LEMMA FinishedIs ==
  ASSUME wals \in Seq(Seq(Physical)), \A n \in DOMAIN wals : Pieces(batches, wals[n])
  PROVE  /\ Finished = UNION {EndedIn(wals[n]) : n \in DOMAIN wals}
         /\ Finished \subseteq DOMAIN batches
<1>1. \A n \in DOMAIN wals : wals[n] \in Seq(Physical)
  OBVIOUS
<1>2. \A n \in DOMAIN wals : /\ Whole(wals[n], Size(wals[n])) = EndedIn(wals[n])
                             /\ EndedIn(wals[n]) \subseteq DOMAIN batches
  BY <1>1, WholeFile
<1> QED
  BY <1>2 DEF Finished

\* The number that a batch gets is beyond those of all that are whole.
LEMMA NextIsBeyond ==
  ASSUME LogInv
  PROVE  /\ NextSequence \in Nat /\ NextSequence > 0
         /\ \A b \in Finished :
              batches[b].sequence + Len(batches[b].contents) <= NextSequence
<1>1. /\ Finished \subseteq DOMAIN batches /\ batches \in Seq(Batch)
      /\ WalInv /\ wals \in Seq(Seq(Physical))
  BY FinishedIs DEF LogInv, WalInv, WalTypeOK
<1>2. NextSequence \in Nat
  BY <1>1, NextSequenceIsNat
<1>3. ASSUME NEW b \in DOMAIN batches
      PROVE  batches[b].sequence \in Nat /\ batches[b].sequence > 0 /\ Len(batches[b].contents) \in Nat
  <2>1. batches[b] \in Batch
    BY <1>1
  <2>2. batches[b].sequence \in Nat /\ batches[b].contents \in Contents
    BY <2>1 DEF Batch
  <2>3. batches[b].contents \in Seq([key : Keys \union {Other}, put : BOOLEAN])
    BY <2>2, BatchAssumption
  <2>4. batches[b].sequence > 0
    BY DEF LogInv, NumberedFor
  <2>5. Len(batches[b].contents) \in Nat
    BY <2>3
  <2> QED
    BY <2>2, <2>4, <2>5
<1>4. CASE Finished = {}
  BY <1>2, <1>4 DEF NextSequence
<1>5. CASE Finished # {}
  <2>1. Bounded(Finished) /\ DOMAIN batches = 1 .. Len(batches) /\ Len(batches) \in Nat
    <3>1. DOMAIN batches = 1 .. Len(batches) /\ Len(batches) \in Nat
      BY <1>1
    <3>2. 1 .. Len(batches) \subseteq 0 .. Len(batches)
      BY <3>1
    <3>3. Finished \in SUBSET (0 .. Len(batches))
      BY <1>1, <3>1, <3>2
    <3> QED
      BY <3>1, <3>3 DEF Bounded
  <2> DEFINE m == Max(Finished)
  <2>2. m \in Finished /\ \A b \in Finished : b <= m
    BY <1>5, <2>1, BoundedMax
  <2>3. NextSequence = batches[m].sequence + Len(batches[m].contents)
    BY <1>5 DEF NextSequence
  <2> HIDE DEF m
  <2>4. m \in DOMAIN batches
    BY <1>1, <2>2
  <2>5. ASSUME NEW b \in Finished
        PROVE  batches[b].sequence + Len(batches[b].contents) <= NextSequence
    <3>1. b \in DOMAIN batches /\ b <= m /\ b \in Nat /\ m \in Nat
      BY <1>1, <2>1, <2>2, <2>4
    <3>2. CASE b = m
      BY <1>3, <2>3, <2>4, <3>2
    <3>3. CASE b < m
      <4>1. batches[b].sequence + Len(batches[b].contents) <= batches[m].sequence
        BY <2>4, <3>3 DEF LogInv, NumberedFor
      <4> QED
        BY <1>3, <2>3, <2>4, <3>1, <4>1
    <3> QED
      BY <3>1, <3>2, <3>3
  <2> QED
    BY <1>2, <1>3, <2>3, <2>4, <2>5
<1> QED
  BY <1>4, <1>5

LEMMA BeginBatchKeeps == ASSUME LogInv, BeginBatch PROVE LogInv'
<1>1. /\ WalInv /\ wals \in Seq(Seq(Physical)) /\ Len(wals) \in DOMAIN wals
      /\ batches \in Seq(Batch) /\ Finished \subseteq DOMAIN batches
  BY FinishedIs, BatchAssumption DEF LogInv, WalInv, WalTypeOK
<1>2. WalInv'
  BY <1>1, BeginBatchStep
<1>3. PICK length \in Lengths, contents \in Contents :
        /\ batches' = Append(batches, [length |-> length, sequence |-> NextSequence,
                                       contents |-> contents])
        /\ left' = length
  BY DEF BeginBatch
<1>4. begun' = FALSE /\ UNCHANGED wals /\ ~ Writing
  BY DEF BeginBatch
<1> DEFINE n == Len(batches)
<1>5. /\ n \in Nat /\ DOMAIN batches = 1 .. n
      /\ Len(batches') = n + 1 /\ DOMAIN batches' = 1 .. n + 1
      /\ \A b \in 1 .. n : batches'[b] = batches[b]
      /\ batches'[n + 1].length = length /\ batches'[n + 1].sequence = NextSequence
  BY <1>1, <1>3
<1> HIDE DEF n
<1>6. \A k \in DOMAIN wals : Pieces(batches', wals[k])
  <2> SUFFICES ASSUME NEW k \in DOMAIN wals PROVE Pieces(batches', wals[k])
    OBVIOUS
  <2>1. wals[k] \in Seq(Physical) /\ Pieces(batches, wals[k])
    BY <1>1 DEF LogInv
  <2>2. \A b \in DOMAIN batches : b \in DOMAIN batches' /\ batches'[b].length = batches[b].length
    BY <1>5
  <2> QED
    BY <2>1, <2>2, PiecesMore
<1>7. LastPiece(wals[Len(wals)])'
  <2> DEFINE log == wals[Len(wals)]
  <2>1. log \in Seq(Physical) /\ Pieces(batches, log) /\ (log = <<>> \/ EndsBatch(log[Len(log)]))
    BY <1>1, <1>4 DEF LogInv, LastPiece
  <2>2. \A i \in DOMAIN log : log[i].batch < n + 1
    BY <1>5, <2>1 DEF Pieces, PieceOf
  <2> HIDE DEF log
  <2>3. log' = log
    BY <1>4 DEF log
  <2>4. LastPiece(log)'
    BY <1>3, <1>4, <1>5, <2>1, <2>2, <2>3 DEF LastPiece
  <2> QED
    BY <2>4 DEF log
<1>8. NumberedFor(Finished, batches)'
  <2>1. Finished' = Finished
    BY <1>4 DEF Finished
  <2>2. \A b \in 1 .. n + 1 : batches'[b].sequence > 0
    BY <1>5, NextIsBeyond DEF LogInv, NumberedFor
  <2>3. ASSUME NEW b \in Finished, NEW c \in 1 .. n + 1, b < c
        PROVE  batches'[b].sequence + Len(batches'[b].contents) <= batches'[c].sequence
    <3>1. b \in 1 .. n
      BY <1>1, <1>5
    <3>2. CASE c = n + 1
      BY <1>5, <3>1, <3>2, NextIsBeyond
    <3>3. CASE c \in 1 .. n
      BY <1>5, <2>3, <3>1, <3>3 DEF LogInv, NumberedFor
    <3> QED
      BY <1>5, <3>2, <3>3
  <2> QED
    BY <1>5, <2>1, <2>2, <2>3 DEF NumberedFor
<1> QED
  BY <1>2, <1>4, <1>6, <1>7, <1>8 DEF LogInv

LEMMA NewWalKeeps ==
  ASSUME LogInv, WalInv', wals' = Append(wals, <<>>), UNCHANGED batches, ~ Writing'
  PROVE  LogInv'
<1> DEFINE n == Len(wals)
<1>1. /\ wals \in Seq(Seq(Physical)) /\ n \in Nat /\ DOMAIN wals = 1 .. n
      /\ Len(wals') = n + 1 /\ DOMAIN wals' = 1 .. n + 1
      /\ wals'[n + 1] = <<>> /\ \A k \in 1 .. n : wals'[k] = wals[k]
  BY DEF LogInv, WalInv, WalTypeOK
<1> HIDE DEF n
<1>2. \A k \in 1 .. n + 1 : Pieces(batches', wals'[k])
  <2> SUFFICES ASSUME NEW k \in 1 .. n + 1 PROVE Pieces(batches', wals'[k])
    OBVIOUS
  <2>1. CASE k = n + 1
    BY <1>1, <2>1, PiecesEmpty
  <2>2. CASE k \in 1 .. n
    BY <1>1, <2>2 DEF LogInv
  <2> QED
    BY <1>1, <2>1, <2>2
<1>3. LastPiece(<<>>)'
  BY DEF LastPiece
<1>4. Finished' = Finished
  <2>1. Whole(<<>>, Size(<<>>)) = {}
    BY DEF Whole
  <2>2. Finished' = UNION {Whole(wals'[k], Size(wals'[k])) : k \in 1 .. n + 1}
    BY <1>1 DEF Finished
  <2>3. \A k \in 1 .. n + 1 : k = n + 1 \/ k \in 1 .. n
    BY <1>1
  <2>4. 1 .. n \subseteq 1 .. n + 1
    BY <1>1
  <2> QED
    BY <1>1, <2>1, <2>2, <2>3, <2>4, SMTT(20) DEF Finished
<1>5. NumberedFor(Finished, batches)'
  BY <1>4 DEF LogInv
<1> QED
  BY <1>1, <1>2, <1>3, <1>5 DEF LogInv

\* Where a record is written is not before the end of the last one.
LEMMA NextAtIsLater ==
  ASSUME NEW log \in Seq(Physical)
  PROVE  NextAt(log) \in Nat /\ NextAt(log) >= Size(log)
<1>1. Size(log) \in Nat /\ NextAt(log) \in Nat /\ Block \in Nat /\ Block > 0
  BY SizeIsNat, HeaderFits, SizeAssumption
<1> DEFINE r == Size(log) % Block
<1>2. r \in 0 .. Block - 1
  BY <1>1, Remainder
<1>3. NextAt(log) = IF Block - r < Header THEN Size(log) + (Block - r) ELSE Size(log)
  BY DEF NextAt
<1> HIDE DEF r
<1> QED
  BY <1>1, <1>2, <1>3

LEMMA WriteRecordKeeps == ASSUME LogInv, WriteRecord PROVE LogInv'
<1> DEFINE n      == Len(wals)
           log    == wals[n]
           room   == Block - (NextAt(log) % Block) - Header
           length == Min({left, room})
           b      == Len(batches)
           type   == IF length = left THEN (IF begun THEN "LAST" ELSE "FULL")
                                      ELSE (IF begun THEN "MIDDLE" ELSE "FIRST")
           p      == [type |-> type, at |-> NextAt(log), batch |-> b,
                      from |-> batches[b].length - left + 1, length |-> length]
<1>1. /\ wals \in Seq(Seq(Physical)) /\ n \in Nat /\ DOMAIN wals = 1 .. n /\ n \in DOMAIN wals
      /\ batches \in Seq(Batch) /\ b \in DOMAIN batches /\ DOMAIN batches = 1 .. b /\ b \in Nat
      /\ left \in Nat /\ left > 0 /\ left <= batches[b].length /\ begun \in BOOLEAN
      /\ WalInv /\ WalInv'
  BY WriteRecordStep, BatchAssumption DEF LogInv, WalInv, WalTypeOK, WriteRecord, Writing, Last
<1>2. wals' = [wals EXCEPT ![n] = Append(log, p)] /\ left' = left - length
  BY DEF WriteRecord, Last
<1>3. UNCHANGED batches /\ begun' = TRUE /\ Writing
  BY DEF WriteRecord
<1>4. log \in Seq(Physical) /\ Pieces(batches, log) /\ LastPiece(log)
  BY <1>1 DEF LogInv
<1>5. length \in Nat /\ length <= left
  BY <1>1, <1>4, HeaderFits, MinOfTwo
<1>6. batches[b].length \in Nat
  <2>1. batches[b] \in Batch
    BY <1>1
  <2> QED
    BY <2>1 DEF Batch
<1> HIDE DEF length
<1>7. /\ p.type = type /\ p.at = NextAt(log) /\ p.batch = b /\ p.length = length
      /\ p.from = batches[b].length - left + 1 /\ p.from \in Nat
  BY <1>1, <1>6
<1>8. p \in Physical /\ End(p) = NextAt(log) + Header + length
  BY <1>1, <1>4, <1>5, <1>7, NextAtIsLater DEF Physical, Types, End
<1>9. EndsBatch(p) <=> length = left
  BY <1>7 DEF EndsBatch
<1>10. BeginsBatch(p) <=> ~ begun
  BY <1>7 DEF BeginsBatch
<1> HIDE DEF type, p, room
<1>11. ~ begun => left = batches[b].length /\ \A i \in DOMAIN log : log[i].batch < b
  BY <1>3, <1>4 DEF LastPiece
<1>12. begun => /\ log # <<>> /\ ~ EndsBatch(log[Len(log)]) /\ log[Len(log)].batch = b
                /\ log[Len(log)].from + log[Len(log)].length = p.from
  BY <1>3, <1>4, <1>7 DEF LastPiece
<1>13. ~ begun => log = <<>> \/ EndsBatch(log[Len(log)])
  BY <1>4 DEF LastPiece
<1> HIDE DEF log, b, n
<1>14. PieceOf(batches, p)
  BY <1>1, <1>5, <1>6, <1>7, <1>9, <1>10, <1>11 DEF PieceOf
<1>15. IF log = <<>> THEN BeginsBatch(p) ELSE Follows(log[Len(log)], p)
  BY <1>1, <1>7, <1>10, <1>12, <1>13 DEF Follows
<1>16. ASSUME NEW i \in DOMAIN log PROVE Before(log[i], p)
  <2>1. End(log[i]) <= Size(log) /\ log[i].batch <= log[Len(log)].batch /\ log[i] \in Physical
    BY <1>4, EndsLast
  <2>2. End(log[i]) \in Nat /\ log[i].batch \in Nat /\ Size(log) \in Nat
    BY <1>4, <2>1, PieceTypes, SizeIsNat
  <2>3. End(log[i]) <= End(p)
    BY <1>4, <1>5, <1>8, <2>1, <2>2, NextAtIsLater, SizeAssumption
  <2>4. CASE ~ begun
    BY <1>1, <1>7, <1>11, <2>2, <2>3, <2>4 DEF Before
  <2>5. CASE begun
    <3>1. log[i].batch <= b
      BY <1>12, <2>1, <2>5
    <3>2. EndsBatch(log[i]) => log[i].batch < b
      <4>1. i \in 1 .. Len(log) /\ Len(log) \in DOMAIN log /\ Len(log) \in Nat
        BY <1>4
      <4>2. EndsBatch(log[i]) => i < Len(log)
        BY <1>12, <2>5, <4>1
      <4> QED
        BY <1>4, <1>12, <2>5, <4>1, <4>2 DEF Pieces, Before
    <3> QED
      BY <1>7, <1>10, <2>3, <2>5, <3>1, <3>2 DEF Before
  <2> QED
    BY <2>4, <2>5
<1>17. Pieces(batches, Append(log, p))
  BY <1>4, <1>8, <1>14, <1>15, <1>16, PiecesAppend
<1>18. /\ wals'[n] = Append(log, p) /\ Len(wals') = n /\ DOMAIN wals' = 1 .. n
       /\ \A k \in 1 .. n : k # n => wals'[k] = wals[k]
  <2>1. /\ DOMAIN wals' = 1 .. n /\ wals'[n] = Append(log, p)
        /\ \A k \in 1 .. n : k # n => wals'[k] = wals[k]
    BY <1>1, <1>2
  <2>2. wals' \in Seq(Seq(Physical))
    BY <1>1 DEF WalInv, WalTypeOK
  <2>3. Len(wals') = n
    BY <1>1, <2>1, <2>2
  <2> QED
    BY <2>1, <2>3
<1>19. \A k \in 1 .. n : Pieces(batches', wals'[k])
  BY <1>1, <1>3, <1>17, <1>18 DEF LogInv
<1>20. LastPiece(wals[Len(wals)])'
  <2> DEFINE more == wals'[n]
  <2>1. more # <<>> /\ more[Len(more)] = p
    BY <1>4, <1>18
  <2> HIDE DEF more
  <2>2. Writing' <=> length # left
    BY <1>1, <1>2, <1>5 DEF Writing
  <2>3. p.from + p.length = batches[b].length - left' + 1
    BY <1>1, <1>2, <1>5, <1>6, <1>7
  <2>4. /\ Writing' /\ begun' =>
             /\ more # <<>> /\ ~ EndsBatch(more[Len(more)]) /\ more[Len(more)].batch = Len(batches)
             /\ more[Len(more)].from + more[Len(more)].length = batches[b].length - left' + 1
        /\ ~ (Writing' /\ begun') => EndsBatch(more[Len(more)])
    BY <1>3, <1>7, <1>9, <2>1, <2>2, <2>3 DEF b
  <2> QED
    BY <1>3, <1>18, <2>4 DEF LastPiece, b, more
<1>21. NumberedFor(Finished, batches)'
  <2>1. Finished \subseteq DOMAIN batches /\ Finished = UNION {EndedIn(wals[k]) : k \in 1 .. n}
    BY <1>1, FinishedIs DEF LogInv
  <2>2. Finished' = UNION {EndedIn(wals'[k]) : k \in 1 .. n}
    <3>1. /\ wals' \in Seq(Seq(Physical)) /\ \A k \in DOMAIN wals' : Pieces(batches', wals'[k])
      BY <1>1, <1>18, <1>19 DEF WalInv, WalTypeOK
    <3>2. \A k \in DOMAIN wals' : Whole(wals'[k], Size(wals'[k])) = EndedIn(wals'[k])
      BY <3>1, WholeFile
    <3> QED
      BY <1>18, <3>2 DEF Finished
  <2>3. EndedIn(Append(log, p)) \subseteq EndedIn(log) \union {b}
    <3>1. /\ DOMAIN Append(log, p) = 1 .. Len(log) + 1 /\ DOMAIN log = 1 .. Len(log)
          /\ Len(log) \in Nat /\ Append(log, p)[Len(log) + 1] = p
          /\ \A i \in 1 .. Len(log) : Append(log, p)[i] = log[i]
      BY <1>4
    <3>2. ASSUME NEW i \in 1 .. Len(log) + 1, EndsBatch(Append(log, p)[i])
          PROVE  Append(log, p)[i].batch \in EndedIn(log) \union {b}
      <4>1. CASE i = Len(log) + 1
        BY <1>7, <3>1, <4>1
      <4>2. CASE i \in 1 .. Len(log)
        BY <3>1, <3>2, <4>2 DEF EndedIn
      <4> QED
        BY <3>1, <4>1, <4>2
    <3> QED
      BY <3>1, <3>2 DEF EndedIn
  <2>4. Finished' \subseteq Finished \union {b}
    <3>1. \A k \in 1 .. n : EndedIn(wals'[k]) \subseteq Finished \union {b}
      <4> SUFFICES ASSUME NEW k \in 1 .. n PROVE EndedIn(wals'[k]) \subseteq Finished \union {b}
        OBVIOUS
      <4>1. EndedIn(wals[k]) \subseteq Finished
        BY <2>1
      <4>2. CASE k = n
        BY <1>18, <2>3, <4>1, <4>2 DEF log
      <4>3. CASE k # n
        BY <1>18, <4>1, <4>3
      <4> QED
        BY <4>2, <4>3
    <3> QED
      BY <2>2, <3>1
  <2>5. NumberedFor(Finished, batches)
    BY DEF LogInv
  <2>6. \A c \in DOMAIN batches : ~ (b < c)
    BY <1>1
  <2> QED
    BY <1>3, <2>4, <2>5, <2>6 DEF NumberedFor
<1> QED
  BY <1>1, <1>18, <1>19, <1>20, <1>21 DEF LogInv

LEMMA WalStepKeeps == ASSUME LogInv, [WalNext]_walVars PROVE LogInv'
<1>0. WalInv
  BY DEF LogInv
<1>1. CASE NextWal
  <2>1. WalInv' /\ ~ Writing'
    BY <1>0, <1>1, NewWalStep DEF NextWal, WalInv, WalTypeOK, Writing
  <2> QED
    BY <1>1, <2>1, NewWalKeeps DEF NextWal
<1>2. CASE Crash
  <2>1. left' = 0 /\ UNCHANGED <<batches, begun>>
    BY <1>2 DEF Crash
  <2>2. ~ Writing' /\ left' \in Nat
    BY <2>1 DEF Writing
  <2>3. WalInv'
    BY <1>0, <1>2, <2>1, <2>2, NewWalStep DEF Crash, WalInv, WalTypeOK
  <2> QED
    BY <1>2, <2>1, <2>2, <2>3, NewWalKeeps DEF Crash
<1>3. CASE UNCHANGED walVars
  BY <1>3 DEF walVars, LogInv, WalInv, WalTypeOK, LastPiece, Writing, Finished
<1> QED
  BY <1>1, <1>2, <1>3, BeginBatchKeeps, WriteRecordKeeps DEF WalNext, WalTerminated

LEMMA FirstLog == WalInit => LogInv
<1> SUFFICES ASSUME WalInit PROVE LogInv
  OBVIOUS
<1>1. <<>> \in Seq(Physical)
  OBVIOUS
<1>2. /\ wals \in Seq(Seq(Physical)) /\ Len(wals) = 1 /\ DOMAIN wals = 1 .. 1
      /\ wals[1] = <<>>
  BY <1>1 DEF WalInit
<1>3. batches \in Seq(Batch) /\ DOMAIN batches = {} /\ Len(batches) = 0 /\ left = 0 /\ begun = FALSE
  BY DEF WalInit
<1>4. MaxLogs >= 1 /\ MaxBatches >= 0
  BY BatchAssumption
<1>5. Len(wals) \in 1 .. MaxLogs /\ Len(batches) <= MaxBatches
  BY <1>2, <1>3, <1>4, BatchAssumption
<1>6. left \in Nat /\ ~ Writing
  BY <1>3 DEF Writing
<1>7. begun \in BOOLEAN
  BY <1>3
<1>8. WalInv
  BY <1>2, <1>3, <1>5, <1>6, <1>7 DEF WalInv, WalTypeOK
<1>9. \A n \in DOMAIN wals : Pieces(batches, wals[n])
  BY <1>2, PiecesEmpty
<1>10. LastPiece(wals[Len(wals)])
  BY <1>2, <1>6 DEF LastPiece
<1>11. NumberedFor(Finished, batches)
  BY <1>2, <1>3, <1>9, FinishedIs DEF NumberedFor
<1> QED
  BY <1>8, <1>9, <1>10, <1>11 DEF LogInv

\* What the log files hold is what LevelDB wrote batch by batch.
THEOREM LogsInvariant == WalSpec => []LogInv
<1>1. LogInv /\ [WalNext]_walVars => LogInv'
  BY WalStepKeeps
<1> QED
  BY <1>1, FirstLog, PTL DEF WalSpec

\* Log files, batches and what is left of one keep their types.
THEOREM WalTyped == WalSpec => []WalTypeOK
<1>1. LogInv => WalTypeOK
  BY DEF LogInv, WalInv
<1> QED
  BY <1>1, LogsInvariant, PTL

-----------------------------------------------------------------------------
(* Loops: a recursive function of the number of rounds *)

LEMMA UpTo ==
  ASSUME NEW n \in Nat, NEW T \in SUBSET (0 .. n), 0 \in T,
         \A i \in 1 .. n : i - 1 \in T => i \in T
  PROVE  T = 0 .. n
<1> SUFFICES ASSUME T # 0 .. n PROVE FALSE
  OBVIOUS
<1> DEFINE R == (0 .. n) \ T
<1>1. R # {}
  <2>1. T \subseteq 0 .. n
    OBVIOUS
  <2> HIDE DEF R
  <2>2. (0 .. n) \ T # {}
    BY <2>1, Zenon
  <2> QED
    BY <2>2 DEF R
<1>5. R \in SUBSET Nat
  OBVIOUS
<1>2. PICK k \in R : \A m \in R : k <= m
  BY <1>1, <1>5, LeastOf
<1>3. k \in 1 .. n /\ k \notin T /\ k - 1 \in 0 .. n
  BY <1>2
<1>4. k - 1 \in T
  BY <1>2, <1>3
<1> QED
  BY <1>3, <1>4

\* step[i] takes the state before the i-th round to the one after it.
Rounds(n, base, step, f) == f[0] = base /\ \A i \in 1 .. n : f[i] = step[i][f[i - 1]]

LEMMA LoopExists ==
  ASSUME NEW n \in Nat, NEW S, NEW base \in S, NEW step \in [1 .. n -> [S -> S]]
  PROVE  \E f \in [0 .. n -> S] : Rounds(n, base, step, f)
<1> DEFINE T == {m \in 0 .. n : \E f \in [0 .. m -> S] : Rounds(m, base, step, f)}
<1>1. 0 \in T
  <2> DEFINE f == [i \in 0 .. 0 |-> base]
  <2>1. f \in [0 .. 0 -> S] /\ Rounds(0, base, step, f)
    BY DEF Rounds
  <2> HIDE DEF f
  <2> QED
    BY <2>1
<1>2. ASSUME NEW i \in 1 .. n, i - 1 \in T PROVE i \in T
  <2>1. PICK g \in [0 .. i - 1 -> S] : Rounds(i - 1, base, step, g)
    BY <1>2
  <2> DEFINE f == [k \in 0 .. i |-> IF k = i THEN step[i][g[i - 1]] ELSE g[k]]
  <2>2. i - 1 \in 0 .. i - 1 /\ step[i][g[i - 1]] \in S
    BY <2>1
  <2>3. f \in [0 .. i -> S] /\ f[i] = step[i][g[i - 1]] /\ \A k \in 0 .. i - 1 : f[k] = g[k]
    BY <2>1, <2>2
  <2> HIDE DEF f
  <2>4. \A k \in 1 .. i : f[k] = step[k][f[k - 1]]
    <3> SUFFICES ASSUME NEW k \in 1 .. i PROVE f[k] = step[k][f[k - 1]]
      OBVIOUS
    <3>1. CASE k = i
      BY <2>2, <2>3, <3>1
    <3>2. CASE k # i
      <4>1. k \in 1 .. i - 1 /\ k \in 0 .. i - 1 /\ k - 1 \in 0 .. i - 1
        BY <3>2
      <4> QED
        BY <2>1, <2>3, <4>1 DEF Rounds
    <3> QED
      BY <3>1, <3>2
  <2>5. f[0] = base
    BY <2>1, <2>3 DEF Rounds
  <2>6. Rounds(i, base, step, f) /\ i \in 0 .. n
    BY <2>4, <2>5 DEF Rounds
  <2> QED
    BY <2>3, <2>6
<1> HIDE DEF T
<1>3. T = 0 .. n
  <2>1. T \in SUBSET (0 .. n)
    BY DEF T
  <2> QED
    BY <1>1, <1>2, <2>1, UpTo
<1>4. n \in T
  BY <1>3
<1> QED
  BY <1>4 DEF T

-----------------------------------------------------------------------------
(* Records read from a file *)

Byte == Nat \X Nat

At(b, i) == <<b, i>>

ReadState == [open : BOOLEAN, fragment : Seq(Byte), records : Seq(Seq(Byte))]

LEMMA BytesTyped ==
  ASSUME NEW b \in Nat, NEW from \in Nat, NEW length \in Nat
  PROVE  /\ Bytes(b, from, length) \in Seq(Byte) /\ Len(Bytes(b, from, length)) = length
         /\ \A i \in 1 .. length : Bytes(b, from, length)[i] = At(b, from + i - 1)
BY DEF Bytes, Byte, At

LEMMA ReadRecordTyped ==
  ASSUME NEW s \in ReadState, NEW p \in Physical
  PROVE  ReadRecord(s, p) \in ReadState
<1>1. Payload(p) \in Seq(Byte)
  BY PieceTypes, BytesTyped DEF Payload
<1>2. s.open \in BOOLEAN /\ s.fragment \in Seq(Byte) /\ s.records \in Seq(Seq(Byte))
  BY DEF ReadState
<1>3. s.fragment \o Payload(p) \in Seq(Byte)
  BY <1>1, <1>2
<1>4. ASSUME NEW record \in Seq(Byte) PROVE Complete(s, record) \in ReadState
  <2>1. Append(s.records, record) \in Seq(Seq(Byte)) /\ <<>> \in Seq(Byte)
    BY <1>2
  <2> QED
    BY <2>1 DEF Complete, NoneRead, ReadState
<1>5. Restart(s, Payload(p)) \in ReadState
  <2>1. (s.open \/ Payload(p) # <<>>) \in BOOLEAN
    OBVIOUS
  <2> QED
    BY <1>1, <2>1 DEF Restart, ReadState
<1>6. [s EXCEPT !.fragment = @ \o Payload(p)] \in ReadState
  BY <1>3 DEF ReadState
<1> HIDE DEF ReadState
<1> QED
  BY <1>1, <1>3, <1>4, <1>5, <1>6 DEF ReadRecord

\* The loop of levelDBLogicalRecords, written without recursion.
Reads(log, size, f) ==
    f = [n \in 0 .. Len(log) |-> IF n = 0 THEN NoneRead
                                 ELSE IF End(log[n]) > size THEN f[n - 1]
                                 ELSE ReadRecord(f[n - 1], log[n])]

LEMMA ReadLoop ==
  ASSUME NEW log \in Seq(Physical), NEW size
  PROVE  \E f : /\ LogicalRecords(log, size) = f[Len(log)].records
                /\ f[0] = NoneRead /\ \A n \in 0 .. Len(log) : f[n] \in ReadState
                /\ \A n \in 1 .. Len(log) :
                     f[n] = IF End(log[n]) > size THEN f[n - 1] ELSE ReadRecord(f[n - 1], log[n])
<1> DEFINE m == Len(log)
           step == [n \in 1 .. m |-> [s \in ReadState |->
                     IF End(log[n]) > size THEN s ELSE ReadRecord(s, log[n])]]
<1>1. m \in Nat /\ \A n \in 1 .. m : log[n] \in Physical
  OBVIOUS
<1>2. NoneRead \in ReadState
  BY DEF NoneRead, ReadState
<1> HIDE DEF m
<1>3. step \in [1 .. m -> [ReadState -> ReadState]]
  BY <1>1, ReadRecordTyped
<1>4. \A n \in 1 .. m, s \in ReadState :
        step[n][s] = IF End(log[n]) > size THEN s ELSE ReadRecord(s, log[n])
  OBVIOUS
<1> HIDE DEF step
<1>5. PICK f \in [0 .. m -> ReadState] : Rounds(m, NoneRead, step, f)
  BY <1>1, <1>2, <1>3, LoopExists
<1>6. \A n \in 1 .. m : n - 1 \in 0 .. m /\ n \in 0 .. m /\ n # 0
  BY <1>1
<1>7. Reads(log, size, f)
  <2>1. \A n \in 0 .. m : f[n] = IF n = 0 THEN NoneRead
                                 ELSE IF End(log[n]) > size THEN f[n - 1]
                                 ELSE ReadRecord(f[n - 1], log[n])
    <3> SUFFICES ASSUME NEW n \in 0 .. m, n # 0
                 PROVE  f[n] = IF End(log[n]) > size THEN f[n - 1] ELSE ReadRecord(f[n - 1], log[n])
      BY <1>5 DEF Rounds
    <3>1. n \in 1 .. m
      BY <1>1
    <3> QED
      BY <1>4, <1>5, <1>6, <3>1 DEF Rounds
  <2> QED
    BY <1>5, <2>1 DEF Reads, m
<1> DEFINE g == CHOOSE h : Reads(log, size, h)
<1>8. Reads(log, size, g) /\ LogicalRecords(log, size) = g[m].records
  <2>1. Reads(log, size, g)
    BY <1>7, Zenon
  <2>2. LogicalRecords(log, size) = g[m].records
    BY Zenon DEF LogicalRecords, Reads, m
  <2> QED
    BY <2>1, <2>2
<1> HIDE DEF g
<1>9. /\ g[0] = NoneRead
      /\ \A n \in 1 .. m : g[n] = IF End(log[n]) > size THEN g[n - 1] ELSE ReadRecord(g[n - 1], log[n])
  <2>1. g = [n \in 0 .. m |-> IF n = 0 THEN NoneRead
                              ELSE IF End(log[n]) > size THEN g[n - 1]
                              ELSE ReadRecord(g[n - 1], log[n])]
    BY <1>8 DEF Reads, m
  <2>2. 0 \in 0 .. m
    BY <1>1
  <2> QED
    BY <1>6, <2>1, <2>2
<1>10. \A n \in 0 .. m : g[n] \in ReadState
  <2> DEFINE T == {n \in 0 .. m : g[n] \in ReadState}
  <2>1. 0 \in T
    BY <1>1, <1>2, <1>9
  <2>2. \A n \in 1 .. m : n - 1 \in T => n \in T
    BY <1>1, <1>6, <1>9, ReadRecordTyped
  <2>3. T \in SUBSET (0 .. m)
    OBVIOUS
  <2> HIDE DEF T
  <2>4. T = 0 .. m
    BY <1>1, <2>1, <2>2, <2>3, UpTo
  <2> QED
    BY <2>4 DEF T
<1> QED
  BY <1>8, <1>9, <1>10 DEF m

\* The first m bytes of a batch and the l bytes behind them.
Joins(b, m, l) == Bytes(b, 1, m) \o Bytes(b, m + 1, l) = Bytes(b, 1, m + l)

LEMMA BytesJoin ==
  ASSUME NEW b \in Nat, NEW m \in Nat, NEW l \in Nat
  PROVE  Joins(b, m, l)
<1> DEFINE first == 1
           next == m + 1
           sum == m + l
           s == Bytes(b, first, m)
           t == Bytes(b, next, l)
           r == Bytes(b, first, sum)
<1>1. first \in Nat /\ next \in Nat /\ sum \in Nat
  OBVIOUS
<1> HIDE DEF first, next, sum
<1>2. s \in Seq(Byte) /\ Len(s) = m /\ \A i \in 1 .. m : s[i] = At(b, first + i - 1)
  BY <1>1, BytesTyped
<1>3. t \in Seq(Byte) /\ Len(t) = l /\ \A i \in 1 .. l : t[i] = At(b, next + i - 1)
  BY <1>1, BytesTyped
<1>4. r \in Seq(Byte) /\ Len(r) = sum /\ \A i \in 1 .. sum : r[i] = At(b, first + i - 1)
  BY <1>1, BytesTyped
<1> HIDE DEF s, t, r
<1> USE DEF next, sum, first
<1>5. /\ s \o t \in Seq(Byte) /\ Len(s \o t) = sum
      /\ \A i \in 1 .. sum : (s \o t)[i] = IF i <= m THEN s[i] ELSE t[i - m]
  BY <1>2, <1>3, ConcatProperties
<1>6. ASSUME NEW i \in 1 .. sum PROVE (s \o t)[i] = At(b, first + i - 1)
  <2>1. i \in Nat /\ i \in 1 .. m + l
    OBVIOUS
  <2>2. CASE i <= m
    <3>1. i \in 1 .. m
      BY <2>1, <2>2
    <3> QED
      BY <1>2, <1>5, <2>2, <3>1
  <2>3. CASE ~ (i <= m)
    <3> DEFINE j == i - m
    <3>1. j \in 1 .. l /\ next + j - 1 = first + i - 1
      BY <2>1, <2>3
    <3>2. (s \o t)[i] = t[j]
      BY <1>5, <2>3
    <3> HIDE DEF j, next, first
    <3>3. t[j] = At(b, next + j - 1)
      BY <1>3, <3>1
    <3> QED
      BY <3>1, <3>2, <3>3
  <2> QED
    BY <2>2, <2>3
<1> HIDE DEF next, sum, first
<1>7. s \o t = r
  BY <1>2, <1>3, <1>4, <1>5, <1>6, SeqEqual
<1> QED
  BY <1>7 DEF s, t, r, first, next, sum, Joins

LEMMA BatchOfBytes ==
  ASSUME NEW b \in Nat, NEW l \in Nat, l > 0
  PROVE  BatchOf(Bytes(b, 1, l)) = b
<1>1. 1 \in Nat /\ 1 \in 1 .. l
  OBVIOUS
<1>2. Bytes(b, 1, l)[1] = At(b, 1 + 1 - 1)
  BY <1>1, BytesTyped
<1> QED
  BY <1>2 DEF BatchOf, At

\* A batch starts with an empty record if the record that begins it is empty.
LEMMA StartsEmptyIs ==
  ASSUME NEW bs, NEW log \in Seq(Physical), Pieces(bs, log), NEW n \in DOMAIN log,
         BeginsBatch(log[n])
  PROVE  log[n].batch \in StartsEmpty(log) <=> log[n].type = "FIRST" /\ log[n].length = 0
<1>1. ASSUME NEW j \in DOMAIN log, log[j].batch = log[n].batch, log[j].type = "FIRST"
      PROVE  j = n
  <2>1. BeginsBatch(log[j]) /\ j \in Nat /\ n \in Nat
    BY <1>1 DEF BeginsBatch
  <2>2. log[j] \in Physical /\ log[n] \in Physical
    OBVIOUS
  <2>3. log[j].batch \in Nat
    BY <2>2, PieceTypes
  <2>4. ~ (j < n) /\ ~ (n < j)
    BY <1>1, <2>1, <2>3 DEF Pieces, Before
  <2> QED
    BY <2>1, <2>4
<1> QED
  BY <1>1 DEF StartsEmpty

\* Batches that have been read after n physical records.
Taken(log, size, n) ==
    {log[i].batch : i \in {j \in 1 .. n : EndsBatch(log[j]) /\ End(log[j]) <= size}}
      \ StartsEmpty(log)

LEMMA TakenStep ==
  ASSUME NEW bs, NEW log \in Seq(Physical), Pieces(bs, log), NEW size, NEW n \in 1 .. Len(log)
  PROVE  /\ Taken(log, size, n) =
              IF /\ EndsBatch(log[n]) /\ End(log[n]) <= size
                 /\ log[n].batch \notin StartsEmpty(log)
              THEN Taken(log, size, n - 1) \union {log[n].batch}
              ELSE Taken(log, size, n - 1)
         /\ \A c \in Taken(log, size, n - 1) :
              c < log[n].batch /\ c \in DOMAIN bs /\ bs[c].length > 0
<1>1. 1 .. n = (1 .. n - 1) \union {n} /\ n \in DOMAIN log /\ 1 .. n - 1 \subseteq DOMAIN log
  OBVIOUS
<1>2. ASSUME NEW c \in Taken(log, size, n - 1) PROVE c < log[n].batch /\ c \in DOMAIN bs /\ bs[c].length > 0
  <2>1. PICK i \in 1 .. n - 1 : EndsBatch(log[i]) /\ c = log[i].batch
    BY <1>2 DEF Taken
  <2>2. i \in DOMAIN log /\ i < n
    BY <1>1, <2>1
  <2> QED
    BY <1>1, <2>1, <2>2 DEF Pieces, Before, PieceOf
<1> QED
  BY <1>1, <1>2 DEF Taken

\* The records are the batches in B, whole and in their order.
Yields(bs, records, B) ==
    /\ Range(records) = {Bytes(b, 1, bs[b].length) : b \in B}
    /\ \A i, j \in DOMAIN records : i < j => BatchOf(records[i]) < BatchOf(records[j])

LEMMA YieldsMore ==
  ASSUME NEW bs \in Seq(Batch), NEW records \in Seq(Seq(Byte)), NEW B, Yields(bs, records, B),
         NEW b \in DOMAIN bs, \A c \in B : c < b /\ c \in DOMAIN bs /\ bs[c].length > 0,
         bs[b].length > 0
  PROVE  Yields(bs, Append(records, Bytes(b, 1, bs[b].length)), B \union {b})
<1> DEFINE record == Bytes(b, 1, bs[b].length)
           more == Append(records, record)
           m == Len(records)
<1>1. \A c \in DOMAIN bs : c \in Nat /\ bs[c].length \in Nat
  <2> SUFFICES ASSUME NEW c \in DOMAIN bs PROVE c \in Nat /\ bs[c].length \in Nat
    OBVIOUS
  <2>1. bs[c] \in Batch
    OBVIOUS
  <2> QED
    BY <2>1 DEF Batch
<1>2. /\ m \in Nat /\ DOMAIN records = 1 .. m /\ DOMAIN more = 1 .. m + 1
      /\ more[m + 1] = record /\ \A i \in 1 .. m : more[i] = records[i]
  OBVIOUS
<1> HIDE DEF more, m
<1>3. Range(more) = Range(records) \union {record}
  <2>1. 1 .. m + 1 = (1 .. m) \union {m + 1}
    BY <1>2
  <2> HIDE DEF record
  <2>2. ASSUME NEW r \in Range(more) PROVE r \in Range(records) \union {record}
    <3>1. PICK i \in DOMAIN more : r = more[i]
      BY <2>2 DEF Range
    <3> QED
      BY <1>2, <2>1, <3>1 DEF Range
  <2>3. ASSUME NEW r \in Range(records) PROVE r \in Range(more)
    <3>1. PICK i \in 1 .. m : r = records[i]
      BY <1>2, <2>3 DEF Range
    <3>2. i \in DOMAIN more
      BY <1>2, <2>1
    <3> QED
      BY <1>2, <3>1, <3>2 DEF Range
  <2>4. record \in Range(more)
    <3>1. m + 1 \in DOMAIN more
      BY <1>2
    <3> QED
      BY <1>2, <3>1 DEF Range
  <2> QED
    BY <2>2, <2>3, <2>4
<1>4. BatchOf(record) = b
  BY <1>1, BatchOfBytes
<1>5. \A i \in 1 .. m : BatchOf(records[i]) < b
  <2> SUFFICES ASSUME NEW i \in 1 .. m PROVE BatchOf(records[i]) < b
    OBVIOUS
  <2>1. records[i] \in Range(records)
    BY <1>2 DEF Range
  <2>2. PICK c \in B : records[i] = Bytes(c, 1, bs[c].length)
    BY <2>1 DEF Yields
  <2> QED
    BY <1>1, <2>2, BatchOfBytes
<1> HIDE DEF record
<1>6. Range(more) = {Bytes(c, 1, bs[c].length) : c \in B \union {b}}
  BY <1>3 DEF Yields, record
<1>7. ASSUME NEW i \in 1 .. m + 1, NEW j \in 1 .. m + 1, i < j
      PROVE  BatchOf(more[i]) < BatchOf(more[j])
  <2>1. i \in 1 .. m
    BY <1>2, <1>7
  <2>2. CASE j = m + 1
    BY <1>2, <1>4, <1>5, <2>1, <2>2
  <2>3. CASE j \in 1 .. m
    BY <1>2, <1>7, <2>1, <2>3 DEF Yields
  <2> QED
    BY <1>2, <2>2, <2>3
<1>8. Yields(bs, more, B \union {b})
  BY <1>2, <1>6, <1>7 DEF Yields
<1> QED
  BY <1>8 DEF more, record

\* What is known after n physical records: s is the state of the loop.
HasRead(bs, log, size, n, s) ==
    /\ Yields(bs, s.records, Taken(log, size, n))
    /\ n = 0 => ~ s.open
    /\ n > 0 /\ End(log[n]) <= size =>
         /\ log[n].from > 0
         /\ s.open <=> ~ EndsBatch(log[n]) /\ log[n].batch \notin StartsEmpty(log)
         /\ s.open => s.fragment = Bytes(log[n].batch, 1, log[n].from + log[n].length - 1)

\* Before a record that begins a batch nothing is open; before another one it
\* is the fragment of the same batch.
LEMMA FragmentBefore ==
  ASSUME NEW bs, NEW log \in Seq(Physical), Pieces(bs, log), NEW size \in Nat,
         NEW n \in 1 .. Len(log), End(log[n]) <= size,
         NEW s, HasRead(bs, log, size, n - 1, s)
  PROVE  /\ log[n].from > 0
         /\ BeginsBatch(log[n]) => ~ s.open
         /\ ~ BeginsBatch(log[n]) =>
              /\ s.open <=> log[n].batch \notin StartsEmpty(log)
              /\ s.open => s.fragment = Bytes(log[n].batch, 1, log[n].from - 1)
<1>1. n \in DOMAIN log /\ log[n] \in Physical /\ PieceOf(bs, log[n]) /\ n \in Nat
  BY DEF Pieces
<1>2. CASE n = 1
  <2>1. BeginsBatch(log[n])
    BY <1>1, <1>2 DEF Pieces
  <2> QED
    BY <1>1, <1>2, <2>1 DEF PieceOf, HasRead
<1>3. CASE n # 1
  <2>1. /\ n - 1 \in DOMAIN log /\ log[n - 1] \in Physical /\ n - 1 > 0 /\ n - 1 < n
    BY <1>3
  <2>2. Follows(log[n - 1], log[n]) /\ Before(log[n - 1], log[n])
    BY <1>1, <1>3, <2>1 DEF Pieces
  <2>3. End(log[n - 1]) <= size
    <3>1. End(log[n - 1]) \in Nat /\ End(log[n]) \in Nat
      BY <1>1, <2>1, PieceTypes
    <3> QED
      BY <2>2, <3>1 DEF Before
  <2>4. /\ log[n - 1].from > 0
        /\ s.open <=> ~ EndsBatch(log[n - 1]) /\ log[n - 1].batch \notin StartsEmpty(log)
        /\ s.open => s.fragment = Bytes(log[n - 1].batch, 1, log[n - 1].from + log[n - 1].length - 1)
    BY <2>1, <2>3 DEF HasRead
  <2>5. CASE EndsBatch(log[n - 1])
    BY <1>1, <2>2, <2>4, <2>5 DEF Follows, PieceOf
  <2>6. CASE ~ EndsBatch(log[n - 1])
    <3>1. /\ ~ BeginsBatch(log[n]) /\ log[n].batch = log[n - 1].batch
          /\ log[n].from = log[n - 1].from + log[n - 1].length
      BY <2>2, <2>6 DEF Follows
    <3>2. log[n - 1].from \in Nat /\ log[n - 1].length \in Nat
      BY <2>1, PieceTypes
    <3> QED
      BY <2>4, <2>6, <3>1, <3>2
  <2> QED
    BY <2>5, <2>6
<1> QED
  BY <1>2, <1>3

\* A batch is read when the record that ends it is.
LEMMA ReadsWhole ==
  ASSUME NEW bs \in Seq(Batch), NEW log \in Seq(Physical), Pieces(bs, log), NEW size \in Nat,
         NEW n \in 1 .. Len(log), End(log[n]) <= size, NEW s \in ReadState,
         HasRead(bs, log, size, n - 1, s), EndsBatch(log[n]),
         log[n].batch \notin StartsEmpty(log)
  PROVE  /\ HasRead(bs, log, size, n, Complete(s, Bytes(log[n].batch, 1, bs[log[n].batch].length)))
         /\ n > 0
<1> DEFINE b == log[n].batch
           record == Bytes(b, 1, bs[b].length)
<1>1. n \in DOMAIN log /\ PieceOf(bs, log[n]) /\ n > 0 /\ log[n].from > 0
  BY FragmentBefore DEF Pieces
<1>2. b \in DOMAIN bs /\ bs[b].length > 0 /\ s.records \in Seq(Seq(Byte))
  BY <1>1 DEF PieceOf, ReadState
<1>3. /\ Taken(log, size, n) = Taken(log, size, n - 1) \union {b}
      /\ \A c \in Taken(log, size, n - 1) : c < b /\ c \in DOMAIN bs /\ bs[c].length > 0
  BY TakenStep
<1>4. Yields(bs, s.records, Taken(log, size, n - 1))
  BY DEF HasRead
<1> HIDE DEF b
<1>5. Yields(bs, Append(s.records, record), Taken(log, size, n))
  <2> DEFINE rs == s.records
             B == Taken(log, size, n - 1)
  <2>1. /\ rs \in Seq(Seq(Byte)) /\ Yields(bs, rs, B)
        /\ \A c \in B : c < b /\ c \in DOMAIN bs /\ bs[c].length > 0
    BY <1>2, <1>3, <1>4
  <2> HIDE DEF rs, B
  <2>2. Yields(bs, Append(rs, Bytes(b, 1, bs[b].length)), B \union {b})
    BY <1>2, <2>1, YieldsMore
  <2> QED
    BY <1>3, <2>2 DEF rs, B
<1>6. /\ Complete(s, record).records = Append(s.records, record)
      /\ Complete(s, record).open = FALSE
  BY DEF Complete, NoneRead
<1> HIDE DEF record
<1>7. n # 0
  BY <1>1
<1> QED
  BY <1>1, <1>5, <1>6, <1>7 DEF HasRead, record, b

LEMMA HasReadStep ==
  ASSUME NEW bs \in Seq(Batch), NEW log \in Seq(Physical), Pieces(bs, log), NEW size \in Nat,
         NEW n \in 1 .. Len(log), NEW s \in ReadState, HasRead(bs, log, size, n - 1, s)
  PROVE  HasRead(bs, log, size, n, IF End(log[n]) > size THEN s ELSE ReadRecord(s, log[n]))
<1> DEFINE p == log[n]
           b == p.batch
<1>1. /\ n \in DOMAIN log /\ p \in Physical /\ PieceOf(bs, p) /\ n \in Nat /\ n # 0 /\ n > 0
      /\ Yields(bs, s.records, Taken(log, size, n - 1))
  BY DEF Pieces, HasRead
<1>2. /\ p.type \in Types /\ b \in Nat /\ p.from \in Nat /\ p.length \in Nat /\ End(p) \in Nat
  BY <1>1, PieceTypes
<1>3. CASE End(p) > size
  <2>1. ~ (End(p) <= size)
    BY <1>2, <1>3
  <2>2. Taken(log, size, n) = Taken(log, size, n - 1)
    BY <2>1, TakenStep
  <2> QED
    BY <1>1, <1>3, <2>1, <2>2 DEF HasRead
<1>4. CASE ~ (End(p) > size)
  <2>1. End(p) <= size
    BY <1>2, <1>4
  <2>2. /\ p.from > 0
        /\ BeginsBatch(p) => ~ s.open
        /\ ~ BeginsBatch(p) => /\ s.open <=> b \notin StartsEmpty(log)
                               /\ s.open => s.fragment = Bytes(b, 1, p.from - 1)
    BY <2>1, FragmentBefore
  <2>3. Taken(log, size, n) = IF EndsBatch(p) /\ b \notin StartsEmpty(log)
                              THEN Taken(log, size, n - 1) \union {b} ELSE Taken(log, size, n - 1)
    BY <2>1, TakenStep
  <2>4. EndsBatch(p) /\ b \notin StartsEmpty(log) =>
          HasRead(bs, log, size, n, Complete(s, Bytes(b, 1, bs[b].length)))
    BY <2>1, ReadsWhole
  <2>5. BeginsBatch(p) => p.from = 1 /\ (b \in StartsEmpty(log) <=> p.type = "FIRST" /\ p.length = 0)
    BY <1>1, StartsEmptyIs DEF PieceOf
  <2>6. s.open /\ ~ BeginsBatch(p) =>
          s.fragment \o Payload(p) = Bytes(b, 1, p.from + p.length - 1)
    <3> SUFFICES ASSUME s.open, ~ BeginsBatch(p)
                 PROVE  s.fragment \o Payload(p) = Bytes(b, 1, p.from + p.length - 1)
      OBVIOUS
    <3> DEFINE x == p.from
               l == p.length
               k == x - 1
               end == x + l - 1
    <3>1. x \in Nat /\ x > 0 /\ l \in Nat
      BY <1>2, <2>2
    <3> HIDE DEF x, l
    <3>2. k \in Nat /\ x = k + 1 /\ end = k + l
      BY <3>1
    <3> HIDE DEF k, end, p, b
    <3>3. Bytes(b, 1, k) \o Bytes(b, x, l) = Bytes(b, 1, end)
      <4>1. Joins(b, k, l)
        BY <1>2, <3>1, <3>2, BytesJoin
      <4> QED
        BY <3>2, <4>1 DEF Joins
    <3>4. s.fragment = Bytes(b, 1, k)
      BY <2>2 DEF k, x
    <3>5. Payload(p) = Bytes(b, x, l)
      BY DEF Payload, x, l, b
    <3> QED
      BY <3>3, <3>4, <3>5 DEF end, x, l
  <2>7. EndsBatch(p) => p.from + p.length - 1 = bs[b].length
    <3>1. b \in DOMAIN bs
      BY <1>1 DEF PieceOf
    <3>2. bs[b] \in Batch
      BY <3>1
    <3>3. bs[b].length \in Nat
      BY <3>2 DEF Batch
    <3> DEFINE x == p.from
               y == p.length
               z == bs[b].length
    <3>4. x \in Nat /\ y \in Nat /\ z \in Nat /\ (EndsBatch(p) => x + y = z + 1)
      BY <1>1, <1>2, <3>3 DEF PieceOf
    <3> HIDE DEF x, y, z
    <3>5. EndsBatch(p) => x + y - 1 = z
      BY <3>4
    <3> QED
      BY <3>5 DEF x, y, z
  <2> DEFINE t == ReadRecord(s, p)
  <2>8. CASE p.type = "FULL"
    <3>1. BeginsBatch(p) /\ EndsBatch(p) /\ b \notin StartsEmpty(log)
      BY <2>5, <2>8 DEF BeginsBatch, EndsBatch
    <3>2. p.from = 1 /\ p.length = bs[b].length
      BY <1>2, <2>5, <2>7, <3>1
    <3>3. t = Complete(s, Bytes(b, 1, bs[b].length))
      BY <2>8, <3>2 DEF ReadRecord, Payload
    <3> QED
      BY <1>4, <2>4, <3>1, <3>3
  <2>9. CASE p.type = "FIRST"
    <3>1. BeginsBatch(p) /\ ~ EndsBatch(p) /\ ~ s.open /\ p.from = 1
      BY <2>2, <2>5, <2>9 DEF BeginsBatch, EndsBatch
    <3>2. Payload(p) # <<>> <=> p.length # 0
      <4>1. 1 \in Nat /\ Len(Bytes(b, 1, p.length)) = p.length /\ Bytes(b, 1, p.length) \in Seq(Byte)
        BY <1>2, BytesTyped
      <4>2. Payload(p) = Bytes(b, 1, p.length)
        BY <3>1 DEF Payload
      <4> HIDE DEF p, b
      <4> QED
        BY <4>1, <4>2
    <3>3. t = Restart(s, Payload(p))
      BY <2>9 DEF ReadRecord
    <3>4. /\ t.records = s.records /\ t.fragment = Payload(p)
          /\ t.open <=> b \notin StartsEmpty(log)
      BY <2>5, <2>9, <3>1, <3>2, <3>3 DEF Restart, ReadState
    <3>5. Payload(p) = Bytes(b, 1, p.from + p.length - 1)
      <4>1. p.from + p.length - 1 = p.length
        BY <1>2, <3>1
      <4> QED
        BY <3>1, <4>1 DEF Payload
    <3> HIDE DEF t
    <3> QED
      BY <1>1, <1>4, <2>2, <2>3, <3>1, <3>4, <3>5 DEF HasRead, t
  <2>10. CASE p.type = "MIDDLE"
    <3>1. ~ BeginsBatch(p) /\ ~ EndsBatch(p)
      BY <2>10 DEF BeginsBatch, EndsBatch
    <3>2. /\ t.records = s.records /\ t.open = s.open
          /\ s.open => t.fragment = s.fragment \o Payload(p)
      BY <2>10 DEF ReadRecord, ReadState
    <3> HIDE DEF t
    <3> QED
      BY <1>1, <1>4, <2>2, <2>3, <2>6, <3>1, <3>2 DEF HasRead, t
  <2>11. CASE p.type = "LAST"
    <3>1. ~ BeginsBatch(p) /\ EndsBatch(p)
      BY <2>11 DEF BeginsBatch, EndsBatch
    <3>2. CASE s.open
      <4>1. t = Complete(s, s.fragment \o Payload(p))
        BY <2>11, <3>2 DEF ReadRecord
      <4>2. t = Complete(s, Bytes(b, 1, bs[b].length))
        BY <2>6, <2>7, <3>1, <3>2, <4>1
      <4> QED
        BY <1>4, <2>2, <2>4, <3>1, <3>2, <4>2
    <3>3. CASE ~ s.open
      <4>1. t = s
        BY <2>11, <3>3 DEF ReadRecord
      <4> QED
        BY <1>1, <1>4, <2>2, <2>3, <3>1, <3>3, <4>1 DEF HasRead
    <3> QED
      BY <3>2, <3>3
  <2> QED
    BY <1>2, <2>8, <2>9, <2>10, <2>11 DEF Types
<1> QED
  BY <1>3, <1>4

\* A file that is read yields its whole batches.
LEMMA FileYields ==
  ASSUME NEW bs \in Seq(Batch), NEW log \in Seq(Physical), Pieces(bs, log), NEW size \in Nat
  PROVE  /\ Yields(bs, LogicalRecords(log, size), Whole(log, size) \ StartsEmpty(log))
         /\ LogicalRecords(log, size) \in Seq(Seq(Byte))
<1> DEFINE m == Len(log)
<1>1. PICK f : /\ LogicalRecords(log, size) = f[m].records
               /\ f[0] = NoneRead /\ \A n \in 0 .. m : f[n] \in ReadState
               /\ \A n \in 1 .. m :
                    f[n] = IF End(log[n]) > size THEN f[n - 1] ELSE ReadRecord(f[n - 1], log[n])
  BY ReadLoop
<1> DEFINE T == {n \in 0 .. m : HasRead(bs, log, size, n, f[n])}
<1>2. m \in Nat /\ DOMAIN log = 1 .. m
  OBVIOUS
<1>3. 0 \in T
  <2>1. Taken(log, size, 0) = {}
    BY DEF Taken
  <2>2. Yields(bs, <<>>, {})
    BY DEF Yields, Range
  <2>3. NoneRead.records = <<>> /\ NoneRead.open = FALSE
    BY DEF NoneRead
  <2>4. ~ (0 > 0)
    OBVIOUS
  <2>5. HasRead(bs, log, size, 0, NoneRead)
    BY <2>1, <2>2, <2>3, <2>4, Zenon DEF HasRead
  <2> QED
    BY <1>1, <1>2, <2>5
<1>4. ASSUME NEW n \in 1 .. m, n - 1 \in T PROVE n \in T
  <2>1. n - 1 \in 0 .. m /\ n \in 0 .. m
    BY <1>2
  <2>2. HasRead(bs, log, size, n, f[n])
    BY <1>1, <1>4, <2>1, HasReadStep
  <2> QED
    BY <2>1, <2>2
<1>5. T \in SUBSET (0 .. m)
  OBVIOUS
<1> HIDE DEF T
<1>6. T = 0 .. m
  BY <1>2, <1>3, <1>4, <1>5, UpTo
<1>7. HasRead(bs, log, size, m, f[m]) /\ f[m] \in ReadState
  BY <1>1, <1>2, <1>6 DEF T
<1>8. Taken(log, size, m) = Whole(log, size) \ StartsEmpty(log)
  BY <1>2 DEF Taken, Whole
<1> QED
  BY <1>1, <1>7, <1>8 DEF HasRead, ReadState

LEMMA LogsAreRead ==
  ASSUME LogInv
  PROVE  ReadsBatches
<1> SUFFICES ASSUME NEW n \in DOMAIN wals, NEW size \in 0 .. Size(wals[n])
             PROVE  Yields(batches, LogicalRecords(wals[n], size),
                           Whole(wals[n], size) \ StartsEmpty(wals[n]))
  BY DEF ReadsBatches, Yields
<1>1. batches \in Seq(Batch) /\ wals[n] \in Seq(Physical) /\ Pieces(batches, wals[n])
  BY DEF LogInv, WalInv, WalTypeOK
<1>2. Size(wals[n]) \in Nat
  BY <1>1, SizeIsNat
<1>3. size \in Nat
  BY <1>2
<1> QED
  BY <1>1, <1>3, FileYields

-----------------------------------------------------------------------------
(* Mutations found in the records *)

Found == [sequence : Nat, put : BOOLEAN]

\* What the reader's arithmetic rests on.
Numbered == batches \in Seq(Batch) /\ \A b \in DOMAIN batches : batches[b].sequence > 0

\* The mutations of the batches in B, by batch and by place in it.
Positions(B) == UNION {{b} \X DOMAIN batches[b].contents : b \in B}

\* latest holds, for each key, the mutation at one of the positions P with the
\* greatest sequence number, or none if none is of that key.
Knows(latest, P) ==
    /\ latest \in [Keys -> Found]
    /\ \A k \in Keys :
         \/ latest[k] = NoMutation /\ \A q \in P : ~ Mentions(q[1], q[2], k)
         \/ \E q \in P : /\ Mentions(q[1], q[2], k) /\ latest[k] = Mutation(q[1], q[2])
                         /\ latest[k].sequence > 0
                         /\ \A r \in P : Mentions(r[1], r[2], k) =>
                              Mutation(r[1], r[2]).sequence <= latest[k].sequence

LEMMA BatchTyped ==
  ASSUME Numbered, NEW b \in DOMAIN batches
  PROVE  /\ b \in Nat /\ batches[b].sequence \in Nat /\ batches[b].length \in Nat
         /\ batches[b].sequence > 0
         /\ batches[b].contents \in Seq([key : Keys \union {Other}, put : BOOLEAN])
         /\ Len(batches[b].contents) \in Nat
         /\ DOMAIN batches[b].contents = 1 .. Len(batches[b].contents)
<1>1. batches[b] \in Batch /\ b \in Nat /\ batches[b].sequence > 0
  BY DEF Numbered
<1>2. batches[b].contents \in Contents
  BY <1>1 DEF Batch
<1>3. batches[b].contents \in Seq([key : Keys \union {Other}, put : BOOLEAN])
  BY <1>2, BatchAssumption
<1> QED
  BY <1>1, <1>3 DEF Batch

LEMMA MutationTyped ==
  ASSUME Numbered, NEW b \in DOMAIN batches, NEW i \in DOMAIN batches[b].contents
  PROVE  /\ i \in Nat /\ i >= 1 /\ Mutation(b, i) \in Found
         /\ Mutation(b, i).sequence = batches[b].sequence + i - 1
         /\ Mutation(b, i).sequence > 0
<1> DEFINE c == batches[b].contents
           n == batches[b].sequence
<1>1. /\ n \in Nat /\ n > 0 /\ c \in Seq([key : Keys \union {Other}, put : BOOLEAN])
      /\ i \in 1 .. Len(c) /\ Len(c) \in Nat
  BY BatchTyped
<1>2. Mutation(b, i) = [sequence |-> n + i - 1, put |-> c[i].put]
  BY DEF Mutation
<1> HIDE DEF c, n
<1>3. c[i].put \in BOOLEAN
  <2> DEFINE R == [key : Keys \union {Other}, put : BOOLEAN]
  <2>1. c[i] \in R
    <3>1. c \in Seq(R) /\ i \in 1 .. Len(c)
      BY <1>1
    <3> HIDE DEF R
    <3> QED
      BY <3>1
  <2> QED
    BY <2>1
<1>4. i \in Nat /\ i >= 1 /\ n + i - 1 \in Nat /\ n + i - 1 > 0
  BY <1>1
<1> QED
  BY <1>2, <1>3, <1>4 DEF Found, n

\* One mutation more.
LEMMA BetterKnows ==
  ASSUME Numbered, NEW b \in DOMAIN batches, NEW i \in DOMAIN batches[b].contents,
         NEW latest, NEW P, P \subseteq Positions(DOMAIN batches), Knows(latest, P)
  PROVE  Knows(Better(latest, b, i), P \union {<<b, i>>})
<1> DEFINE m == Mutation(b, i)
           key == batches[b].contents[i].key
           next == Better(latest, b, i)
<1>1. m \in Found /\ m.sequence \in Nat /\ m.sequence > 0
  BY MutationTyped DEF Found
<1>2. latest \in [Keys -> Found]
  BY DEF Knows
<1>3. next = IF key \in Keys /\ Newer(m, latest[key]) THEN [latest EXCEPT ![key] = m] ELSE latest
  BY DEF Better
<1>4. \A k : Mentions(b, i, k) <=> k = key
  BY DEF Mentions
<1>5. \A q \in P : Mutation(q[1], q[2]).sequence \in Nat /\ Mutation(q[1], q[2]).sequence > 0
  <2> SUFFICES ASSUME NEW q \in P
               PROVE  Mutation(q[1], q[2]).sequence \in Nat /\ Mutation(q[1], q[2]).sequence > 0
    OBVIOUS
  <2>1. PICK c \in DOMAIN batches : q \in {c} \X DOMAIN batches[c].contents
    BY DEF Positions
  <2>2. q[1] = c /\ q[2] \in DOMAIN batches[c].contents
    BY <2>1
  <2> QED
    BY <2>2, MutationTyped DEF Found
<1> HIDE DEF m, key, next
<1>6. next \in [Keys -> Found]
  BY <1>1, <1>2, <1>3
<1>7. ASSUME NEW k \in Keys, k # key
      PROVE  /\ next[k] = latest[k] /\ ~ Mentions(b, i, k)
  BY <1>2, <1>3, <1>4, <1>7
<1> DEFINE Q == P \union {<<b, i>>}
           Right(l, S, k) ==
             \/ l = NoMutation /\ \A q \in S : ~ Mentions(q[1], q[2], k)
             \/ \E q \in S : /\ Mentions(q[1], q[2], k) /\ l = Mutation(q[1], q[2])
                             /\ l.sequence > 0
                             /\ \A r \in S : Mentions(r[1], r[2], k) =>
                                  Mutation(r[1], r[2]).sequence <= l.sequence
<1>8. \A k \in Keys : Right(latest[k], P, k)
  BY DEF Knows
<1>9. ASSUME NEW k \in Keys PROVE Right(next[k], Q, k)
  <2>1. CASE k # key
    BY <1>7, <1>8, <2>1
  <2>2. CASE k = key /\ Newer(m, latest[k])
    <3>1. next[k] = m /\ Mentions(b, i, k)
      BY <1>2, <1>3, <1>4, <2>2
    <3>2. \A r \in P : Mentions(r[1], r[2], k) => Mutation(r[1], r[2]).sequence <= m.sequence
      <4> SUFFICES ASSUME NEW r \in P, Mentions(r[1], r[2], k)
                   PROVE  Mutation(r[1], r[2]).sequence <= m.sequence
        OBVIOUS
      <4>1. /\ latest[k] \in Found /\ latest[k].sequence > 0
            /\ Mutation(r[1], r[2]).sequence <= latest[k].sequence
        BY <1>2, <1>8 DEF Knows
      <4>2. latest[k] # NoMutation
        BY <4>1 DEF NoMutation
      <4>3. m.sequence > latest[k].sequence
        BY <2>2, <4>2 DEF Newer
      <4>4. latest[k].sequence \in Nat
        BY <4>1 DEF Found
      <4> QED
        BY <1>1, <1>5, <4>1, <4>3, <4>4
    <3>3. m.sequence <= m.sequence
      BY <1>1
    <3>4. <<b, i>>[1] = b /\ <<b, i>>[2] = i /\ <<b, i>> \in Q
      OBVIOUS
    <3>5. m = Mutation(b, i)
      BY DEF m
    <3>6. \A r \in Q : Mentions(r[1], r[2], k) => Mutation(r[1], r[2]).sequence <= m.sequence
      BY <3>2, <3>3, <3>4, <3>5
    <3> QED
      BY <1>1, <3>1, <3>4, <3>5, <3>6
  <2>3. CASE k = key /\ ~ Newer(m, latest[k])
    <3>1. next[k] = latest[k] /\ latest[k] # NoMutation /\ ~ (m.sequence > latest[k].sequence)
      BY <1>3, <2>3 DEF Newer
    <3>2. PICK q \in P : /\ Mentions(q[1], q[2], k) /\ latest[k] = Mutation(q[1], q[2])
                         /\ latest[k].sequence > 0
                         /\ \A r \in P : Mentions(r[1], r[2], k) =>
                              Mutation(r[1], r[2]).sequence <= latest[k].sequence
      BY <1>8, <3>1
    <3>3. latest[k].sequence \in Nat
      BY <1>2 DEF Found
    <3>4. m.sequence <= latest[k].sequence
      BY <1>1, <3>1, <3>3
    <3>5. <<b, i>>[1] = b /\ <<b, i>>[2] = i /\ q \in Q /\ m = Mutation(b, i)
      BY DEF m
    <3>6. \A r \in Q : Mentions(r[1], r[2], k) =>
             Mutation(r[1], r[2]).sequence <= latest[k].sequence
      BY <3>2, <3>4, <3>5
    <3> QED
      BY <3>1, <3>2, <3>5, <3>6
  <2> QED
    BY <2>1, <2>2, <2>3
<1>10. Knows(next, Q)
  BY <1>6, <1>9 DEF Knows
<1> QED
  BY <1>10 DEF next

\* The three loops, written without recursion.
TakesBatch(latest, b, f) ==
    f = [i \in 0 .. Len(batches[b].contents) |->
           IF i = 0 THEN latest ELSE Better(f[i - 1], b, i)]

TakesRecords(latest, records, f) ==
    f = [i \in 0 .. Len(records) |->
           IF i = 0 THEN latest ELSE TakeBatch(f[i - 1], BatchOf(records[i]))]

TakesFiles(order, f) ==
    f = [i \in 0 .. Len(order) |->
           IF i = 0 THEN [k \in Keys |-> NoMutation]
           ELSE TakeRecords(f[i - 1], LogicalRecords(wals[order[i]], Size(wals[order[i]])))]

LEMMA TakeBatchKnows ==
  ASSUME Numbered, NEW b \in DOMAIN batches,
         NEW latest, NEW P, P \subseteq Positions(DOMAIN batches), Knows(latest, P)
  PROVE  Knows(TakeBatch(latest, b), P \union Positions({b}))
<1> DEFINE n == Len(batches[b].contents)
           S == [Keys -> Found]
           step == [i \in 1 .. n |-> [l \in S |-> Better(l, b, i)]]
           at(i) == P \union ({b} \X (1 .. i))
<1>1. n \in Nat /\ DOMAIN batches[b].contents = 1 .. n /\ latest \in S
  BY BatchTyped DEF Knows
<1>2. at(0) = P /\ Positions({b}) = {b} \X (1 .. n) /\ at(n) = P \union Positions({b})
  <2>1. 1 .. 0 = {}
    OBVIOUS
  <2> QED
    BY <1>1, <2>1 DEF Positions
<1>3. \A i \in 1 .. n, l \in S : Better(l, b, i) \in S
  <2> SUFFICES ASSUME NEW i \in 1 .. n, NEW l \in S PROVE Better(l, b, i) \in S
    OBVIOUS
  <2>1. Mutation(b, i) \in Found
    BY <1>1, MutationTyped
  <2> QED
    BY <2>1 DEF Better
<1>4. ASSUME NEW i \in 1 .. n
      PROVE  at(i) = at(i - 1) \union {<<b, i>>} /\ at(i - 1) \subseteq Positions(DOMAIN batches)
  <2>1. 1 .. i = (1 .. i - 1) \union {i} /\ 1 .. i - 1 \subseteq 1 .. n
    BY <1>1
  <2>2. {b} \X (1 .. i) = ({b} \X (1 .. i - 1)) \union {<<b, i>>}
    BY <2>1
  <2>3. {b} \X (1 .. i - 1) \subseteq Positions(DOMAIN batches)
    BY <1>1, <2>1 DEF Positions
  <2> QED
    BY <2>2, <2>3
<1> HIDE DEF n, at
<1>5. step \in [1 .. n -> [S -> S]] /\ \A i \in 1 .. n, l \in S : step[i][l] = Better(l, b, i)
  BY <1>3
<1> HIDE DEF step, S
<1>6. PICK f \in [0 .. n -> S] : Rounds(n, latest, step, f)
  BY <1>1, <1>5, LoopExists
<1>7. TakesBatch(latest, b, f)
  <2>1. ASSUME NEW i \in 0 .. n PROVE f[i] = IF i = 0 THEN latest ELSE Better(f[i - 1], b, i)
    <3>1. CASE i = 0
      BY <1>6, <3>1 DEF Rounds
    <3>2. CASE i # 0
      <4>1. i \in 1 .. n /\ i - 1 \in 0 .. n
        BY <1>1, <3>2
      <4> QED
        BY <1>5, <1>6, <3>2, <4>1 DEF Rounds
    <3> QED
      BY <3>1, <3>2
  <2> QED
    BY <1>6, <2>1 DEF TakesBatch, n
<1> DEFINE g == CHOOSE h : TakesBatch(latest, b, h)
<1>8. TakesBatch(latest, b, g) /\ TakeBatch(latest, b) = g[n]
  <2>1. TakesBatch(latest, b, g)
    BY <1>7, Zenon
  <2>2. TakeBatch(latest, b) = g[n]
    BY Zenon DEF TakeBatch, TakesBatch, n
  <2> QED
    BY <2>1, <2>2
<1> HIDE DEF g
<1>9. /\ g[0] = latest
      /\ \A i \in 1 .. n : i - 1 \in 0 .. n /\ i \in 0 .. n /\ g[i] = Better(g[i - 1], b, i)
  <2>1. g = [i \in 0 .. n |-> IF i = 0 THEN latest ELSE Better(g[i - 1], b, i)]
    BY <1>8 DEF TakesBatch, n
  <2>2. 0 \in 0 .. n /\ \A i \in 1 .. n : i - 1 \in 0 .. n /\ i \in 0 .. n /\ i # 0
    BY <1>1
  <2> QED
    BY <2>1, <2>2
<1> DEFINE T == {i \in 0 .. n : Knows(g[i], at(i))}
<1>10. 0 \in T
  BY <1>1, <1>2, <1>9
<1>11. \A i \in 1 .. n : i - 1 \in T => i \in T
  <2> SUFFICES ASSUME NEW i \in 1 .. n, i - 1 \in T PROVE i \in T
    OBVIOUS
  <2>1. Knows(g[i - 1], at(i - 1)) /\ at(i - 1) \subseteq Positions(DOMAIN batches)
    BY <1>4
  <2>2. i \in DOMAIN batches[b].contents
    BY <1>1
  <2>3. Knows(Better(g[i - 1], b, i), at(i - 1) \union {<<b, i>>})
    BY <2>1, <2>2, BetterKnows
  <2> QED
    BY <1>4, <1>9, <2>3
<1>12. T \in SUBSET (0 .. n)
  OBVIOUS
<1> HIDE DEF T
<1>13. T = 0 .. n /\ n \in T
  <2>1. T = 0 .. n
    BY <1>1, <1>10, <1>11, <1>12, UpTo
  <2> QED
    BY <1>1, <2>1
<1> QED
  BY <1>2, <1>8, <1>13 DEF T

\* What is known is as it was after no batch more.
LEMMA PositionsUnion ==
  ASSUME NEW A, NEW B
  PROVE  Positions(A \union B) = Positions(A) \union Positions(B)
BY DEF Positions

LEMMA PositionsSubset ==
  ASSUME NEW A, NEW B, A \subseteq B
  PROVE  Positions(A) \subseteq Positions(B)
BY DEF Positions

\* What can be known of some of the batches.
Known ==
    {l \in [Keys -> Found] : \E A \in SUBSET (DOMAIN batches) : Knows(l, Positions(A))}

LEMMA TakeRecordsKnows ==
  ASSUME Numbered, NEW records \in Seq(Seq(Byte)),
         \A i \in DOMAIN records : BatchOf(records[i]) \in DOMAIN batches,
         NEW latest, NEW A \in SUBSET (DOMAIN batches), Knows(latest, Positions(A))
  PROVE  Knows(TakeRecords(latest, records),
               Positions(A \union {BatchOf(records[i]) : i \in DOMAIN records}))
<1> DEFINE n == Len(records)
           c(i) == BatchOf(records[i])
           step == [i \in 1 .. n |-> [l \in Known |-> TakeBatch(l, c(i))]]
           at(i) == A \union {c(j) : j \in 1 .. i}
<1>1. n \in Nat /\ DOMAIN records = 1 .. n /\ \A i \in 1 .. n : c(i) \in DOMAIN batches
  OBVIOUS
<1>2. at(0) = A /\ at(n) = A \union {c(i) : i \in DOMAIN records}
  BY <1>1
<1> HIDE DEF n, c
<1>3. ASSUME NEW B \in SUBSET (DOMAIN batches), NEW l, Knows(l, Positions(B)), NEW i \in 1 .. n
      PROVE  /\ Knows(TakeBatch(l, c(i)), Positions(B \union {c(i)}))
             /\ B \union {c(i)} \in SUBSET (DOMAIN batches)
  <2>1. Positions(B) \subseteq Positions(DOMAIN batches) /\ c(i) \in DOMAIN batches
    BY <1>1, PositionsSubset
  <2>2. Knows(TakeBatch(l, c(i)), Positions(B) \union Positions({c(i)}))
    BY <1>3, <2>1, TakeBatchKnows
  <2> QED
    BY <2>1, <2>2, PositionsUnion
<1>4. ASSUME NEW i \in 1 .. n
      PROVE  at(i) = at(i - 1) \union {c(i)} /\ at(i - 1) \in SUBSET (DOMAIN batches)
  <2>1. 1 .. i = (1 .. i - 1) \union {i} /\ 1 .. i - 1 \subseteq 1 .. n
    BY <1>1
  <2> QED
    BY <1>1, <2>1
<1> HIDE DEF at
<1>5. latest \in Known
  BY DEF Known, Knows
<1>6. \A i \in 1 .. n, l \in Known : TakeBatch(l, c(i)) \in Known
  <2> SUFFICES ASSUME NEW i \in 1 .. n, NEW l \in Known PROVE TakeBatch(l, c(i)) \in Known
    OBVIOUS
  <2>1. PICK B \in SUBSET (DOMAIN batches) : Knows(l, Positions(B))
    BY DEF Known
  <2>2. /\ Knows(TakeBatch(l, c(i)), Positions(B \union {c(i)}))
        /\ B \union {c(i)} \in SUBSET (DOMAIN batches)
    BY <1>3, <2>1
  <2>3. TakeBatch(l, c(i)) \in [Keys -> Found]
    BY <2>2 DEF Knows
  <2> QED
    BY <2>2, <2>3 DEF Known
<1>7. /\ step \in [1 .. n -> [Known -> Known]]
      /\ \A i \in 1 .. n, l \in Known : step[i][l] = TakeBatch(l, c(i))
  BY <1>6
<1> HIDE DEF step
<1>8. PICK f \in [0 .. n -> Known] : Rounds(n, latest, step, f)
  BY <1>1, <1>5, <1>7, LoopExists
<1>9. TakesRecords(latest, records, f)
  <2>1. ASSUME NEW i \in 0 .. n PROVE f[i] = IF i = 0 THEN latest ELSE TakeBatch(f[i - 1], c(i))
    <3>1. CASE i = 0
      BY <1>8, <3>1 DEF Rounds
    <3>2. CASE i # 0
      <4>1. i \in 1 .. n /\ i - 1 \in 0 .. n
        BY <1>1, <3>2
      <4> QED
        BY <1>7, <1>8, <3>2, <4>1 DEF Rounds
    <3> QED
      BY <3>1, <3>2
  <2> QED
    BY <1>8, <2>1 DEF TakesRecords, n, c
<1> DEFINE g == CHOOSE h : TakesRecords(latest, records, h)
<1>10. TakesRecords(latest, records, g) /\ TakeRecords(latest, records) = g[n]
  <2>1. TakesRecords(latest, records, g)
    BY <1>9, Zenon
  <2>2. TakeRecords(latest, records) = g[n]
    BY Zenon DEF TakeRecords, TakesRecords, n
  <2> QED
    BY <2>1, <2>2
<1> HIDE DEF g
<1>11. /\ g[0] = latest
       /\ \A i \in 1 .. n : i - 1 \in 0 .. n /\ i \in 0 .. n /\ g[i] = TakeBatch(g[i - 1], c(i))
  <2>1. g = [i \in 0 .. n |-> IF i = 0 THEN latest ELSE TakeBatch(g[i - 1], c(i))]
    BY <1>10 DEF TakesRecords, n, c
  <2>2. 0 \in 0 .. n /\ \A i \in 1 .. n : i - 1 \in 0 .. n /\ i \in 0 .. n /\ i # 0
    BY <1>1
  <2> QED
    BY <2>1, <2>2
<1> DEFINE T == {i \in 0 .. n : Knows(g[i], Positions(at(i)))}
<1>12. 0 \in T
  BY <1>1, <1>2, <1>11
<1>13. \A i \in 1 .. n : i - 1 \in T => i \in T
  <2> SUFFICES ASSUME NEW i \in 1 .. n, i - 1 \in T PROVE i \in T
    OBVIOUS
  <2>1. Knows(g[i - 1], Positions(at(i - 1))) /\ at(i - 1) \in SUBSET (DOMAIN batches)
    BY <1>4
  <2>2. Knows(TakeBatch(g[i - 1], c(i)), Positions(at(i - 1) \union {c(i)}))
    BY <1>3, <2>1
  <2> QED
    BY <1>4, <1>11, <2>2
<1>14. T \in SUBSET (0 .. n)
  OBVIOUS
<1> HIDE DEF T
<1>15. T = 0 .. n /\ n \in T
  <2>1. T = 0 .. n
    BY <1>1, <1>12, <1>13, <1>14, UpTo
  <2> QED
    BY <1>1, <2>1
<1> QED
  BY <1>2, <1>10, <1>15 DEF T, c

\* The batches that can be read in the n-th file.
ReadableIn(n) == Whole(wals[n], Size(wals[n])) \ StartsEmpty(wals[n])

LEMMA TakeFile ==
  ASSUME LogInv, NEW n \in DOMAIN wals, NEW latest, NEW A \in SUBSET (DOMAIN batches),
         Knows(latest, Positions(A))
  PROVE  /\ Knows(TakeRecords(latest, LogicalRecords(wals[n], Size(wals[n]))),
                  Positions(A \union ReadableIn(n)))
         /\ A \union ReadableIn(n) \in SUBSET (DOMAIN batches)
<1> DEFINE log == wals[n]
           records == LogicalRecords(log, Size(log))
           B == ReadableIn(n)
<1>1. /\ Numbered /\ batches \in Seq(Batch) /\ log \in Seq(Physical) /\ Pieces(batches, log)
      /\ wals \in Seq(Seq(Physical))
  BY DEF LogInv, WalInv, WalTypeOK, Numbered, NumberedFor
<1>2. Size(log) \in Nat
  BY <1>1, SizeIsNat
<1>3. Yields(batches, records, B) /\ records \in Seq(Seq(Byte))
  BY <1>1, <1>2, FileYields DEF ReadableIn
<1>4. \A b \in B : b \in DOMAIN batches /\ batches[b].length > 0
  <2> SUFFICES ASSUME NEW b \in B PROVE b \in DOMAIN batches /\ batches[b].length > 0
    OBVIOUS
  <2>1. PICK i \in DOMAIN log : b = log[i].batch
    BY DEF ReadableIn, Whole
  <2> QED
    BY <1>1, <2>1 DEF Pieces, PieceOf
<1>5. \A b \in B : BatchOf(Bytes(b, 1, batches[b].length)) = b
  <2> SUFFICES ASSUME NEW b \in B PROVE BatchOf(Bytes(b, 1, batches[b].length)) = b
    OBVIOUS
  <2>1. b \in Nat /\ batches[b].length \in Nat /\ batches[b].length > 0
    BY <1>1, <1>4, BatchTyped
  <2> QED
    BY <2>1, BatchOfBytes
<1> HIDE DEF records, B
<1>6. \A i \in DOMAIN records : BatchOf(records[i]) \in B
  <2> SUFFICES ASSUME NEW i \in DOMAIN records PROVE BatchOf(records[i]) \in B
    OBVIOUS
  <2>1. records[i] \in Range(records)
    BY DEF Range
  <2>2. PICK b \in B : records[i] = Bytes(b, 1, batches[b].length)
    BY <1>3, <2>1 DEF Yields
  <2> QED
    BY <1>5, <2>2
<1>7. \A b \in B : \E i \in DOMAIN records : BatchOf(records[i]) = b
  <2> SUFFICES ASSUME NEW b \in B PROVE \E i \in DOMAIN records : BatchOf(records[i]) = b
    OBVIOUS
  <2>1. Bytes(b, 1, batches[b].length) \in Range(records)
    BY <1>3 DEF Yields
  <2>2. PICK i \in DOMAIN records : records[i] = Bytes(b, 1, batches[b].length)
    BY <2>1 DEF Range
  <2> QED
    BY <1>5, <2>2
<1>8. {BatchOf(records[i]) : i \in DOMAIN records} = B
  BY <1>6, <1>7
<1>9. Knows(TakeRecords(latest, records), Positions(A \union B))
  <2>1. \A i \in DOMAIN records : BatchOf(records[i]) \in DOMAIN batches
    BY <1>4, <1>6
  <2> QED
    BY <1>1, <1>3, <1>8, <2>1, TakeRecordsKnows
<1>10. A \union B \in SUBSET (DOMAIN batches)
  BY <1>4
<1> QED
  BY <1>9, <1>10 DEF records, B

\* Every file is in any order of the files.
LEMMA OrderHasAll ==
  ASSUME NEW n \in Nat, NEW order \in SetToSeqs(1 .. n)
  PROVE  /\ order \in [1 .. n -> 1 .. n] /\ Len(order) = n
         /\ \A k \in 1 .. n : \E i \in 1 .. n : order[i] = k
<1>1. IsFiniteSet(1 .. n) /\ Cardinality(1 .. n) = n
  BY FS_Interval
<1>2. order \in [1 .. n -> 1 .. n] /\ \A i, j \in 1 .. n : i # j => order[i] # order[j]
  BY <1>1 DEF SetToSeqs
<1>3. order \in Injection(1 .. n, 1 .. n)
  BY <1>2 DEF Injection, IsInjective
<1>4. order \in Surjection(1 .. n, 1 .. n)
  BY <1>1, <1>3, FS_Injection
<1>5. \A k \in 1 .. n : \E i \in 1 .. n : order[i] = k
  BY <1>4 DEF Surjection
<1>6. Len(order) = n
  BY <1>2
<1> QED
  BY <1>2, <1>5, <1>6

LEMMA LatestKnows ==
  ASSUME LogInv, NEW order \in SetToSeqs(DOMAIN wals)
  PROVE  Knows(LatestMutations(order), Positions(Readable))
<1> DEFINE n == Len(wals)
           none == [k \in Keys |-> NoMutation]
           take(l, i) == TakeRecords(l, LogicalRecords(wals[order[i]], Size(wals[order[i]])))
           step == [i \in 1 .. n |-> [l \in Known |-> take(l, i)]]
           at(i) == UNION {ReadableIn(order[j]) : j \in 1 .. i}
<1>1. n \in Nat /\ DOMAIN wals = 1 .. n
  BY DEF LogInv, WalInv, WalTypeOK
<1>2. /\ order \in [1 .. n -> 1 .. n] /\ Len(order) = n
      /\ \A k \in 1 .. n : \E i \in 1 .. n : order[i] = k
  BY <1>1, OrderHasAll
<1> HIDE DEF n
<1>3. at(0) = {} /\ at(n) = Readable
  <2>1. 1 .. 0 = {}
    OBVIOUS
  <2>2. at(n) = UNION {ReadableIn(k) : k \in 1 .. n}
    BY <1>2
  <2> QED
    BY <1>1, <2>1, <2>2 DEF Readable, ReadableIn
<1>4. ASSUME NEW B \in SUBSET (DOMAIN batches), NEW l, Knows(l, Positions(B)), NEW i \in 1 .. n
      PROVE  /\ Knows(take(l, i), Positions(B \union ReadableIn(order[i])))
             /\ B \union ReadableIn(order[i]) \in SUBSET (DOMAIN batches)
  <2>1. order[i] \in DOMAIN wals
    BY <1>1, <1>2
  <2> QED
    BY <1>4, <2>1, TakeFile
<1>5. Knows(none, Positions({})) /\ none \in Known
  <2>1. NoMutation \in Found /\ Positions({}) = {}
    BY DEF NoMutation, Found, Positions
  <2>2. none \in [Keys -> Found] /\ \A k \in Keys : none[k] = NoMutation
    BY <2>1
  <2> HIDE DEF none
  <2>3. Knows(none, Positions({}))
    BY <2>1, <2>2 DEF Knows
  <2> QED
    BY <2>2, <2>3 DEF Known
<1> HIDE DEF none, take
<1>6. ASSUME NEW i \in 1 .. n
      PROVE  at(i) = at(i - 1) \union ReadableIn(order[i])
  <2>1. 1 .. i = (1 .. i - 1) \union {i}
    BY <1>1
  <2> QED
    BY <2>1
<1> HIDE DEF at
<1>7. \A i \in 1 .. n, l \in Known : take(l, i) \in Known
  <2> SUFFICES ASSUME NEW i \in 1 .. n, NEW l \in Known PROVE take(l, i) \in Known
    OBVIOUS
  <2>1. PICK B \in SUBSET (DOMAIN batches) : Knows(l, Positions(B))
    BY DEF Known
  <2>2. /\ Knows(take(l, i), Positions(B \union ReadableIn(order[i])))
        /\ B \union ReadableIn(order[i]) \in SUBSET (DOMAIN batches)
    BY <1>4, <2>1
  <2>3. take(l, i) \in [Keys -> Found]
    BY <2>2 DEF Knows
  <2> QED
    BY <2>2, <2>3 DEF Known
<1>8. step \in [1 .. n -> [Known -> Known]] /\ \A i \in 1 .. n, l \in Known : step[i][l] = take(l, i)
  BY <1>7
<1> HIDE DEF step
<1>9. PICK f \in [0 .. n -> Known] : Rounds(n, none, step, f)
  BY <1>1, <1>5, <1>8, LoopExists
<1>10. TakesFiles(order, f)
  <2>1. ASSUME NEW i \in 0 .. n PROVE f[i] = IF i = 0 THEN none ELSE take(f[i - 1], i)
    <3>1. CASE i = 0
      BY <1>9, <3>1 DEF Rounds
    <3>2. CASE i # 0
      <4>1. i \in 1 .. n /\ i - 1 \in 0 .. n
        BY <1>1, <3>2
      <4> QED
        BY <1>8, <1>9, <3>2, <4>1 DEF Rounds
    <3> QED
      BY <3>1, <3>2
  <2>2. f = [i \in 0 .. n |-> IF i = 0 THEN none ELSE take(f[i - 1], i)]
    BY <1>9, <2>1
  <2> QED
    BY <1>2, <2>2 DEF TakesFiles, none, take
<1> DEFINE g == CHOOSE h : TakesFiles(order, h)
<1>11. TakesFiles(order, g) /\ LatestMutations(order) = g[n]
  <2>1. TakesFiles(order, g)
    BY <1>10, Zenon
  <2>2. LatestMutations(order) = g[Len(order)]
    BY Zenon DEF LatestMutations, TakesFiles
  <2> QED
    BY <1>2, <2>1, <2>2
<1> HIDE DEF g
<1>12. /\ g[0] = none
       /\ \A i \in 1 .. n : i - 1 \in 0 .. n /\ i \in 0 .. n /\ g[i] = take(g[i - 1], i)
  <2>1. g = [i \in 0 .. n |-> IF i = 0 THEN none ELSE take(g[i - 1], i)]
    BY <1>2, <1>11 DEF TakesFiles, none, take
  <2>2. 0 \in 0 .. n /\ \A i \in 1 .. n : i - 1 \in 0 .. n /\ i \in 0 .. n /\ i # 0
    BY <1>1
  <2> QED
    BY <2>1, <2>2
<1> DEFINE T == {i \in 0 .. n : at(i) \in SUBSET (DOMAIN batches) /\ Knows(g[i], Positions(at(i)))}
<1>13. 0 \in T
  <2>1. at(0) \in SUBSET (DOMAIN batches) /\ Positions(at(0)) = Positions({})
    BY <1>3
  <2>2. Knows(g[0], Positions(at(0)))
    BY <1>5, <1>12, <2>1, Zenon
  <2>3. 0 \in 0 .. n
    BY <1>1
  <2> QED
    BY <2>1, <2>2, <2>3
<1>14. \A i \in 1 .. n : i - 1 \in T => i \in T
  <2> SUFFICES ASSUME NEW i \in 1 .. n, i - 1 \in T PROVE i \in T
    OBVIOUS
  <2>1. Knows(g[i - 1], Positions(at(i - 1))) /\ at(i - 1) \in SUBSET (DOMAIN batches)
    OBVIOUS
  <2>2. /\ Knows(take(g[i - 1], i), Positions(at(i - 1) \union ReadableIn(order[i])))
        /\ at(i - 1) \union ReadableIn(order[i]) \in SUBSET (DOMAIN batches)
    BY <1>4, <2>1
  <2> QED
    BY <1>6, <1>12, <2>2
<1>15. T \in SUBSET (0 .. n)
  OBVIOUS
<1> HIDE DEF T
<1>16. T = 0 .. n /\ n \in T
  <2>1. T = 0 .. n
    BY <1>1, <1>13, <1>14, <1>15, UpTo
  <2> QED
    BY <1>1, <2>1
<1> QED
  BY <1>3, <1>11, <1>16 DEF T

\* The greatest sequence number is the last that was written.
LEMMA NewestIsFound ==
  ASSUME LogInv, NEW latest, Knows(latest, Positions(Readable)), NEW k \in Keys
  PROVE  IsNewest(latest[k], k, Readable)
<1>1. Numbered /\ NumberedFor(Finished, batches)
  BY DEF LogInv, WalInv, WalTypeOK, Numbered, NumberedFor
<1>2. Readable \subseteq Finished /\ Finished \subseteq DOMAIN batches
  <2>1. Finished \subseteq DOMAIN batches
    BY FinishedIs DEF LogInv, WalInv, WalTypeOK
  <2> QED
    BY <2>1 DEF Readable, Finished
<1>3. CASE latest[k] = NoMutation /\ \A q \in Positions(Readable) : ~ Mentions(q[1], q[2], k)
  <2>1. ASSUME NEW b \in Readable, NEW i \in DOMAIN batches[b].contents
        PROVE  ~ Mentions(b, i, k)
    <3>1. <<b, i>> \in Positions(Readable) /\ <<b, i>>[1] = b /\ <<b, i>>[2] = i
      BY DEF Positions
    <3> QED
      BY <1>3, <3>1
  <2> QED
    BY <1>3, <2>1 DEF IsNewest
<1>4. CASE \E q \in Positions(Readable) :
             /\ Mentions(q[1], q[2], k) /\ latest[k] = Mutation(q[1], q[2])
             /\ \A r \in Positions(Readable) : Mentions(r[1], r[2], k) =>
                  Mutation(r[1], r[2]).sequence <= latest[k].sequence
  <2>1. PICK q \in Positions(Readable) :
             /\ Mentions(q[1], q[2], k) /\ latest[k] = Mutation(q[1], q[2])
             /\ \A r \in Positions(Readable) : Mentions(r[1], r[2], k) =>
                  Mutation(r[1], r[2]).sequence <= latest[k].sequence
    BY <1>4
  <2>2. PICK b \in Readable : q \in {b} \X DOMAIN batches[b].contents
    BY DEF Positions
  <2> DEFINE i == q[2]
  <2>3. q[1] = b /\ i \in DOMAIN batches[b].contents
    BY <2>2
  <2> HIDE DEF i
  <2>4. Mentions(b, i, k) /\ latest[k] = Mutation(b, i)
    BY <2>1, <2>3 DEF i
  <2>5. ASSUME NEW c \in Readable, NEW j \in DOMAIN batches[c].contents, Mentions(c, j, k)
        PROVE  c < b \/ (c = b /\ j <= i)
    <3> DEFINE sb == batches[b].sequence
               sc == batches[c].sequence
               nb == Len(batches[b].contents)
    <3>1. <<c, j>> \in Positions(Readable) /\ <<c, j>>[1] = c /\ <<c, j>>[2] = j
      BY DEF Positions
    <3>2. Mutation(c, j).sequence <= Mutation(b, i).sequence
      BY <2>1, <2>4, <2>5, <3>1
    <3>3. b \in DOMAIN batches /\ c \in DOMAIN batches
      BY <1>2
    <3>4. /\ Mutation(c, j).sequence = sc + j - 1 /\ Mutation(b, i).sequence = sb + i - 1
          /\ i \in Nat /\ j \in Nat /\ i >= 1 /\ j >= 1
      BY <1>1, <2>3, <3>3, MutationTyped
    <3>5. sb \in Nat /\ sc \in Nat /\ b \in Nat /\ c \in Nat /\ nb \in Nat /\ i <= nb
      BY <1>1, <2>3, <3>3, BatchTyped
    <3>6. b < c => sb + nb <= sc
      BY <1>1, <1>2, <3>3 DEF NumberedFor
    <3>7. sc + j - 1 <= sb + i - 1
      BY <3>2, <3>4
    <3>8. c = b => sc = sb
      OBVIOUS
    <3> HIDE DEF sb, sc, nb
    <3>9. ~ (b < c)
      BY <3>4, <3>5, <3>6, <3>7
    <3>10. c = b => j <= i
      BY <3>4, <3>5, <3>7, <3>8
    <3> QED
      BY <3>5, <3>9, <3>10
  <2> QED
    BY <2>3, <2>4, <2>5 DEF IsNewest
<1> QED
  BY <1>3, <1>4 DEF Knows

LEMMA NewestIsRead ==
  ASSUME LogInv
  PROVE  FindsNewestRead
BY LatestKnows, NewestIsFound DEF FindsNewestRead

\* However many bytes of a log file there are when it is read, the batches that
\* are whole in them are read, each with its own bytes alone and in their order;
\* and of the mutations in all files, the one kept for a key is the last that was
\* written of those that could be read.
THEOREM LogsAreReadAsWritten == WalSpec => []ReadsLogs
<1>1. LogInv => ReadsLogs
  BY LogsAreRead, NewestIsRead DEF ReadsLogs
<1> QED
  BY <1>1, LogsInvariant, PTL

-----------------------------------------------------------------------------
(* The instance *)

\* A behaviour of the instance is one of each component, two of them at rest.
THEOREM TokensCompose == TokensSpec => Spec /\ DesktopSpec /\ WalSpec
<1>1. TokensInit => Init /\ DesktopInit /\ WalInit
  BY DEF TokensInit
<1>2. [TokensNext]_allVars => [Next]_vars /\ [DesktopNext]_desktopVars /\ [WalNext]_walVars
  BY DEF TokensNext, allVars
<1> QED
  BY <1>1, <1>2, PTL DEF TokensSpec, Spec, DesktopSpec, WalSpec

\* The variables of the three components keep their types.
THEOREM TokensTyped == TokensSpec => []TypesOK
<1>1. TypeOK /\ DesktopTypeOK /\ WalTypeOK => TypesOK
  BY DEF TypesOK
<1> QED
  BY <1>1, TokensCompose, TypeCorrect, DesktopTyped, WalTyped, PTL
=============================================================================
