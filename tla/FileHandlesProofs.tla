-------------------------- MODULE FileHandlesProofs --------------------------
(***************************************************************************)
(* Theorems about FileHandles: what is read and replaced through an        *)
(* fs.Object is the version it was found with or adopted last, and what is *)
(* read is not older than what was written through it, whatever other      *)
(* clients do between the requests.                                        *)
(***************************************************************************)
EXTENDS FileHandles, TLAPS

-----------------------------------------------------------------------------
(* The calls, by where they are *)

Preconditions == [id : Ids, rev : Revs] \union {None}
Meta     == [id : Ids, rev : Revs \union {NoRev}]

AskMetadata == [op : {"open"}, at : {"metadata"}, expect : Preconditions, suffix : BOOLEAN]
AskURL      == [op : {"open"}, at : {"url"}, expect : Preconditions, meta : Meta, suffix : BOOLEAN]
Reading     == [op : {"open"}, at : {"get", "body"}, expect : Preconditions, meta : Meta,
                suffix : BOOLEAN, rev : Revs]
Relocating  == [op : {"move", "sync-move"}, at : {"relocate"}, to : Places]

Uploading   == [op : {"update"}, at : {"upload"}]
Adopting    == [op : {"update"}, at : {"adopt"}, rev : Revs]

Calls == {Idle} \union AskMetadata \union AskURL \union Reading \union Relocating
           \union Uploading \union Adopting

\* A call on an object has one.
Holds == \A c \in Callers : call[c] # Idle => obj[c] # None

\* IDs are given out in order.
Fresh == \A i \in Ids : i >= nextId => doc[i] = Gone

Types ==
    /\ TypeOK
    /\ call \in [Callers -> Calls]
    /\ Holds
    /\ Fresh

-----------------------------------------------------------------------------
(* What an object and a download know *)

\* An object stands for the revision it was found with or adopted last, if any.
Based ==
    \A c \in Callers :
      /\ obj[c] = None => base[c] = NoRev
      /\ obj[c] # None => obj[c].rev = base[c]
      /\ base[c] # NoRev => obj[c].size = base[c].size

\* The preconditions were compared with the metadata that the URL is asked
\* with, which are those of the object when it has a revision.
Agrees ==
    \A c \in Callers :
      /\ call[c].at = "metadata" => base[c] = NoRev
      /\ call[c].at \in {"url", "get", "body"} =>
           /\ Allows(call[c].expect, call[c].meta)
           /\ base[c] # NoRev => call[c].meta.rev = base[c]

\* The revision that is asked for is served.
ServesAsked ==
    \A c \in Callers : call[c].at \in {"get", "body"} /\ call[c].meta.rev # NoRev =>
        call[c].rev = call[c].meta.rev

HandleInv == Types /\ Based /\ Agrees /\ ServesAsked

-----------------------------------------------------------------------------
(* Types *)

LEMMA CallKinds ==
    ASSUME Types, NEW c \in Callers
    PROVE  /\ call[c] \in Calls /\ call[c].at \in Points
           /\ call[c].at = "idle" => call[c] = Idle
           /\ call[c].at = "metadata" => call[c] \in AskMetadata
           /\ call[c].at = "url" => call[c] \in AskURL
           /\ call[c].at \in {"get", "body"} => call[c] \in Reading
           /\ call[c].at = "relocate" => call[c] \in Relocating
           /\ call[c].at = "adopt" => call[c] \in Adopting
           /\ call[c].at # "idle" => obj[c] \in Handle
<1>1. /\ call[c] \in Calls /\ obj[c] \in Handle \union {None} /\ Idle.at = "idle"
      /\ call[c].at \in Points
  BY DEF Types, TypeOK, Idle
<1>2. CASE call[c] = Idle
  BY <1>1, <1>2 DEF Idle
<1>3. CASE call[c] \in AskMetadata
  BY <1>1, <1>3 DEF AskMetadata, Types, Holds
<1>4. CASE call[c] \in AskURL
  BY <1>1, <1>4 DEF AskURL, Types, Holds
<1>5. CASE call[c] \in Reading
  BY <1>1, <1>5 DEF Reading, Types, Holds
<1>6. CASE call[c] \in Relocating
  BY <1>1, <1>6 DEF Relocating, Types, Holds
<1>7. CASE call[c] \in Uploading
  BY <1>1, <1>7 DEF Uploading, Types, Holds
<1>8. CASE call[c] \in Adopting
  BY <1>1, <1>8 DEF Adopting, Types, Holds
<1> QED
  BY <1>1, <1>2, <1>3, <1>4, <1>5, <1>6, <1>7, <1>8 DEF Calls

\* The ways a document changes keep the types of the service.
LEMMA ServiceTypes ==
    ASSUME Types, NEW i \in Ids, Exists(i)
    PROVE  /\ doc[i] \in Docs
           /\ i < nextId
           /\ \A p \in Places : [doc EXCEPT ![i].place = p] \in [Ids -> Docs \union {Gone}]
           /\ \A r \in Revs : Write(i, r) => doc' \in [Ids -> Docs \union {Gone}]
           /\ [doc EXCEPT ![i] = Gone] \in [Ids -> Docs \union {Gone}]
           /\ \A p \in Places : nextId \in Ids /\ MoveTo(i, p) => doc' \in [Ids -> Docs \union {Gone}]
<1>1. doc \in [Ids -> Docs \union {Gone}] /\ doc[i] \in Docs
  BY DEF Types, TypeOK, Exists
<1>2. i < nextId
  BY DEF Types, TypeOK, Fresh, Exists, Ids
<1>3. ASSUME NEW p \in Places PROVE [doc[i] EXCEPT !.place = p] \in Docs
  BY <1>1 DEF Docs
<1>4. ASSUME NEW r \in Revs, Write(i, r) PROVE doc' \in [Ids -> Docs \union {Gone}]
  <2>1. [doc[i] EXCEPT !.rev = r, !.versions = doc[i].versions \union {r}] \in Docs
    BY <1>1 DEF Docs
  <2>2. doc' = [doc EXCEPT ![i] = [doc[i] EXCEPT !.rev = r, !.versions = doc[i].versions \union {r}]]
    BY <1>1, <1>4 DEF Write
  <2> QED
    BY <1>1, <2>1, <2>2
<1>5. ASSUME NEW p \in Places, nextId \in Ids, MoveTo(i, p)
      PROVE  doc' \in [Ids -> Docs \union {Gone}]
  BY <1>1, <1>3, <1>5 DEF MoveTo
<1> QED
  BY <1>1, <1>2, <1>3, <1>4, <1>5

LEMMA NewFileType ==
    ASSUME NEW p \in Places, NEW n \in Ids, NEW s \in Sizes
    PROVE  NewFile(p, [n |-> n, size |-> s]) \in Docs
<1>1. [n |-> n, size |-> s] \in Revs
  BY DEF Revs
<1> QED
  BY <1>1 DEF NewFile, Docs

LEMMA InitTypes == Init => HandleInv
<1> SUFFICES ASSUME Init PROVE HandleInv
  OBVIOUS
<1>1. PICK p \in Places, s \in Sizes :
        doc = [i \in Ids |-> IF i = 1 THEN NewFile(p, [n |-> 1, size |-> s]) ELSE Gone]
  BY DEF Init
<1>2. 1 \in Ids /\ 2 \in 1 .. MaxId + 1
  BY BoundsAssumption DEF Ids
<1>3. doc \in [Ids -> Docs \union {Gone}] /\ Fresh
  BY <1>1, <1>2, NewFileType DEF Init, Fresh, Ids
<1>4. 0 \in 0 .. MaxCalls /\ 0 \in 0 .. MaxFaults /\ 0 \in 0 .. MaxForeign
  BY BoundsAssumption
<1>5. Types
  BY <1>2, <1>3, <1>4 DEF Init, Types, TypeOK, Calls, Holds, Idle, Points
<1>6. Based
  BY DEF Init, Based
<1>7. Agrees /\ ServesAsked
  BY DEF Init, Agrees, ServesAsked, Idle
<1> QED
  BY <1>5, <1>6, <1>7 DEF HandleInv

-----------------------------------------------------------------------------
(* Steps *)

CountersOK == calls \in 0 .. MaxCalls /\ faults \in 0 .. MaxFaults /\ foreign \in 0 .. MaxForeign

LEMMA Counters == ASSUME HandleInv, Next PROVE CountersOK'
<1>1. /\ CountersOK /\ MaxCalls \in Nat /\ MaxFaults \in Nat /\ MaxForeign \in Nat
  BY BoundsAssumption DEF HandleInv, Types, TypeOK, CountersOK
<1>2. ASSUME NEW c \in Callers, NEW r, Fails(c, r) \/ Fault \/ UNCHANGED faults
      PROVE  faults' \in 0 .. MaxFaults
  BY <1>1, <1>2 DEF Fails, Fault, CountersOK
<1>3. ASSUME NEW c \in Callers, Begins(c) \/ UNCHANGED calls PROVE calls' \in 0 .. MaxCalls
  BY <1>1, <1>3 DEF Begins, CountersOK
<1>4. ASSUME NEW c \in Callers, Step(c) PROVE CountersOK'
  <2>1. calls' \in 0 .. MaxCalls
    BY <1>3, <1>4 DEF Step, Find, Open, FetchMetadata, SignURL, Get, Close, Relocate,
       Relocated, Update, EndUpload, AdoptMetadata, Remove
  <2>2. faults' \in 0 .. MaxFaults
    BY <1>2, <1>4 DEF Step, Find, Open, FetchMetadata, SignURL, Get, Close, Relocate,
       Relocated, Update, EndUpload, AdoptMetadata, Remove
  <2>3. UNCHANGED foreign
    BY <1>4 DEF Step, Find, Open, FetchMetadata, SignURL, Get, Close, Relocate,
       Relocated, Update, EndUpload, AdoptMetadata, Remove
  <2> QED
    BY <1>1, <2>1, <2>2, <2>3 DEF CountersOK
<1>5. ASSUME ForeignChange PROVE CountersOK'
  BY <1>1, <1>5 DEF ForeignChange, CountersOK
<1>6. ASSUME Terminated PROVE CountersOK'
  BY <1>1, <1>6 DEF Terminated, vars, CountersOK
<1> QED
  BY <1>4, <1>5, <1>6 DEF Next

\* What a call must know at each place.
Knows(c, x) ==
    /\ x \in Calls
    /\ x # Idle => obj[c] # None
    /\ x.at = "metadata" => base[c] = NoRev
    /\ x.at \in {"url", "get", "body"} =>
         /\ Allows(x.expect, x.meta)
         /\ base[c] # NoRev => x.meta.rev = base[c]
    /\ x.at \in {"get", "body"} /\ x.meta.rev # NoRev => x.rev = x.meta.rev

LEMMA IdleKnows == ASSUME NEW c \in Callers PROVE Knows(c, Idle)
BY DEF Knows, Idle, Calls

\* A step that brings a call further, and maybe changes the documents.
LEMMA CallMovesOn ==
    ASSUME HandleInv, CountersOK', NEW c \in Callers, NEW x, Knows(c, x),
           call' = [call EXCEPT ![c] = x], UNCHANGED <<obj, base, wrote>>,
           doc' \in [Ids -> Docs \union {Gone}], nextId' \in 1 .. MaxId + 1, Fresh'
    PROVE  HandleInv'
<1>1. call \in [Callers -> Calls] /\ x \in Calls
  BY DEF HandleInv, Types, Knows
<1>2. call' \in [Callers -> Calls] /\ call'[c] = x /\ \A d \in Callers : d # c => call'[d] = call[d]
  BY <1>1
<1>3. TypeOK'
  <2>1. \A d \in Callers : call'[d].at \in Points
    BY <1>2 DEF Calls, Idle, AskMetadata, AskURL, Reading, Relocating, Uploading, Adopting, Points
  <2> QED
    BY <2>1 DEF HandleInv, Types, TypeOK, CountersOK
<1>4. Types'
  BY <1>2, <1>3 DEF HandleInv, Types, Holds, Knows
<1>5. Based'
  BY DEF HandleInv, Based
<1>6. Agrees' /\ ServesAsked'
  BY <1>2 DEF HandleInv, Agrees, ServesAsked, Knows, Allows
<1> QED
  BY <1>4, <1>5, <1>6 DEF HandleInv

LEMMA CallOnlyMovesOn ==
    ASSUME HandleInv, CountersOK', NEW c \in Callers, NEW x, Knows(c, x),
           call' = [call EXCEPT ![c] = x], UNCHANGED <<doc, nextId, obj, base, wrote>>
    PROVE  HandleInv'
<1>1. doc' \in [Ids -> Docs \union {Gone}] /\ nextId' \in 1 .. MaxId + 1 /\ Fresh'
  BY DEF HandleInv, Types, TypeOK, Fresh
<1> QED
  BY <1>1, CallMovesOn

\* A step that changes the documents, and the object of one idle caller.
LEMMA ServiceMovesOn ==
    ASSUME HandleInv, CountersOK', doc' \in [Ids -> Docs \union {Gone}],
           nextId' \in 1 .. MaxId + 1, nextId <= nextId',
           \A i \in Ids : i >= nextId' => doc'[i] = Gone,
           UNCHANGED <<obj, base, wrote, call>>
    PROVE  HandleInv'
<1>1. TypeOK'
  BY DEF HandleInv, Types, TypeOK, CountersOK
<1> QED
  BY <1>1 DEF HandleInv, Types, Holds, Fresh, Based, Agrees, ServesAsked, Allows

LEMMA ObjectMovesOn ==
    ASSUME HandleInv, Types', NEW c \in Callers, call'[c] = Idle,
           NEW h \in Handle, obj' = [obj EXCEPT ![c] = h],
           \A d \in Callers : d # c => call'[d] = call[d],
           NEW r, base' = [base EXCEPT ![c] = r], h.rev = r, r # NoRev => h.size = r.size
    PROVE  HandleInv'
<1>1. /\ obj \in [Callers -> Handle \union {None}] /\ base \in [Callers -> Revs \union {NoRev}]
      /\ obj'[c] = h /\ base'[c] = r /\ h # None
      /\ \A d \in Callers : d # c => obj'[d] = obj[d] /\ base'[d] = base[d]
  BY NothingAssumption DEF HandleInv, Types, TypeOK
<1>2. Based'
  BY <1>1 DEF HandleInv, Based
<1>3. Agrees' /\ ServesAsked'
  BY <1>1 DEF HandleInv, Agrees, ServesAsked, Allows, Idle
<1> QED
  BY <1>2, <1>3 DEF HandleInv

-----------------------------------------------------------------------------
(* The inductive invariant, an operation at a time *)

LEMMA FindInv == ASSUME HandleInv, CountersOK', NEW c \in Callers, Find(c) PROVE HandleInv'
<1>1. call[c] = Idle /\ call' = call /\ UNCHANGED <<doc, nextId>>
  BY DEF Find, Begins
<1>2. CASE UNCHANGED <<obj, base, wrote>>
  <2>1. call' = [call EXCEPT ![c] = Idle]
    BY <1>1 DEF HandleInv, Types
  <2> QED
    BY <1>1, <1>2, <2>1, IdleKnows, CallOnlyMovesOn
<1>3. CASE ~ UNCHANGED <<obj, base, wrote>>
  <2>1. PICK i \in Ids : Exists(i) /\ \E r \in {doc[i].rev, NoRev} :
          /\ obj' = [obj EXCEPT ![c] = [remote |-> doc[i].place, id |-> i, rev |-> r,
                                        size |-> doc[i].rev.size]]
          /\ base' = [base EXCEPT ![c] = r]
          /\ wrote' = [wrote EXCEPT ![c] = NoRev]
    BY <1>3 DEF Find
  <2>2. PICK r \in {doc[i].rev, NoRev} :
          /\ obj' = [obj EXCEPT ![c] = [remote |-> doc[i].place, id |-> i, rev |-> r,
                                        size |-> doc[i].rev.size]]
          /\ base' = [base EXCEPT ![c] = r]
          /\ wrote' = [wrote EXCEPT ![c] = NoRev]
    BY <2>1
  <2> DEFINE h == [remote |-> doc[i].place, id |-> i, rev |-> r, size |-> doc[i].rev.size]
  <2>3. doc[i] \in Docs
    BY <2>1, ServiceTypes DEF HandleInv
  <2>4. h \in Handle /\ r \in Revs \union {NoRev} /\ h # None
    BY <2>3, NothingAssumption DEF Docs, Revs, Handle
  <2>5. Types'
    <3>1. /\ obj' \in [Callers -> Handle \union {None}] /\ base' \in [Callers -> Revs \union {NoRev}]
          /\ wrote' \in [Callers -> Revs \union {NoRev}]
      BY <2>2, <2>4 DEF HandleInv, Types, TypeOK
    <3>2. \A d \in Callers : call'[d] # Idle => obj'[d] # None
      BY <1>1, <2>2, <2>4 DEF HandleInv, Types, Holds, TypeOK
    <3> QED
      BY <1>1, <3>1, <3>2 DEF HandleInv, Types, TypeOK, CountersOK, Holds, Fresh
  <2>6. h.rev = r /\ (r # NoRev => h.size = r.size)
    BY <2>2
  <2> HIDE DEF h
  <2> QED
    BY <1>1, <2>4, <2>5, <2>6, <2>2, ObjectMovesOn DEF h
<1> QED
  BY <1>2, <1>3

\* The preconditions hold before anything is asked of the service.
LEMMA OpenedInv ==
    ASSUME HandleInv, CountersOK', NEW c \in Callers, obj[c] # None,
           NEW expect \in Preconditions, NEW meta \in Meta, NEW suffix \in BOOLEAN,
           base[c] # NoRev => meta.rev = base[c],
           Opened(c, expect, meta, suffix), UNCHANGED <<doc, nextId, obj, base, wrote>>
    PROVE  HandleInv'
<1> DEFINE x == [op |-> "open", at |-> "url", expect |-> expect, meta |-> meta, suffix |-> suffix]
<1>1. CASE Allows(expect, meta)
  <2>1. x \in AskURL
    BY DEF AskURL
  <2>2. Knows(c, x)
    BY <1>1, <2>1 DEF Knows, Calls
  <2>3. call' = [call EXCEPT ![c] = x]
    BY <1>1 DEF Opened
  <2> HIDE DEF x
  <2> QED
    BY <2>2, <2>3, CallOnlyMovesOn
<1>2. CASE ~ Allows(expect, meta)
  BY <1>2, IdleKnows, CallOnlyMovesOn DEF Opened, Return
<1> QED
  BY <1>1, <1>2

LEMMA KnownVersions == HandleInv => Known \subseteq [id : Ids, rev : Revs]
<1> SUFFICES ASSUME HandleInv, NEW k \in Known PROVE k \in [id : Ids, rev : Revs]
  OBVIOUS
<1>1. PICK i \in Ids : Exists(i) /\ k \in [id : {i}, rev : doc[i].versions]
  BY DEF Known
<1>2. doc[i].versions \subseteq Revs
  BY <1>1, ServiceTypes DEF HandleInv, Docs
<1> QED
  BY <1>1, <1>2

LEMMA OpenInv == ASSUME HandleInv, CountersOK', NEW c \in Callers, Open(c) PROVE HandleInv'
<1>1. /\ call[c] = Idle /\ obj[c] # None /\ obj[c] \in Handle
      /\ UNCHANGED <<doc, nextId, obj, base, wrote>>
  BY DEF Open, Begins, HandleInv, Types, TypeOK
<1>2. PICK expect \in Known \union {None}, suffix \in BOOLEAN :
        IF obj[c].rev # NoRev
        THEN Opened(c, expect, [id |-> obj[c].id, rev |-> obj[c].rev], suffix)
        ELSE call' = [call EXCEPT ![c] = [op |-> "open", at |-> "metadata", expect |-> expect,
                                          suffix |-> suffix]]
  BY DEF Open
<1>3. expect \in Preconditions
  BY <1>2, KnownVersions DEF Preconditions
<1>4. CASE obj[c].rev # NoRev
  <2>1. [id |-> obj[c].id, rev |-> obj[c].rev] \in Meta
    BY <1>1 DEF Handle, Meta
  <2>2. base[c] = obj[c].rev
    BY <1>1 DEF HandleInv, Based
  <2> QED
    BY <1>1, <1>2, <1>3, <1>4, <2>1, <2>2, OpenedInv
<1>5. CASE obj[c].rev = NoRev
  <2> DEFINE x == [op |-> "open", at |-> "metadata", expect |-> expect, suffix |-> suffix]
  <2>1. x \in AskMetadata
    BY <1>2, <1>3 DEF AskMetadata
  <2>2. Knows(c, x)
    BY <1>1, <1>5, <2>1 DEF Knows, Calls, HandleInv, Based
  <2>3. call' = [call EXCEPT ![c] = x]
    BY <1>2, <1>5
  <2> HIDE DEF x
  <2> QED
    BY <1>1, <2>2, <2>3, CallOnlyMovesOn
<1> QED
  BY <1>4, <1>5

\* A request that fails ends the call.
LEMMA FailsInv ==
    ASSUME HandleInv, CountersOK', NEW c \in Callers, NEW refused, Fails(c, refused),
           UNCHANGED <<obj, base, wrote>>
    PROVE  HandleInv'
BY IdleKnows, CallOnlyMovesOn DEF Fails, Return

LEMMA FetchMetadataInv ==
    ASSUME HandleInv, CountersOK', NEW c \in Callers, FetchMetadata(c) PROVE HandleInv'
<1> DEFINE i == obj[c].id
<1>1. call[c].at = "metadata" /\ UNCHANGED <<obj, base, wrote>>
  BY DEF FetchMetadata
<1>2. CASE Fails(c, ~ Exists(i))
  BY <1>1, <1>2, FailsInv
<1>3. CASE ~ Fails(c, ~ Exists(i))
  <2>1. PICK r \in {doc[i].rev, NoRev} :
          Opened(c, call[c].expect, [id |-> i, rev |-> r], call[c].suffix)
    BY <1>3 DEF FetchMetadata
  <2>2. Exists(i) /\ UNCHANGED <<doc, nextId>>
    BY <1>3 DEF FetchMetadata
  <2>3. call[c] \in AskMetadata /\ obj[c] \in Handle
    BY <1>1, CallKinds DEF HandleInv
  <2>4. doc[i] \in Docs /\ i \in Ids
    BY <2>2, <2>3, ServiceTypes DEF HandleInv, Handle
  <2>5. [id |-> i, rev |-> r] \in Meta
    BY <2>4 DEF Docs, Meta
  <2>6. call[c].expect \in Preconditions /\ call[c].suffix \in BOOLEAN
    BY <2>3 DEF AskMetadata
  <2>7. base[c] = NoRev /\ obj[c] # None
    BY <1>1, <2>3, NothingAssumption DEF HandleInv, Agrees
  <2> QED
    BY <1>1, <2>1, <2>2, <2>5, <2>6, <2>7, OpenedInv
<1> QED
  BY <1>2, <1>3

LEMMA SignURLInv == ASSUME HandleInv, CountersOK', NEW c \in Callers, SignURL(c) PROVE HandleInv'
<1> DEFINE meta == call[c].meta
<1>1. call[c].at = "url" /\ UNCHANGED <<obj, base, wrote>>
  BY DEF SignURL
<1>2. CASE Fails(c, ~ (Exists(meta.id) /\ Served(meta) # {}))
  BY <1>1, <1>2, FailsInv
<1>3. CASE ~ Fails(c, ~ (Exists(meta.id) /\ Served(meta) # {}))
  <2>1. PICK r \in Served(meta) :
          call' = [call EXCEPT ![c] = [op |-> "open", at |-> "get", expect |-> call[c].expect,
                                       meta |-> meta, suffix |-> call[c].suffix, rev |-> r]]
    BY <1>3 DEF SignURL
  <2>2. Exists(meta.id) /\ UNCHANGED <<doc, nextId>>
    BY <1>3 DEF SignURL
  <2>3. call[c] \in AskURL /\ obj[c] # None
    BY <1>1, CallKinds, NothingAssumption DEF HandleInv
  <2>4. doc[meta.id] \in Docs /\ meta \in Meta
    BY <2>2, <2>3, ServiceTypes DEF HandleInv, AskURL, Meta
  <2>5. r \in Revs /\ (meta.rev # NoRev => r = meta.rev)
    BY <2>1, <2>4 DEF Served, Docs
  <2> DEFINE x == [op |-> "open", at |-> "get", expect |-> call[c].expect,
                   meta |-> meta, suffix |-> call[c].suffix, rev |-> r]
  <2>6. x \in Reading
    BY <2>3, <2>4, <2>5 DEF Reading, AskURL
  <2>7. Knows(c, x)
    BY <1>1, <2>3, <2>5, <2>6 DEF Knows, Calls, HandleInv, Agrees
  <2> HIDE DEF x
  <2> QED
    BY <1>1, <2>1, <2>2, <2>7, CallOnlyMovesOn DEF x
<1> QED
  BY <1>2, <1>3

LEMMA GetInv == ASSUME HandleInv, CountersOK', NEW c \in Callers, Get(c) PROVE HandleInv'
<1> DEFINE last == call[c].rev.size - 1
           good == First(c) <= last /\ RangeAsked(c, last)
<1>1. call[c].at = "get" /\ UNCHANGED <<obj, base, wrote>>
  BY DEF Get
<1>2. CASE Fails(c, ~ good)
  BY <1>1, <1>2, FailsInv
<1>3. CASE ~ Fails(c, ~ good)
  <2>1. good /\ call' = [call EXCEPT ![c].at = "body"] /\ UNCHANGED <<doc, nextId>>
    BY <1>3 DEF Get
  <2>2. call[c] \in Reading /\ obj[c] \in Handle /\ obj[c] # None
    BY <1>1, CallKinds, NothingAssumption DEF HandleInv
  <2> DEFINE x == [call[c] EXCEPT !.at = "body"]
  <2>3. /\ x \in Reading /\ x.at = "body" /\ x.expect = call[c].expect /\ x.meta = call[c].meta
        /\ x.rev = call[c].rev /\ x.suffix = call[c].suffix
    BY <2>2 DEF Reading
  <2>4. Knows(c, x)
    BY <1>1, <2>2, <2>3 DEF Knows, Calls, HandleInv, Agrees, ServesAsked
  <2>5. call' = [call EXCEPT ![c] = x]
    BY <2>1
  <2> HIDE DEF x
  <2> QED
    BY <1>1, <2>1, <2>4, <2>5, CallOnlyMovesOn
<1> QED
  BY <1>2, <1>3

LEMMA CloseInv == ASSUME HandleInv, CountersOK', NEW c \in Callers, Close(c) PROVE HandleInv'
BY IdleKnows, CallOnlyMovesOn DEF Close, Return

LEMMA RelocateInv == ASSUME HandleInv, CountersOK', NEW c \in Callers, Relocate(c) PROVE HandleInv'
<1>1. call[c] = Idle /\ obj[c] # None /\ UNCHANGED <<doc, nextId, obj, base, wrote>>
  BY DEF Relocate, Begins
<1>2. CASE UNCHANGED call
  <2>1. call' = [call EXCEPT ![c] = Idle]
    BY <1>1, <1>2 DEF HandleInv, Types
  <2> QED
    BY <1>1, <2>1, IdleKnows, CallOnlyMovesOn
<1>3. CASE ~ UNCHANGED call
  <2>1. PICK op \in {"move", "sync-move"}, to \in Places :
          call' = [call EXCEPT ![c] = [op |-> op, at |-> "relocate", to |-> to]]
    BY <1>3 DEF Relocate
  <2> DEFINE x == [op |-> op, at |-> "relocate", to |-> to]
  <2>2. x \in Relocating
    BY <2>1 DEF Relocating
  <2>3. Knows(c, x)
    BY <1>1, <2>2 DEF Knows, Calls
  <2> HIDE DEF x
  <2> QED
    BY <1>1, <2>1, <2>3, CallOnlyMovesOn DEF x
<1> QED
  BY <1>2, <1>3

\* A move leaves a well-formed library, whichever of the two requests it is.
LEMMA RelocatedService ==
    ASSUME HandleInv, NEW c \in Callers, Relocated(c)
    PROVE  /\ doc' \in [Ids -> Docs \union {Gone}]
           /\ nextId' \in 1 .. MaxId + 1 /\ nextId <= nextId'
           /\ \A i \in Ids : i >= nextId' => doc'[i] = Gone
<1> DEFINE i == obj[c].id
<1>1. /\ doc \in [Ids -> Docs \union {Gone}] /\ nextId \in 1 .. MaxId + 1 /\ MaxId \in Nat
      /\ \A j \in Ids : j >= nextId => doc[j] = Gone
  BY BoundsAssumption DEF HandleInv, Types, TypeOK, Fresh
<1>2. call[c] \in Relocating /\ obj[c] \in Handle
  BY CallKinds DEF HandleInv, Relocated
<1>3. CASE UNCHANGED <<doc, nextId>>
  BY <1>1, <1>3
<1>4. CASE ~ UNCHANGED <<doc, nextId>>
  <2>1. Exists(i) /\ i \in Ids
    BY <1>2, <1>4 DEF Relocated, Fails, Handle
  <2>2. Target(c) \in Places
    BY <1>2, <2>1, ServiceTypes DEF Target, NewName, Relocating, Places, HandleInv, Docs
  <2>3. i < nextId /\ doc[i] \in Docs
    BY <2>1, ServiceTypes DEF HandleInv
  <2>4. CASE doc' = [doc EXCEPT ![i].place = Target(c)] /\ UNCHANGED nextId
    <3>1. doc' \in [Ids -> Docs \union {Gone}]
      BY <2>1, <2>2, <2>4, ServiceTypes DEF HandleInv
    <3>2. \A j \in Ids : j # i => doc'[j] = doc[j]
      BY <1>1, <2>4
    <3> QED
      BY <1>1, <2>1, <2>3, <2>4, <3>1, <3>2 DEF Ids
  <2>5. CASE nextId \in Ids /\ nextId' = nextId + 1 /\ MoveTo(i, Target(c))
    <3>1. doc' \in [Ids -> Docs \union {Gone}]
      BY <2>1, <2>2, <2>5, ServiceTypes DEF HandleInv
    <3>2. \A j \in Ids : j # i /\ j # nextId => doc'[j] = doc[j]
      BY <1>1, <2>5 DEF MoveTo
    <3> QED
      BY <1>1, <2>1, <2>3, <2>5, <3>1, <3>2 DEF Ids
  <2> QED
    BY <1>4, <2>4, <2>5 DEF Relocated, Fails
<1> QED
  BY <1>3, <1>4

LEMMA RelocatedInv == ASSUME HandleInv, CountersOK', NEW c \in Callers, Relocated(c) PROVE HandleInv'
<1>1. /\ call[c] \in Relocating /\ obj[c] \in Handle /\ obj[c] # None
      /\ call' = [call EXCEPT ![c] = Idle] /\ UNCHANGED <<base, wrote>>
  BY CallKinds, NothingAssumption DEF HandleInv, Relocated, Fails, Return
<1>2. /\ doc' \in [Ids -> Docs \union {Gone}]
      /\ nextId' \in 1 .. MaxId + 1 /\ nextId <= nextId'
      /\ \A i \in Ids : i >= nextId' => doc'[i] = Gone
  BY RelocatedService
<1>3. PICK h \in Handle : /\ obj' = [obj EXCEPT ![c] = h]
                          /\ h.rev = obj[c].rev /\ h.size = obj[c].size
  <2>1. CASE UNCHANGED obj
    <3>1. obj' = [obj EXCEPT ![c] = obj[c]]
      BY <2>1 DEF HandleInv, Types, TypeOK
    <3> QED
      BY <1>1, <3>1
  <2>2. CASE ~ UNCHANGED obj
    <3>1. PICK new \in Ids : obj' = [obj EXCEPT ![c] = MovedObject(c, new, call[c].to)]
      BY <1>1, <2>2 DEF Relocated, Handle
    <3>2. MovedObject(c, new, call[c].to) \in Handle
      BY <1>1 DEF MovedObject, Moved, Handle, Relocating
    <3>3. /\ MovedObject(c, new, call[c].to).rev = obj[c].rev
          /\ MovedObject(c, new, call[c].to).size = obj[c].size
      BY <1>1 DEF MovedObject, Moved, Handle
    <3> QED
      BY <3>1, <3>2, <3>3
  <2> QED
    BY <2>1, <2>2
<1>4. base[c] = obj[c].rev /\ (base[c] # NoRev => obj[c].size = base[c].size)
  BY <1>1 DEF HandleInv, Based
<1>5. base' = [base EXCEPT ![c] = base[c]]
  BY <1>1 DEF HandleInv, Types, TypeOK
<1>6. Types'
  <2>1. call' \in [Callers -> Calls] /\ \A d \in Callers : call'[d].at \in Points
    BY <1>1 DEF HandleInv, Types, Calls, TypeOK, Idle, Points
  <2>2. obj' \in [Callers -> Handle \union {None}]
    BY <1>3 DEF HandleInv, Types, TypeOK
  <2>3. Holds'
    BY <1>1, <1>3, NothingAssumption DEF HandleInv, Types, Holds, TypeOK
  <2> QED
    BY <1>1, <1>2, <2>1, <2>2, <2>3 DEF HandleInv, Types, TypeOK, CountersOK, Fresh
<1>7. call'[c] = Idle /\ \A d \in Callers : d # c => call'[d] = call[d]
  BY <1>1 DEF HandleInv, Types
<1> QED
  BY <1>3, <1>4, <1>5, <1>6, <1>7, ObjectMovesOn

LEMMA UpdateInv == ASSUME HandleInv, CountersOK', NEW c \in Callers, Update(c) PROVE HandleInv'
<1>1. call[c] = Idle /\ obj[c] # None /\ UNCHANGED <<doc, nextId, obj, base, wrote>>
  BY DEF Update, Begins
<1>2. CASE UNCHANGED call
  <2>1. call' = [call EXCEPT ![c] = Idle]
    BY <1>1, <1>2 DEF HandleInv, Types
  <2> QED
    BY <1>1, <2>1, IdleKnows, CallOnlyMovesOn
<1>3. CASE call' = [call EXCEPT ![c] = [op |-> "update", at |-> "upload"]]
  <2> DEFINE x == [op |-> "update", at |-> "upload"]
  <2>1. x \in Uploading
    BY DEF Uploading
  <2>2. Knows(c, x)
    BY <1>1, <2>1 DEF Knows, Calls
  <2> HIDE DEF x
  <2> QED
    BY <1>1, <1>3, <2>2, CallOnlyMovesOn DEF x
<1> QED
  BY <1>2, <1>3 DEF Update

\* What osendupload does to the library, when it does anything.
LEMMA Uploaded ==
    ASSUME HandleInv, NEW c \in Callers, EndUpload(c), ~ Fails(c, ~ (Exists(obj[c].id) /\ EditAllowed(c)))
    PROVE  /\ Exists(obj[c].id) /\ obj[c].id \in Ids /\ obj[c].id < nextId
           /\ nextId \in Ids /\ nextId' = nextId + 1 /\ nextId' \in 1 .. MaxId + 1
           /\ doc' \in [Ids -> Docs \union {Gone}] /\ Fresh'
           /\ obj[c] # None
           /\ \E r \in Revs :
                /\ r.n = nextId /\ Write(obj[c].id, r)
                /\ \/ call' = [call EXCEPT ![c] = [op |-> "update", at |-> "adopt", rev |-> r]]
                   \/ Return(c)
<1> DEFINE i == obj[c].id
           Rev(s) == [n |-> nextId, size |-> s]
<1>1. obj[c] \in Handle /\ obj[c] # None
  BY CallKinds, NothingAssumption DEF EndUpload, HandleInv
<1>2. Exists(i) /\ i \in Ids /\ nextId \in Ids /\ nextId' = nextId + 1
  BY <1>1 DEF EndUpload, Handle
<1>3. PICK s \in Sizes :
        /\ Write(i, Rev(s))
        /\ \/ call' = [call EXCEPT ![c] = [op |-> "update", at |-> "adopt", rev |-> Rev(s)]]
           \/ Return(c)
  BY DEF EndUpload
<1>4. Rev(s) \in Revs /\ Rev(s).n = nextId
  BY <1>2 DEF Revs
<1>5. i < nextId /\ doc' \in [Ids -> Docs \union {Gone}] /\ nextId' \in 1 .. MaxId + 1
  BY <1>2, <1>3, <1>4, ServiceTypes, BoundsAssumption DEF HandleInv, Ids
<1>6. Fresh'
  <2>1. \A j \in Ids : j # i => doc'[j] = doc[j]
    BY <1>2, <1>3 DEF HandleInv, Types, TypeOK, Write
  <2> QED
    BY <1>2, <1>5, <2>1, BoundsAssumption DEF HandleInv, Types, Fresh, Ids
<1> QED
  BY <1>1, <1>2, <1>3, <1>4, <1>5, <1>6

LEMMA EndUploadInv == ASSUME HandleInv, CountersOK', NEW c \in Callers, EndUpload(c) PROVE HandleInv'
<1>1. UNCHANGED <<obj, base, wrote>>
  BY DEF EndUpload
<1>2. CASE Fails(c, ~ (Exists(obj[c].id) /\ EditAllowed(c)))
  BY <1>1, <1>2, FailsInv
<1>3. CASE ~ Fails(c, ~ (Exists(obj[c].id) /\ EditAllowed(c)))
  <2>1. /\ doc' \in [Ids -> Docs \union {Gone}] /\ nextId' \in 1 .. MaxId + 1 /\ Fresh'
        /\ obj[c] # None
    BY <1>3, Uploaded
  <2>2. PICK r \in Revs : \/ call' = [call EXCEPT ![c] = [op |-> "update", at |-> "adopt", rev |-> r]]
                          \/ Return(c)
    BY <1>3, Uploaded
  <2> DEFINE x == [op |-> "update", at |-> "adopt", rev |-> r]
  <2>3. x \in Adopting
    BY DEF Adopting
  <2>4. Knows(c, x)
    BY <2>1, <2>3 DEF Knows, Calls
  <2>5. \E y : Knows(c, y) /\ call' = [call EXCEPT ![c] = y]
    BY <2>2, <2>4, IdleKnows DEF Return
  <2> QED
    BY <1>1, <2>1, <2>5, CallMovesOn
<1> QED
  BY <1>2, <1>3

\* The object after the metadata request: of the document it was, with the
\* revision the answer told.
LEMMA AdoptedObject ==
    ASSUME HandleInv, NEW c \in Callers, AdoptMetadata(c), ~ Fails(c, ~ Exists(obj[c].id))
    PROVE  /\ Exists(obj[c].id) /\ UNCHANGED <<doc, nextId>>
           /\ call[c] \in Adopting /\ call' = [call EXCEPT ![c] = Idle]
           /\ wrote' = [wrote EXCEPT ![c] = call[c].rev]
           /\ \E r \in {doc[obj[c].id].rev, NoRev}, h \in Handle :
                /\ obj' = [obj EXCEPT ![c] = h] /\ base' = [base EXCEPT ![c] = r]
                /\ h.id = obj[c].id /\ h.rev = r /\ h.size = doc[obj[c].id].rev.size
<1> DEFINE i == obj[c].id
<1>1. call[c] \in Adopting /\ obj[c] \in Handle
  BY CallKinds DEF AdoptMetadata, HandleInv
<1>2. /\ Exists(i) /\ UNCHANGED <<doc, nextId>> /\ Return(c)
      /\ wrote' = [wrote EXCEPT ![c] = call[c].rev]
  BY DEF AdoptMetadata
<1>3. PICK r \in {doc[i].rev, NoRev} : obj' = Adopted(c, r) /\ base' = [base EXCEPT ![c] = r]
  BY DEF AdoptMetadata
<1>4. doc[i] \in Docs
  BY <1>1, <1>2, ServiceTypes DEF HandleInv, Handle
<1> DEFINE h == [obj[c] EXCEPT !.rev = r, !.size = doc[i].rev.size]
<1>5. h \in Handle /\ h.id = i /\ h.rev = r /\ h.size = doc[i].rev.size
  BY <1>1, <1>3, <1>4 DEF Handle, Docs, Revs
<1>6. obj' = [obj EXCEPT ![c] = h]
  BY <1>3 DEF Adopted, HandleInv, Types, TypeOK
<1> HIDE DEF h
<1> QED
  BY <1>1, <1>2, <1>3, <1>5, <1>6 DEF Return

LEMMA AdoptMetadataInv ==
    ASSUME HandleInv, CountersOK', NEW c \in Callers, AdoptMetadata(c) PROVE HandleInv'
<1>1. CASE Fails(c, ~ Exists(obj[c].id))
  <2>1. UNCHANGED <<obj, base, wrote>>
    BY <1>1, BoundsAssumption DEF AdoptMetadata, Fails, Fault, HandleInv, Types, TypeOK
  <2> QED
    BY <1>1, <2>1, FailsInv
<1>2. CASE ~ Fails(c, ~ Exists(obj[c].id))
  <2>1. /\ Exists(obj[c].id) /\ UNCHANGED <<doc, nextId>>
        /\ call[c] \in Adopting /\ call' = [call EXCEPT ![c] = Idle]
        /\ wrote' = [wrote EXCEPT ![c] = call[c].rev]
    BY <1>2, AdoptedObject
  <2>2. PICK r \in {doc[obj[c].id].rev, NoRev}, h \in Handle :
          /\ obj' = [obj EXCEPT ![c] = h] /\ base' = [base EXCEPT ![c] = r]
          /\ h.id = obj[c].id /\ h.rev = r /\ h.size = doc[obj[c].id].rev.size
    BY <1>2, AdoptedObject
  <2>3. r \in Revs \union {NoRev} /\ h # None /\ (r # NoRev => h.size = r.size)
    <3>1. obj[c] \in Handle
      BY <2>1, CallKinds DEF AdoptMetadata, HandleInv
    <3>2. doc[obj[c].id] \in Docs
      BY <2>1, <3>1, ServiceTypes DEF HandleInv, Handle
    <3> QED
      BY <2>2, <3>2, NothingAssumption DEF Docs
  <2>4. Types'
    <3>1. /\ obj' \in [Callers -> Handle \union {None}] /\ base' \in [Callers -> Revs \union {NoRev}]
          /\ wrote' \in [Callers -> Revs \union {NoRev}]
      BY <2>1, <2>2, <2>3 DEF HandleInv, Types, TypeOK, Adopting
    <3>2. call' \in [Callers -> Calls] /\ \A d \in Callers : call'[d].at \in Points
      BY <2>1 DEF HandleInv, Types, Calls, TypeOK, Idle, Points
    <3>3. Holds'
      BY <2>1, <2>2, <2>3 DEF HandleInv, Types, Holds, TypeOK
    <3> QED
      BY <2>1, <3>1, <3>2, <3>3 DEF HandleInv, Types, TypeOK, CountersOK, Fresh
  <2>5. call'[c] = Idle /\ \A d \in Callers : d # c => call'[d] = call[d]
    BY <2>1 DEF HandleInv, Types
  <2> QED
    BY <2>2, <2>3, <2>4, <2>5, ObjectMovesOn
<1> QED
  BY <1>1, <1>2

LEMMA RemoveInv == ASSUME HandleInv, CountersOK', NEW c \in Callers, Remove(c) PROVE HandleInv'
<1>1. obj[c] \in Handle /\ UNCHANGED <<nextId, obj, base, wrote, call>>
  BY DEF Remove, HandleInv, Types, TypeOK
<1>2. /\ doc \in [Ids -> Docs \union {Gone}] /\ nextId \in 1 .. MaxId + 1
      /\ doc' = doc \/ doc' = [doc EXCEPT ![obj[c].id] = Gone]
      /\ \A i \in Ids : i >= nextId => doc[i] = Gone
  BY DEF Remove, HandleInv, Types, TypeOK, Fresh
<1>3. doc' \in [Ids -> Docs \union {Gone}] /\ \A i \in Ids : i >= nextId => doc'[i] = Gone
  BY <1>1, <1>2 DEF Handle
<1>4. nextId' \in 1 .. MaxId + 1 /\ nextId <= nextId'
  BY <1>1, <1>2, BoundsAssumption
<1> QED
  BY <1>1, <1>3, <1>4, ServiceMovesOn

LEMMA ForeignInv == ASSUME HandleInv, CountersOK', ForeignChange PROVE HandleInv'
<1>1. /\ doc \in [Ids -> Docs \union {Gone}] /\ nextId \in 1 .. MaxId + 1 /\ MaxId \in Nat
      /\ \A i \in Ids : i >= nextId => doc[i] = Gone
      /\ UNCHANGED <<obj, base, wrote, call>>
  BY BoundsAssumption DEF ForeignChange, HandleInv, Types, TypeOK, Fresh
<1>2. /\ doc' \in [Ids -> Docs \union {Gone}] /\ nextId' \in {nextId, nextId + 1}
      /\ nextId' # nextId => nextId \in Ids
      /\ \A i \in Ids : i >= nextId' => doc'[i] = Gone
  <2>1. CASE \E i \in Ids : Exists(i) /\ doc' = [doc EXCEPT ![i] = Gone] /\ UNCHANGED nextId
    BY <1>1, <2>1
  <2>2. CASE \E i \in Ids, p \in Places :
               Exists(i) /\ doc' = [doc EXCEPT ![i].place = p] /\ UNCHANGED nextId
    <3>1. PICK i \in Ids, p \in Places :
               Exists(i) /\ doc' = [doc EXCEPT ![i].place = p] /\ UNCHANGED nextId
      BY <2>2
    <3>2. i < nextId /\ doc' \in [Ids -> Docs \union {Gone}]
      BY <3>1, ServiceTypes DEF HandleInv
    <3>3. \A j \in Ids : j # i => doc'[j] = doc[j]
      BY <1>1, <3>1
    <3> QED
      BY <1>1, <3>1, <3>2, <3>3 DEF Ids
  <2>3. CASE nextId \in Ids /\ nextId' = nextId + 1
             /\ \E i \in Ids, s \in Sizes : Exists(i) /\ Write(i, [n |-> nextId, size |-> s])
    <3>1. PICK i \in Ids, s \in Sizes : Exists(i) /\ Write(i, [n |-> nextId, size |-> s])
      BY <2>3
    <3>2. [n |-> nextId, size |-> s] \in Revs
      BY <2>3 DEF Revs
    <3>3. i < nextId /\ doc' \in [Ids -> Docs \union {Gone}]
      BY <3>1, <3>2, ServiceTypes DEF HandleInv
    <3>4. \A j \in Ids : j # i => doc'[j] = doc[j]
      BY <1>1, <3>1 DEF Write
    <3> QED
      BY <1>1, <2>3, <3>3, <3>4 DEF Ids
  <2>4. CASE nextId \in Ids /\ nextId' = nextId + 1
             /\ \E i \in Ids, p \in Places : Exists(i) /\ MoveTo(i, p)
    <3>1. PICK i \in Ids, p \in Places : Exists(i) /\ MoveTo(i, p)
      BY <2>4
    <3>2. i < nextId /\ doc' \in [Ids -> Docs \union {Gone}]
      BY <2>4, <3>1, ServiceTypes DEF HandleInv
    <3>3. \A j \in Ids : j # i /\ j # nextId => doc'[j] = doc[j]
      BY <1>1, <3>1 DEF MoveTo
    <3> QED
      BY <1>1, <2>4, <3>2, <3>3 DEF Ids
  <2>5. CASE nextId \in Ids /\ nextId' = nextId + 1
             /\ \E p \in Places, s \in Sizes :
                  doc' = [doc EXCEPT ![nextId] = NewFile(p, [n |-> nextId, size |-> s])]
    <3>1. PICK p \in Places, s \in Sizes :
            doc' = [doc EXCEPT ![nextId] = NewFile(p, [n |-> nextId, size |-> s])]
      BY <2>5
    <3>2. NewFile(p, [n |-> nextId, size |-> s]) \in Docs
      BY <2>5, NewFileType
    <3>3. doc' \in [Ids -> Docs \union {Gone}] /\ \A j \in Ids : j # nextId => doc'[j] = doc[j]
      BY <1>1, <3>1, <3>2
    <3> QED
      BY <1>1, <2>5, <3>3 DEF Ids
  <2> QED
    BY <2>1, <2>2, <2>3, <2>4, <2>5 DEF ForeignChange
<1>3. nextId' \in 1 .. MaxId + 1 /\ nextId <= nextId'
  BY <1>1, <1>2 DEF Ids
<1> QED
  BY <1>1, <1>2, <1>3, ServiceMovesOn

LEMMA NextInv == HandleInv /\ [Next]_vars => HandleInv'
<1> SUFFICES ASSUME HandleInv, [Next]_vars PROVE HandleInv'
  OBVIOUS
<1>1. ASSUME UNCHANGED vars PROVE HandleInv'
  BY <1>1 DEF vars, HandleInv, Types, TypeOK, Holds, Fresh, Based, Agrees, ServesAsked,
     Allows
<1>2. ASSUME NEW c \in Callers, Step(c) PROVE HandleInv'
  <2>1. CountersOK'
    BY <1>2, Counters DEF Next
  <2> QED
    BY <1>2, <2>1, FindInv, OpenInv, FetchMetadataInv, SignURLInv, GetInv, CloseInv,
       RelocateInv, RelocatedInv, UpdateInv, EndUploadInv, AdoptMetadataInv, RemoveInv DEF Step
<1>3. ASSUME ForeignChange PROVE HandleInv'
  BY <1>3, Counters, ForeignInv DEF Next
<1> QED
  BY <1>1, <1>2, <1>3 DEF Next, Terminated

THEOREM HandleInvariant == Spec => []HandleInv
BY InitTypes, NextInv, PTL DEF Spec

-----------------------------------------------------------------------------
(* Theorems *)

\* Documents, objects and calls have the types that the module says.
THEOREM HandlesTyped == Spec => []TypeOK
<1>1. HandleInv => TypeOK
  BY DEF HandleInv, Types
<1> QED
  BY <1>1, HandleInvariant, PTL

\* The body that a caller reads is the version of the preconditions, and the one
\* its object was found with or adopted last, whatever changed while the URL was on its way.
THEOREM BodyIsVersion == Spec => []ReadsVersion
<1>1. HandleInv => ReadsVersion
  <2> SUFFICES ASSUME HandleInv, NEW c \in Callers, call[c].at = "body"
               PROVE  /\ call[c].expect # None =>
                           call[c].expect = [id |-> call[c].meta.id, rev |-> call[c].rev]
                      /\ base[c] # NoRev => call[c].rev = base[c] /\ obj[c].size = call[c].rev.size
    BY DEF ReadsVersion
  <2>1. /\ call[c] \in Reading /\ call[c].expect \in {None, call[c].meta}
        /\ base[c] # NoRev => call[c].meta.rev = base[c] /\ obj[c].size = base[c].size
        /\ call[c].meta.rev # NoRev => call[c].rev = call[c].meta.rev
    BY CallKinds DEF HandleInv, Agrees, Allows, ServesAsked, Based
  <2>2. ASSUME call[c].expect # None
        PROVE  call[c].expect = [id |-> call[c].meta.id, rev |-> call[c].rev]
    <3>1. call[c].expect = call[c].meta /\ call[c].meta \in [id : Ids, rev : Revs]
      BY <2>1, <2>2 DEF Reading, Preconditions
    <3>2. call[c].meta.rev # NoRev
      BY <3>1, NothingAssumption
    <3> QED
      BY <2>1, <3>1, <3>2
  <2> QED
    BY <2>1, <2>2
<1> QED
  BY <1>1, HandleInvariant, PTL

\* A call changes by a step of its own caller.
LEMMA OnlyOwnCall ==
    ASSUME HandleInv, Next, NEW c \in Callers, call'[c] # call[c]
    PROVE  Step(c)
<1>1. ASSUME NEW d \in Callers, Step(d), d # c PROVE call'[c] = call[c]
  <2> USE DEF HandleInv, Types
  <2>1. CASE Find(d) \/ Open(d) \/ FetchMetadata(d) \/ SignURL(d)
    BY <1>1, <2>1 DEF Find, Open, FetchMetadata, SignURL, Opened, Fails, Return, Begins
  <2>2. CASE Get(d) \/ Close(d) \/ Relocate(d) \/ Relocated(d)
    BY <1>1, <2>2 DEF Get, Close, Relocate, Relocated, Fails, Return
  <2>3. CASE Update(d) \/ EndUpload(d) \/ AdoptMetadata(d) \/ Remove(d)
    BY <1>1, <2>3 DEF Update, EndUpload, AdoptMetadata, Remove, Fails, Return
  <2> QED
    BY <1>1, <2>1, <2>2, <2>3 DEF Step
<1> QED
  BY <1>1 DEF Next, ForeignChange, Terminated, vars

\* sync-move puts a file where it was told to, whatever other clients renamed
\* meanwhile.  Move does so for a file that is still where the object says; one
\* that others renamed or moved since it was found is not in the statement.
THEOREM RelocationLands == Spec => MovesThere
<1> DEFINE Lands(c) ==
             /\ call[c].at = "relocate" /\ call'[c] # call[c] /\ doc' # doc
             /\ call[c].op = "move" => doc[obj[c].id].place = obj[c].remote
             => \E i \in Ids : doc'[i] # doc[i] /\ doc'[i] # Gone /\ doc'[i].place = call[c].to
<1>1. ASSUME HandleInv, Next, NEW c \in Callers PROVE Lands(c)
  <2> DEFINE i == obj[c].id
  <2> SUFFICES ASSUME call[c].at = "relocate", call'[c] # call[c], doc' # doc,
                      call[c].op = "move" => doc[i].place = obj[c].remote
               PROVE  \E j \in Ids : doc'[j] # doc[j] /\ doc'[j] # Gone /\ doc'[j].place = call[c].to
    OBVIOUS
  <2>1. call[c] \in Relocating /\ obj[c] \in Handle
    BY <1>1, CallKinds DEF HandleInv
  <2>2. Relocated(c)
    <3>1. Step(c)
      BY <1>1, OnlyOwnCall
    <3> QED
      BY <3>1, <2>1 DEF Step, Find, Open, FetchMetadata, SignURL, Get, Close, Relocate, Update,
         EndUpload, AdoptMetadata, Remove, Begins, Idle, Fails
  <2>3. Exists(i) /\ i \in Ids
    BY <2>1, <2>2 DEF Relocated, Fails, Handle
  <2>4. doc[i] \in Docs /\ i < nextId /\ doc \in [Ids -> Docs \union {Gone}]
    BY <1>1, <2>3, ServiceTypes DEF HandleInv, Types, TypeOK
  <2>5. Target(c) = call[c].to
    <3>1. call[c].to \in Places /\ obj[c].remote \in Places /\ call[c].op \in {"move", "sync-move"}
      BY <2>1 DEF Relocating, Handle
    <3>2. call[c].to = [dir |-> call[c].to.dir, name |-> call[c].to.name] /\ call[c].to.name # None
      BY <3>1, NothingAssumption DEF Places
    <3> QED
      BY <3>1, <3>2 DEF Target, NewName
  <2>6. CASE doc' = [doc EXCEPT ![i].place = Target(c)]
    <3>1. doc'[i] = [doc[i] EXCEPT !.place = call[c].to] /\ \A j \in Ids : j # i => doc'[j] = doc[j]
      BY <2>3, <2>4, <2>5, <2>6
    <3>2. doc'[i] # doc[i]
      BY <2>3, <2>4, <2>6, <3>1
    <3>3. doc'[i] \in Docs /\ doc'[i].place = call[c].to
      BY <2>1, <2>4, <3>1 DEF Docs, Relocating
    <3> QED
      BY <2>3, <3>2, <3>3, NothingAssumption
  <2>7. CASE nextId \in Ids /\ MoveTo(i, Target(c))
    <3>1. doc'[nextId] = [doc[i] EXCEPT !.place = call[c].to]
      BY <2>4, <2>5, <2>7 DEF MoveTo
    <3>2. doc'[nextId] \in Docs /\ doc'[nextId].place = call[c].to
      BY <2>1, <2>4, <3>1 DEF Docs, Relocating
    <3>3. doc[nextId] = Gone
      BY <1>1, <2>7 DEF HandleInv, Types, Fresh, Ids
    <3> QED
      BY <2>7, <3>2, <3>3, NothingAssumption
  <2> QED
    BY <2>2, <2>6, <2>7 DEF Relocated, Fails
<1>2. ASSUME HandleInv, [Next]_vars PROVE [\A c \in Callers : Lands(c)]_vars
  BY <1>1, <1>2
<1>3. [][\A c \in Callers : Lands(c)]_vars => MovesThere
  BY PTL DEF MovesThere
<1> QED
  BY <1>2, <1>3, HandleInvariant, PTL DEF Spec

\* An upload through an object that was found with its revision, or adopted one,
\* replaces that revision.
THEOREM UpdateReplaces == Spec => ReplacesBase
<1> DEFINE Replaces(c) ==
             call[c].at = "upload" /\ call'[c] # call[c] /\ doc' # doc /\ base[c] # NoRev
             => doc[obj[c].id].rev = base[c]
<1>1. ASSUME HandleInv, Next, NEW c \in Callers PROVE Replaces(c)
  <2> SUFFICES ASSUME call[c].at = "upload", call'[c] # call[c], doc' # doc, base[c] # NoRev
               PROVE  doc[obj[c].id].rev = base[c]
    OBVIOUS
  <2>1. EndUpload(c)
    <3>1. Step(c)
      BY <1>1, OnlyOwnCall
    <3> QED
      BY <3>1 DEF Step, Find, Open, FetchMetadata, SignURL, Get, Close, Relocate, Relocated,
         Update, AdoptMetadata, Remove, Begins, Idle
  <2>2. obj[c].rev = base[c]
    <3>1. obj[c] # None
      BY <1>1, CallKinds, NothingAssumption DEF HandleInv
    <3> QED
      BY <1>1, <3>1 DEF HandleInv, Based
  <2> QED
    BY <2>1, <2>2 DEF EndUpload, EditAllowed, Fails
<1>2. ASSUME HandleInv, [Next]_vars PROVE [\A c \in Callers : Replaces(c)]_vars
  BY <1>1, <1>2
<1>3. [][\A c \in Callers : Replaces(c)]_vars => ReplacesBase
  BY PTL DEF ReplacesBase
<1> QED
  BY <1>2, <1>3, HandleInvariant, PTL DEF Spec

-----------------------------------------------------------------------------
(* What was written is not lost from sight *)

\* The document of ID i is the n-th version of anything, or a newer one, as long
\* as it exists; it can never be an older one again.
Held(i, n) == i < nextId /\ n < nextId /\ (Exists(i) => doc[i].rev.n >= n)

\* The same after a step.
HeldNext(i, n) == i < nextId' /\ n < nextId' /\ (doc'[i] # Gone => doc'[i].rev.n >= n)

\* The document of an object whose Update wrote a version has that one or a newer
\* one, and so has the object.
Owns(c) ==
    /\ call[c].at = "adopt" => Held(obj[c].id, call[c].rev.n)
    /\ wrote[c] # NoRev =>
         /\ obj[c] # None
         /\ Held(obj[c].id, wrote[c].n)
         /\ obj[c].rev # NoRev => obj[c].rev.n >= wrote[c].n

\* So has what a download knows of the file already.
Awaits(c, x) ==
    wrote[c] # NoRev =>
      /\ x.at \in {"url", "get", "body"} =>
           IF x.meta.rev = NoRev THEN x.meta.id = obj[c].id ELSE x.meta.rev.n >= wrote[c].n
      /\ x.at \in {"get", "body"} => x.rev.n >= wrote[c].n

WritesInv == \A c \in Callers : Owns(c) /\ Awaits(c, call[c])

\* Documents only get newer: by writes, and IDs are not used again.
LEMMA HeldStays ==
    ASSUME HandleInv, HandleInv', Next, NEW i \in Ids, NEW n \in Nat, Held(i, n)
    PROVE  HeldNext(i, n)
<1>1. doc \in [Ids -> Docs \union {Gone}] /\ nextId \in Nat /\ i \in Nat /\ nextId' \in Nat
  BY BoundsAssumption DEF HandleInv, Types, TypeOK, Ids
<1>2. i < nextId /\ n < nextId /\ (Exists(i) => doc[i].rev.n >= n)
  BY DEF Held
<1>3. ASSUME nextId' \in {nextId, nextId + 1},
             \/ doc'[i] = Gone
             \/ Exists(i) /\ (doc'[i].rev = doc[i].rev \/ doc'[i].rev.n = nextId)
      PROVE  HeldNext(i, n)
  BY <1>1, <1>2, <1>3 DEF HeldNext, Exists
<1>4. ASSUME UNCHANGED <<doc, nextId>> PROVE HeldNext(i, n)
  BY <1>2, <1>4 DEF HeldNext, Exists
<1>5. ASSUME NEW j \in Ids, NEW r \in Revs, r.n = nextId, Exists(j), Write(j, r), nextId' = nextId + 1
      PROVE  HeldNext(i, n)
  <2>1. doc[j] \in Docs
    BY <1>5, ServiceTypes DEF HandleInv
  <2>2. IF j = i THEN doc'[i].rev = r ELSE doc'[i] = doc[i]
    BY <1>1, <1>5, <2>1 DEF Write, Docs
  <2> QED
    BY <1>3, <1>5, <2>2 DEF Exists
<1>6. ASSUME NEW j \in Ids, NEW p \in Places, Exists(j), UNCHANGED nextId,
             doc' = [doc EXCEPT ![j].place = p]
      PROVE  HeldNext(i, n)
  <2>1. doc[j] \in Docs
    BY <1>6, ServiceTypes DEF HandleInv
  <2>2. doc'[i] = doc[i] \/ (j = i /\ doc'[i].rev = doc[i].rev)
    BY <1>1, <1>6, <2>1 DEF Docs
  <2> QED
    BY <1>3, <1>6, <2>2 DEF Exists
<1>7. ASSUME NEW j \in Ids, NEW p, MoveTo(j, p), nextId' = nextId + 1
      PROVE  HeldNext(i, n)
  <2>1. doc'[i] = Gone \/ doc'[i] = doc[i]
    BY <1>1, <1>2, <1>7 DEF MoveTo
  <2> QED
    BY <1>3, <1>7, <2>1 DEF Exists
<1>8. ASSUME NEW j, UNCHANGED nextId, doc' = [doc EXCEPT ![j] = Gone] PROVE HeldNext(i, n)
  <2>1. doc'[i] = Gone \/ doc'[i] = doc[i]
    BY <1>1, <1>8
  <2> QED
    BY <1>3, <1>8, <2>1 DEF Exists
<1>9. ASSUME NEW f, doc' = [doc EXCEPT ![nextId] = f], nextId' = nextId + 1 PROVE HeldNext(i, n)
  <2>1. doc'[i] = doc[i]
    BY <1>1, <1>2, <1>9
  <2> QED
    BY <1>3, <1>9, <2>1 DEF Exists
<1> HIDE DEF HandleInv
<1>10. ASSUME NEW c \in Callers, Step(c) PROVE HeldNext(i, n)
  <2>1. CASE Find(c) \/ Open(c) \/ FetchMetadata(c) \/ SignURL(c) \/ Get(c) \/ Close(c) \/ Relocate(c)
             \/ Update(c)
    BY <1>4, <2>1 DEF Find, Open, FetchMetadata, SignURL, Get, Close, Relocate, Update, Fails
  <2>2. CASE AdoptMetadata(c)
    BY <1>4, <2>2 DEF AdoptMetadata, Fails
  <2>3. CASE EndUpload(c)
    <3>1. CASE Fails(c, ~ (Exists(obj[c].id) /\ EditAllowed(c)))
      BY <1>4, <3>1 DEF Fails
    <3>2. CASE ~ Fails(c, ~ (Exists(obj[c].id) /\ EditAllowed(c)))
      BY <1>5, <2>3, <3>2, Uploaded
    <3> QED
      BY <3>1, <3>2
  <2>4. CASE Relocated(c)
    <3>1. call[c] \in Relocating /\ obj[c] \in Handle
      BY <2>4, CallKinds DEF HandleInv, Relocated
    <3>2. CASE UNCHANGED <<doc, nextId>>
      BY <1>4, <3>2
    <3>3. CASE ~ UNCHANGED <<doc, nextId>>
      <4>1. Exists(obj[c].id) /\ obj[c].id \in Ids
        BY <2>4, <3>1, <3>3 DEF Relocated, Fails, Handle
      <4>2. Target(c) \in Places
        BY <3>1, <4>1, ServiceTypes DEF Target, NewName, Relocating, Places, HandleInv, Docs
      <4>3. \/ doc' = [doc EXCEPT ![obj[c].id].place = Target(c)] /\ UNCHANGED nextId
            \/ MoveTo(obj[c].id, Target(c)) /\ nextId' = nextId + 1
        BY <2>4, <3>3 DEF Relocated, Fails
      <4> QED
        BY <1>6, <1>7, <4>1, <4>2, <4>3
    <3> QED
      BY <3>2, <3>3
  <2>5. CASE Remove(c)
    BY <1>4, <1>8, <2>5 DEF Remove
  <2> QED
    BY <1>10, <2>1, <2>2, <2>3, <2>4, <2>5 DEF Step
<1>11. ASSUME ForeignChange PROVE HeldNext(i, n)
  <2>1. CASE \E j \in Ids : doc' = [doc EXCEPT ![j] = Gone] /\ UNCHANGED nextId
    BY <1>8, <2>1
  <2>2. CASE \E j \in Ids, p \in Places :
               Exists(j) /\ doc' = [doc EXCEPT ![j].place = p] /\ UNCHANGED nextId
    BY <1>6, <2>2
  <2>3. CASE nextId \in Ids /\ nextId' = nextId + 1
             /\ \E j \in Ids, s \in Sizes : Exists(j) /\ Write(j, [n |-> nextId, size |-> s])
    <3>1. PICK j \in Ids, s \in Sizes : Exists(j) /\ Write(j, [n |-> nextId, size |-> s])
      BY <2>3
    <3>2. [n |-> nextId, size |-> s] \in Revs
      BY <2>3 DEF Revs
    <3> QED
      BY <1>5, <2>3, <3>1, <3>2
  <2>4. CASE nextId' = nextId + 1 /\ \E j \in Ids, p \in Places : MoveTo(j, p)
    BY <1>7, <2>4
  <2>5. CASE nextId' = nextId + 1
             /\ \E p \in Places, s \in Sizes :
                  doc' = [doc EXCEPT ![nextId] = NewFile(p, [n |-> nextId, size |-> s])]
    BY <1>9, <2>5
  <2> QED
    BY <1>11, <2>1, <2>2, <2>3, <2>4, <2>5 DEF ForeignChange
<1> QED
  BY <1>4, <1>10, <1>11 DEF Next, Terminated, vars

LEMMA OwnTypes ==
    ASSUME HandleInv, NEW c \in Callers
    PROVE  /\ wrote[c] \in Revs \union {NoRev} /\ obj[c] \in Handle \union {None}
           /\ wrote[c] # NoRev => wrote[c].n \in Nat
           /\ obj[c] # None => obj[c] \in Handle /\ obj[c].id \in Ids
<1>1. wrote[c] \in Revs \union {NoRev} /\ obj[c] \in Handle \union {None}
  BY DEF HandleInv, Types, TypeOK
<1>2. \A r \in Revs : r.n \in Nat
  BY DEF Revs, Ids
<1>3. \A h \in Handle : h.id \in Ids
  BY DEF Handle
<1> QED
  BY <1>1, <1>2, <1>3

\* A step that leaves the object as it is, and brings its call to x.
LEMMA CallKeepsWrites ==
    ASSUME HandleInv, HandleInv', Next, NEW c \in Callers, Owns(c), NEW x, Awaits(c, x),
           x.at # "adopt", call'[c] = x, obj'[c] = obj[c], wrote'[c] = wrote[c]
    PROVE  Owns(c)' /\ Awaits(c, call[c])'
<1>1. wrote[c] # NoRev => HeldNext(obj[c].id, wrote[c].n)
  BY OwnTypes, HeldStays DEF Owns
<1>2. wrote[c] # NoRev => HeldNext(obj'[c].id, wrote'[c].n)
  BY <1>1
<1>3. Owns(c)'
  BY <1>2 DEF Owns, Held, HeldNext, Exists
<1>4. Awaits(c, call[c])'
  BY DEF Awaits
<1> QED
  BY <1>3, <1>4

LEMMA IdleAwaits == ASSUME NEW c \in Callers PROVE Awaits(c, Idle) /\ Idle.at # "adopt"
BY DEF Awaits, Idle

\* The version that the service serves for what a download asks.
LEMMA ServedAwaits ==
    ASSUME HandleInv, NEW c \in Callers, Owns(c), Awaits(c, call[c]), SignURL(c), call'[c] # Idle
    PROVE  Awaits(c, call'[c]) /\ call'[c].at = "get"
<1> DEFINE meta == call[c].meta
<1>1. call[c].at = "url" /\ call \in [Callers -> Calls]
  BY DEF SignURL, HandleInv, Types
<1>2. PICK r \in Served(meta) :
        call' = [call EXCEPT ![c] = [op |-> "open", at |-> "get", expect |-> call[c].expect,
                                     meta |-> meta, suffix |-> call[c].suffix, rev |-> r]]
  BY <1>1 DEF SignURL, Fails, Return
<1>3. Exists(meta.id)
  BY <1>1 DEF SignURL, Fails, Return
<1>4. call'[c].at = "get" /\ call'[c].meta = meta /\ call'[c].rev = r
  BY <1>1, <1>2
<1>5. ASSUME wrote[c] # NoRev PROVE r.n >= wrote[c].n
  <2>1. CASE meta.rev = NoRev
    BY <1>1, <1>2, <1>3, <1>5, <2>1 DEF Served, Awaits, Owns, Held
  <2>2. CASE meta.rev # NoRev
    BY <1>1, <1>2, <1>5, <2>2 DEF Served, Awaits
  <2> QED
    BY <2>1, <2>2
<1> QED
  BY <1>1, <1>4, <1>5 DEF Awaits

LEMMA OpenedAwaits ==
    ASSUME HandleInv, NEW c \in Callers, NEW expect, NEW meta, NEW suffix,
           Opened(c, expect, meta, suffix),
           wrote[c] # NoRev => IF meta.rev = NoRev THEN meta.id = obj[c].id ELSE meta.rev.n >= wrote[c].n
    PROVE  Awaits(c, call'[c]) /\ call'[c].at # "adopt"
<1>1. call \in [Callers -> Calls]
  BY DEF HandleInv, Types
<1>2. CASE Allows(expect, meta)
  <2>1. /\ call'[c].at = "url" /\ call'[c].meta = meta
    BY <1>1, <1>2 DEF Opened
  <2> QED
    BY <2>1 DEF Awaits
<1>3. CASE ~ Allows(expect, meta)
  <2>1. call'[c] = Idle
    BY <1>1, <1>3 DEF Opened, Return
  <2> QED
    BY <2>1, IdleAwaits
<1> QED
  BY <1>2, <1>3

\* Open and the requests that follow it.
LEMMA DownloadKeeps ==
    ASSUME HandleInv, HandleInv', Next, NEW c \in Callers, Owns(c), Awaits(c, call[c]),
           Open(c) \/ FetchMetadata(c) \/ SignURL(c) \/ Get(c) \/ Close(c)
    PROVE  Owns(c)' /\ Awaits(c, call[c])'
<1>1. UNCHANGED <<obj, wrote>> /\ call \in [Callers -> Calls]
  BY DEF Open, FetchMetadata, SignURL, Get, Close, HandleInv, Types
<1>2. SUFFICES Awaits(c, call'[c]) /\ call'[c].at # "adopt"
  BY <1>1, CallKeepsWrites
<1>3. CASE call'[c] = Idle
  BY <1>3, IdleAwaits
<1>4. CASE call'[c] # Idle /\ Open(c)
  <2>1. PICK expect, suffix :
          IF obj[c].rev # NoRev
          THEN Opened(c, expect, [id |-> obj[c].id, rev |-> obj[c].rev], suffix)
          ELSE call' = [call EXCEPT ![c] = [op |-> "open", at |-> "metadata", expect |-> expect,
                                            suffix |-> suffix]]
    BY <1>4 DEF Open
  <2>2. CASE obj[c].rev # NoRev
    BY <2>1, <2>2, OpenedAwaits DEF Owns
  <2>3. CASE obj[c].rev = NoRev
    <3>1. call'[c].at = "metadata"
      BY <1>1, <2>1, <2>3
    <3> QED
      BY <3>1 DEF Awaits
  <2> QED
    BY <2>2, <2>3
<1>5. CASE call'[c] # Idle /\ FetchMetadata(c)
  <2>1. PICK r \in {doc[obj[c].id].rev, NoRev} :
          Opened(c, call[c].expect, [id |-> obj[c].id, rev |-> r], call[c].suffix)
    BY <1>1, <1>5 DEF FetchMetadata, Fails, Return
  <2>2. Exists(obj[c].id)
    BY <1>1, <1>5 DEF FetchMetadata, Fails, Return
  <2>3. wrote[c] # NoRev => r = NoRev \/ r.n >= wrote[c].n
    BY <2>1, <2>2 DEF Owns, Held
  <2> QED
    BY <2>1, <2>3, OpenedAwaits
<1>6. CASE call'[c] # Idle /\ SignURL(c)
  BY <1>6, ServedAwaits
<1>7. CASE call'[c] # Idle /\ Get(c)
  <2>1. call[c].at = "get" /\ call' = [call EXCEPT ![c].at = "body"]
    BY <1>1, <1>7 DEF Get, Fails, Return
  <2>2. call[c] \in Reading
    BY <2>1, CallKinds DEF HandleInv
  <2>3. call'[c].at = "body" /\ call'[c].meta = call[c].meta /\ call'[c].rev = call[c].rev
    BY <1>1, <2>1, <2>2 DEF Reading
  <2> QED
    BY <2>1, <2>3 DEF Awaits
<1>8. CASE call'[c] # Idle /\ Close(c)
  BY <1>1, <1>8 DEF Close, Return
<1> QED
  BY <1>3, <1>4, <1>5, <1>6, <1>7, <1>8

LEMMA RelocatedKeeps ==
    ASSUME HandleInv, HandleInv', Next, NEW c \in Callers, Owns(c), Relocated(c)
    PROVE  Owns(c)' /\ Awaits(c, call[c])'
<1> DEFINE i == obj[c].id
<1>1. /\ call[c] \in Relocating /\ obj[c] \in Handle /\ obj[c] # None
      /\ call'[c] = Idle /\ UNCHANGED wrote
  BY CallKinds, NothingAssumption DEF HandleInv, Relocated, Fails, Return, Types
<1>2. CASE UNCHANGED obj
  BY <1>1, <1>2, IdleAwaits, CallKeepsWrites
<1>3. CASE ~ UNCHANGED obj
  <2>1. Exists(i) /\ i \in Ids /\ doc[i] \in Docs
    BY <1>1, <1>3, ServiceTypes DEF Relocated, Handle, HandleInv
  <2>2. PICK new \in Ids :
          /\ obj' = [obj EXCEPT ![c] = MovedObject(c, new, call[c].to)]
          /\ \/ new = i
             \/ new = nextId /\ nextId' = nextId + 1 /\ MoveTo(i, Target(c))
    BY <1>1, <1>3, <2>1 DEF Relocated
  <2>3. obj'[c] # None /\ obj'[c].id = new /\ obj'[c].rev = obj[c].rev
    <3>1. /\ MovedObject(c, new, call[c].to) \in Handle
          /\ MovedObject(c, new, call[c].to).id = new
          /\ MovedObject(c, new, call[c].to).rev = obj[c].rev
      BY <1>1, <2>2 DEF MovedObject, Moved, Handle, Relocating
    <3> QED
      BY <2>2, <3>1, NothingAssumption DEF HandleInv, Types, TypeOK
  <2>4. ASSUME wrote[c] # NoRev PROVE HeldNext(new, wrote[c].n)
    <3>1. wrote[c].n \in Nat /\ Held(i, wrote[c].n)
      BY <2>4, OwnTypes DEF Owns
    <3>2. CASE new = i
      BY <2>1, <3>1, <3>2, HeldStays
    <3>3. CASE new = nextId /\ nextId' = nextId + 1 /\ MoveTo(i, Target(c))
      <4>1. doc'[new] = [doc[i] EXCEPT !.place = Target(c)]
        BY <2>2, <3>3 DEF MoveTo, HandleInv, Types, TypeOK
      <4>2. doc'[new].rev = doc[i].rev
        BY <2>1, <4>1 DEF Docs
      <4>3. nextId \in Nat
        BY DEF HandleInv, Types, TypeOK
      <4> QED
        BY <2>1, <3>1, <3>3, <4>2, <4>3 DEF Held, HeldNext
    <3> QED
      BY <2>2, <3>2, <3>3
  <2>5. wrote'[c] # NoRev => HeldNext(obj'[c].id, wrote'[c].n)
    BY <1>1, <2>3, <2>4
  <2>6. wrote[c] # NoRev /\ obj[c].rev # NoRev => obj[c].rev.n >= wrote[c].n
    BY DEF Owns
  <2> QED
    BY <1>1, <2>3, <2>5, <2>6 DEF Owns, Awaits, Idle, Held, HeldNext, Exists
<1> QED
  BY <1>2, <1>3

LEMMA EndUploadKeeps ==
    ASSUME HandleInv, HandleInv', Next, NEW c \in Callers, Owns(c), EndUpload(c)
    PROVE  Owns(c)' /\ Awaits(c, call[c])'
<1>1. UNCHANGED <<obj, wrote>> /\ call \in [Callers -> Calls]
  BY DEF EndUpload, HandleInv, Types
<1>2. CASE call'[c] = Idle
  BY <1>1, <1>2, IdleAwaits, CallKeepsWrites
<1>3. CASE call'[c] # Idle
  <2>1. ~ Fails(c, ~ (Exists(obj[c].id) /\ EditAllowed(c)))
    BY <1>1, <1>3 DEF Fails, Return
  <2>2. /\ obj[c].id \in Ids /\ obj[c].id < nextId /\ nextId' = nextId + 1 /\ nextId \in Nat
        /\ Exists(obj[c].id)
    BY <2>1, Uploaded DEF Ids
  <2>3. PICK r \in Revs :
          /\ r.n = nextId /\ Write(obj[c].id, r)
          /\ \/ call' = [call EXCEPT ![c] = [op |-> "update", at |-> "adopt", rev |-> r]]
             \/ Return(c)
    BY <2>1, Uploaded
  <2>4. call'[c].at = "adopt" /\ call'[c].rev = r
    BY <1>1, <1>3, <2>3 DEF Return
  <2>5. doc'[obj[c].id].rev = r
    <3>1. doc \in [Ids -> Docs \union {Gone}] /\ doc[obj[c].id] \in Docs
      BY <2>2, ServiceTypes DEF HandleInv, Types, TypeOK
    <3> QED
      BY <2>2, <2>3, <3>1 DEF Write, Docs
  <2>6. HeldNext(obj'[c].id, call'[c].rev.n)
    BY <1>1, <2>2, <2>3, <2>4, <2>5 DEF HeldNext, Ids
  <2>7. wrote[c] # NoRev => HeldNext(obj[c].id, wrote[c].n)
    BY <2>2, OwnTypes, HeldStays DEF Owns
  <2>8. wrote'[c] # NoRev => HeldNext(obj'[c].id, wrote'[c].n)
    BY <1>1, <2>7
  <2>9. wrote[c] # NoRev => obj[c] # None /\ (obj[c].rev # NoRev => obj[c].rev.n >= wrote[c].n)
    BY DEF Owns
  <2> QED
    BY <1>1, <2>4, <2>6, <2>8, <2>9 DEF Owns, Awaits, Held, HeldNext, Exists
<1> QED
  BY <1>2, <1>3

LEMMA AdoptMetadataKeeps ==
    ASSUME HandleInv, HandleInv', Next, NEW c \in Callers, Owns(c), AdoptMetadata(c)
    PROVE  Owns(c)' /\ Awaits(c, call[c])'
<1> DEFINE i == obj[c].id
<1>1. call[c].at = "adopt" /\ call \in [Callers -> Calls]
  BY DEF AdoptMetadata, HandleInv, Types
<1>2. CASE Fails(c, ~ Exists(i))
  <2>1. UNCHANGED <<obj, wrote>> /\ call'[c] = Idle
    BY <1>1, <1>2, BoundsAssumption DEF AdoptMetadata, Fails, Return, Fault, HandleInv, Types, TypeOK
  <2> QED
    BY <2>1, IdleAwaits, CallKeepsWrites
<1>3. CASE ~ Fails(c, ~ Exists(i))
  <2>1. /\ Exists(i) /\ UNCHANGED <<doc, nextId>> /\ call[c] \in Adopting /\ call'[c] = Idle
        /\ wrote'[c] = call[c].rev
    BY <1>1, <1>3, AdoptedObject DEF HandleInv, Types, TypeOK
  <2>2. PICK r \in {doc[i].rev, NoRev}, h \in Handle :
          obj' = [obj EXCEPT ![c] = h] /\ h.id = i /\ h.rev = r
    BY <1>3, AdoptedObject
  <2>3. obj'[c] = h /\ h # None
    BY <2>2, NothingAssumption DEF HandleInv, Types, TypeOK
  <2>4. Held(i, call[c].rev.n)
    BY <1>1 DEF Owns
  <2>5. HeldNext(obj'[c].id, wrote'[c].n)
    BY <2>1, <2>2, <2>3, <2>4 DEF Held, HeldNext, Exists
  <2>6. obj'[c].rev # NoRev => obj'[c].rev.n >= wrote'[c].n
    BY <2>1, <2>2, <2>3, <2>4 DEF Held
  <2> QED
    BY <2>1, <2>3, <2>5, <2>6 DEF Owns, Awaits, Idle, Held, HeldNext, Exists
<1> QED
  BY <1>2, <1>3

\* The remaining steps of a caller.
LEMMA SmallStepKeeps ==
    ASSUME HandleInv, HandleInv', Next, NEW c \in Callers, Owns(c), Awaits(c, call[c]),
           Find(c) \/ Relocate(c) \/ Update(c) \/ Remove(c)
    PROVE  Owns(c)' /\ Awaits(c, call[c])'
<1>1. call[c] = Idle /\ call \in [Callers -> Calls] /\ wrote \in [Callers -> Revs \union {NoRev}]
  BY DEF Find, Relocate, Update, Remove, Begins, HandleInv, Types, TypeOK
<1>2. CASE obj'[c] = obj[c] /\ wrote'[c] = wrote[c]
  <2>1. call'[c] = Idle \/ call'[c].at \in {"relocate", "upload"}
    BY <1>1 DEF Find, Relocate, Update, Remove
  <2>2. Awaits(c, call'[c]) /\ call'[c].at # "adopt"
    BY <2>1, IdleAwaits DEF Awaits
  <2> QED
    BY <1>2, <2>2, CallKeepsWrites
<1>3. CASE ~ (obj'[c] = obj[c] /\ wrote'[c] = wrote[c])
  <2>1. wrote'[c] = NoRev /\ call'[c] = Idle
    BY <1>1, <1>3 DEF Find, Relocate, Update, Remove
  <2> QED
    BY <2>1 DEF Owns, Awaits, Idle
<1> QED
  BY <1>2, <1>3

LEMMA OtherObjectsKeep ==
    ASSUME HandleInv, HandleInv', Next, NEW c \in Callers, Owns(c), Awaits(c, call[c]),
           call'[c] = call[c], obj'[c] = obj[c], wrote'[c] = wrote[c]
    PROVE  Owns(c)' /\ Awaits(c, call[c])'
<1>1. CASE call[c].at # "adopt"
  BY <1>1, CallKeepsWrites
<1>2. CASE call[c].at = "adopt"
  <2>1. call[c] \in Adopting /\ obj[c] # None
    BY <1>2, CallKinds, NothingAssumption DEF HandleInv
  <2>2. call[c].rev.n \in Nat /\ obj[c].id \in Ids
    BY <2>1, OwnTypes DEF Adopting, Revs, Ids
  <2>3. HeldNext(obj[c].id, call[c].rev.n)
    BY <1>2, <2>2, HeldStays DEF Owns
  <2>4. wrote[c] # NoRev => HeldNext(obj[c].id, wrote[c].n)
    BY <2>2, OwnTypes, HeldStays DEF Owns
  <2>5. /\ HeldNext(obj'[c].id, call'[c].rev.n)
        /\ wrote'[c] # NoRev => HeldNext(obj'[c].id, wrote'[c].n)
    BY <2>3, <2>4
  <2>6. wrote[c] # NoRev => obj[c] # None /\ (obj[c].rev # NoRev => obj[c].rev.n >= wrote[c].n)
    BY DEF Owns
  <2> QED
    BY <1>2, <2>5, <2>6 DEF Owns, Awaits, Held, HeldNext, Exists
<1> QED
  BY <1>1, <1>2

LEMMA WritesNext == HandleInv /\ HandleInv' /\ WritesInv /\ [Next]_vars => WritesInv'
<1> SUFFICES ASSUME HandleInv, HandleInv', WritesInv, [Next]_vars, NEW c \in Callers
             PROVE  Owns(c)' /\ Awaits(c, call[c])'
  BY DEF WritesInv
<1>1. Owns(c) /\ Awaits(c, call[c])
  BY DEF WritesInv
<1>2. CASE UNCHANGED vars
  BY <1>1, <1>2 DEF vars, Owns, Awaits, Held, Exists
<1>3. CASE Next /\ Step(c)
  BY <1>1, <1>3, DownloadKeeps, RelocatedKeeps, EndUploadKeeps, AdoptMetadataKeeps, SmallStepKeeps
     DEF Step
<1>4. CASE Next /\ ~ Step(c)
  <2>1. call'[c] = call[c]
    BY <1>4, OnlyOwnCall
  <2>2. obj'[c] = obj[c] /\ wrote'[c] = wrote[c]
    <3>1. ASSUME NEW d \in Callers, d # c, Step(d) PROVE obj'[c] = obj[c] /\ wrote'[c] = wrote[c]
      <4> USE DEF HandleInv, Types, TypeOK
      <4>1. CASE Find(d) \/ Open(d) \/ FetchMetadata(d) \/ SignURL(d) \/ Get(d) \/ Close(d)
        BY <3>1, <4>1 DEF Find, Open, FetchMetadata, SignURL, Get, Close
      <4>2. CASE Relocate(d) \/ Relocated(d)
        BY <3>1, <4>2 DEF Relocate, Relocated
      <4>3. CASE Update(d) \/ EndUpload(d) \/ AdoptMetadata(d) \/ Remove(d)
        BY <3>1, <4>3 DEF Update, EndUpload, AdoptMetadata, Remove, Adopted
      <4> QED
        BY <3>1, <4>1, <4>2, <4>3 DEF Step
    <3> QED
      BY <1>4, <3>1 DEF Next, ForeignChange, Terminated, vars
  <2> QED
    BY <1>1, <1>4, <2>1, <2>2, OtherObjectsKeep
<1> QED
  BY <1>2, <1>3, <1>4

\* A caller that reads through an object whose Update succeeded gets the version it
\* wrote or a newer one, for any number of callers, files and changes by others.
THEOREM OwnWritesAreRead == Spec => []ReadsOwnWrites
<1>1. Init => WritesInv
  <2>1. ASSUME Init, NEW c \in Callers PROVE wrote[c] = NoRev /\ call[c].at # "adopt"
    <3>1. wrote[c] = NoRev /\ call[c] = Idle
      BY <2>1 DEF Init
    <3> QED
      BY <3>1, IdleAwaits
  <2> QED
    BY <2>1 DEF WritesInv, Owns, Awaits
<1>2. WritesInv => ReadsOwnWrites
  BY DEF WritesInv, Awaits, ReadsOwnWrites
<1> QED
  BY <1>1, <1>2, WritesNext, HandleInvariant, PTL DEF Spec
=============================================================================
