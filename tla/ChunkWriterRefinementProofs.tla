---------------------- MODULE ChunkWriterRefinementProofs ----------------------
(***************************************************************************)
(* Proof that what is claimed to be uploaded is, and that no recorded part *)
(* is forgotten: the state file is written by whoever holds its lock, who  *)
(* knows all that it says.  And, with it, that the resumable multipart     *)
(* upload implements ConditionalReplace.                                   *)
(***************************************************************************)
EXTENDS ChunkWriterProofs, ChunkWriterRefinement


-----------------------------------------------------------------------------
(* Claims: parts said to be complete are parts their upload has. *)

Has(u, k) == uploads[u].parts[k] # None

UnusedEmpty == \A u \in Ids, k \in Parts : uploads[u].status = "unused" => ~ Has(u, k)

DiskClaims ==
    disk # None => \A k \in Parts : disk.completed[k] # None => Has(disk.upload, k)

PartClaims ==
    \A p \in Procs, k \in Parts : part[p][k] # None =>
        phase[p] \in HasUpload /\ Has(job[p].upload, k)

\* A call that is about to record its part has stored it.
StoredClaims ==
    \A p \in Procs, k \in Parts : chunk[p][k] = "stored" => Has(job[p].upload, k)

Claims == UnusedEmpty /\ DiskClaims /\ PartClaims /\ StoredClaims

-----------------------------------------------------------------------------
(* The lock: who may write the state file. *)

OneHolder == \A p, q \in Procs : store[p] = "held" /\ store[q] = "held" => p = q

\* Who lost the lock to a signal records nothing any more.
ReleasedHalted ==
    \A p \in Procs : store[p] = "released" =>
        phase[p] \in Closing \/ (phase[p] = "writing" /\ halted[p] # "no")

\* An upload that was just begun is known to its writer only.
NewIsPrivate ==
    \A p \in Procs : phase[p] = "saving" =>
        /\ disk # None => disk.upload # job[p].upload
        /\ \A q \in Procs \ {p} :
              phase[q] \in HasUpload => job[q].upload # job[p].upload

\* The holder of the lock knows every part that the state file lists.
HolderKnows ==
    \A p \in Procs :
        /\ store[p] = "held" /\ phase[p] \in {"signing", "writing"}
        /\ disk # None /\ disk.upload = job[p].upload
        => \A k \in Parts : disk.completed[k] # None => part[p][k] # None

Locking == OneHolder /\ ReleasedHalted /\ NewIsPrivate /\ HolderKnows

-----------------------------------------------------------------------------
(* Uploads only gain parts. *)

\* An upload is begun for a new revision of the current destination, or for
\* the revision of an upload that it replaces.
Ordered(r, b) ==
    \/ r = nextId /\ b = dest.rev
    \/ \E u \in Ids : /\ uploads[u].status # "unused"
                      /\ r = uploads[u].rev /\ b = uploads[u].base

\* What a step may do to the uploads.
LEMMA UploadsChange ==
    ASSUME TypeInv, Next
    PROVE  \/ UNCHANGED uploads
           \/ \E r, b : NewUpload(r, b) /\ Ordered(r, b)
           \/ \E u \in Ids, k \in Parts, b \in Bytes : PutPart(u, k, b)
           \/ \E u \in Ids, s \in {"expired", "assembled", "committed"} :
                /\ uploads[u].status # "unused"
                /\ uploads' = [uploads EXCEPT ![u].status = s]
<1> DEFINE Changed ==
      \/ UNCHANGED uploads
      \/ \E r, b : NewUpload(r, b) /\ Ordered(r, b)
      \/ \E u \in Ids, k \in Parts, b \in Bytes : PutPart(u, k, b)
      \/ \E u \in Ids, s \in {"expired", "assembled", "committed"} :
           /\ uploads[u].status # "unused"
           /\ uploads' = [uploads EXCEPT ![u].status = s]
<1>t. WriterInv
  BY DEF TypeInv
<1>1. ASSUME NEW p \in Procs, InitUpload(p) \/ Refresh(p) PROVE Changed
  <2>1. CASE InitUpload(p)
    BY <2>1 DEF InitUpload, StartAccepted, Ordered
  <2>2. CASE Refresh(p)
    <3>1. job[p].upload \in Ids
      BY <1>t, <2>2, WriterFacts DEF Refresh, HasUpload
    <3> QED
      BY <2>2, <3>1 DEF Refresh, RefreshAccepted, Ordered
  <2> QED
    BY <1>1, <2>1, <2>2
<1>2. ASSUME NEW p \in Procs, NEW k \in Parts, StorePart(p, k) PROVE Changed
  <2>1. job[p].upload \in Ids /\ sent[p][k] \in Bytes
    BY <1>t, <1>2, WriterFacts DEF StorePart, HasUpload, Active
  <2> QED
    BY <1>2, <2>1 DEF StorePart
<1>3. ASSUME NEW z \in late, StoreLate(z) PROVE Changed
  <2>1. z.upload \in Ids /\ z.part \in Parts /\ z.bytes \in Bytes
    BY DEF TypeInv, ServiceTypeOK
  <2> QED
    BY <1>3, <2>1 DEF StoreLate
<1>4. ASSUME NEW p \in Procs, CompleteUpload(p) \/ EndUpload(p) PROVE Changed
  <2>1. job[p].upload \in Ids
    BY <1>t, <1>4, WriterFacts DEF CompleteUpload, EndUpload, HasUpload, Closing
  <2>2. CASE CompleteUpload(p)
    BY <2>1, <2>2 DEF CompleteUpload, Assemble, CompleteAccepted
  <2>3. CASE EndUpload(p)
    BY <2>1, <2>3 DEF EndUpload, Commit, EndAccepted
  <2> QED
    BY <1>4, <2>2, <2>3
<1>5. ASSUME NEW u \in Ids, ExpireUpload(u) PROVE Changed
  BY <1>5 DEF ExpireUpload
<1>6. ASSUME NEW p \in Procs, OpenChunkWriter(p), ~ InitUpload(p), ~ Refresh(p)
      PROVE  UNCHANGED uploads
  BY <1>6 DEF OpenChunkWriter, OpenStore, Lookup, LoadState, DropState, SaveInitial, Sign,
     serviceVars
<1>7. ASSUME NEW p \in Procs, NEW k \in Parts, WriteChunk(p, k), ~ StorePart(p, k)
      PROVE  UNCHANGED uploads
  BY <1>7 DEF WriteChunk, BeginChunk, VerifyPart, DiscardState, LosePart, RecordPart, serviceVars
<1>8. ASSUME NEW p \in Procs, \/ Start(p) \/ CloseBegin(p) \/ FetchMetadata(p)
                              \/ FinishClose(p) \/ EngineAbort(p) \/ SignalAbort(p)
                              \/ Crash(p)
      PROVE  UNCHANGED uploads
  BY <1>8 DEF Start, CloseBegin, FetchMetadata, FinishClose, EngineAbort, SignalAbort,
     Crash, serviceVars
<1>9. CASE EditSource \/ ForeignWrite \/ ForeignDelete \/ Terminated
  BY <1>9 DEF EditSource, ForeignWrite, ForeignDelete, Terminated, vars, serviceVars
<1>10. ASSUME NEW p \in Procs, ByProcess(p) PROVE Changed
  BY <1>1, <1>2, <1>4, <1>6, <1>7, <1>8, <1>10 DEF ByProcess, Step, Close
<1> QED
  BY <1>3, <1>5, <1>9, <1>10, NextSplit DEF ByEnvironment

LEMMA PartsStay ==
    ASSUME TypeInv, Handed, UnusedEmpty, Next
    PROVE  UnusedEmpty' /\ \A u \in Ids, k \in Parts : Has(u, k) => Has(u, k)'
<1>t. uploads \in [Ids -> Upload] /\ nextId \in Nat
  BY DEF TypeInv, ServiceTypeOK
<1> USE DEF Has, UnusedEmpty
<1>1. CASE UNCHANGED uploads
  BY <1>1
<1>2. ASSUME NEW r, NEW b, NewUpload(r, b)
      PROVE  UnusedEmpty' /\ \A u \in Ids, k \in Parts : Has(u, k) => Has(u, k)'
  <2>1. uploads[nextId].status = "unused"
    BY <1>t, <1>2 DEF NewUpload, Handed, Ids
  <2> QED
    BY <1>t, <1>2, <2>1 DEF NewUpload, Upload
<1>3. ASSUME NEW u \in Ids, NEW k \in Parts, NEW b \in Bytes, PutPart(u, k, b)
      PROVE  UnusedEmpty' /\ \A v \in Ids, l \in Parts : Has(v, l) => Has(v, l)'
  BY <1>t, <1>3, NoneAssumption DEF PutPart, Upload, Data
<1>4. ASSUME NEW u \in Ids, NEW s \in {"expired", "assembled", "committed"},
             uploads[u].status # "unused", uploads' = [uploads EXCEPT ![u].status = s]
      PROVE  UnusedEmpty' /\ \A v \in Ids, l \in Parts : Has(v, l) => Has(v, l)'
  BY <1>t, <1>4 DEF Upload
<1> QED
  BY <1>1, <1>2, <1>3, <1>4, UploadsChange
-----------------------------------------------------------------------------
(* Who writes the state file, and what with. *)

LEMMA DiskWritten ==
    ASSUME TypeInv, Next, disk' # disk, disk' # None
    PROVE  \E p \in Procs : Enabled(p) /\
             \/ SaveInitial(p) /\ disk' = StateOf(p, part[p])
             \/ \E k \in Parts : /\ RecordPart(p, k) /\ MayRecord(p)
                                 /\ disk' = StateOf(p, part'[p])
<1>1. ASSUME NEW p \in Procs, NEW d, NEW ok, SaveState(p, d, ok)
      PROVE  Enabled(p) /\ disk' = d
  BY <1>1 DEF SaveState
<1>2. ASSUME NEW p \in Procs, NEW ok, RemoveState(p, ok) PROVE FALSE
  BY <1>2 DEF RemoveState
<1>3. ASSUME NEW p \in Procs, DropState(p) \/ FinishClose(p) PROVE FALSE
  BY <1>2, <1>3 DEF DropState, FinishClose, ForgetState
<1>4. ASSUME NEW p \in Procs, NEW k \in Parts, DiscardState(p, k) PROVE FALSE
  BY <1>2, <1>4 DEF DiscardState
<1>5. ASSUME NEW p \in Procs, SaveInitial(p)
      PROVE  Enabled(p) /\ disk' = StateOf(p, part[p])
  BY <1>1, <1>5 DEF SaveInitial
<1>6. ASSUME NEW p \in Procs, NEW k \in Parts, RecordPart(p, k)
      PROVE  Enabled(p) /\ MayRecord(p) /\ disk' = StateOf(p, part'[p])
  BY <1>1, <1>6 DEF RecordPart
<1>7. ASSUME NEW p \in Procs, OpenChunkWriter(p) PROVE SaveInitial(p)
  BY <1>3, <1>7 DEF OpenChunkWriter, OpenStore, Lookup, LoadState, InitUpload, Sign, Refresh,
     storeVars
<1>8. ASSUME NEW p \in Procs, NEW k \in Parts, WriteChunk(p, k) PROVE RecordPart(p, k)
  BY <1>4, <1>8 DEF WriteChunk, BeginChunk, VerifyPart, StorePart, LosePart, storeVars
<1>9. ASSUME NEW p \in Procs, Start(p) \/ EngineAbort(p) \/ SignalAbort(p) \/ Crash(p) \/ Close(p)
      PROVE  FALSE
  BY <1>3, <1>9 DEF Start, Close, CloseBegin, CompleteUpload, EndUpload, FetchMetadata,
     EngineAbort, SignalAbort, Crash, storeVars
<1>10. ~ ByEnvironment
  BY EnvironmentFrame
<1> QED
  BY <1>5, <1>6, <1>7, <1>8, <1>9, <1>10, NextSplit DEF ByProcess, Step

\* Where a part that a writer claims comes from: it was claimed before, or the
\* state file lists it, or the object store has just taken it.
LEMMA PartStep ==
    ASSUME TypeInv, PartClaims, NEW p \in Procs, ByProcess(p), NEW k \in Parts,
           part'[p][k] # None
    PROVE  /\ phase'[p] \in HasUpload
           /\ \/ part[p][k] # None /\ job'[p].upload = job[p].upload
              \/ /\ disk # None /\ disk.completed[k] # None
                 /\ job'[p].upload = disk.upload
              \/ chunk[p][k] = "stored" /\ job'[p].upload = job[p].upload
<1>t. WriterInv /\ WriterTypeOK
  BY DEF TypeInv, WriterInv
<1>w. ~ \E ph \in Outside : Leave(p, ph)
  BY <1>t DEF Leave, NoData, WriterTypeOK
<1>1. CASE UNCHANGED part /\ phase[p] \notin HasUpload
  BY <1>1 DEF PartClaims
<1>2. CASE UNCHANGED <<part, job>> /\ phase'[p] \in HasUpload
  BY <1>2
<1>3. ASSUME Start(p) \/ OpenStore(p) \/ Lookup(p) \/ DropState(p) PROVE FALSE
  BY <1>1, <1>3, <1>w DEF PartClaims, Start, OpenStore, Lookup, DropState, HasUpload, Closing,
     Outside
<1>4. CASE LoadState(p)
  <2>1. CASE UNCHANGED part
    BY <1>1, <1>4, <2>1 DEF LoadState, HasUpload, Closing
  <2>2. CASE ~ UNCHANGED part
    <3>1. /\ disk # None
          /\ job' = [job EXCEPT ![p] = [@ EXCEPT !.upload = disk.upload, !.resumed = TRUE]]
          /\ part' = [part EXCEPT ![p] = disk.completed]
          /\ Goto(p, "signing")
      BY <1>4, <2>2 DEF LoadState
    <3>2. part'[p] = disk.completed /\ phase'[p] = "signing"
      BY <1>t, <3>1 DEF Goto, WriterTypeOK
    <3>3. job'[p].upload = disk.upload
      <4>1. job[p] \in Job
        BY <1>t, WriterFacts
      <4> QED
        BY <1>t, <3>1, <4>1 DEF WriterTypeOK, Job
    <3> QED
      BY <3>1, <3>2, <3>3 DEF HasUpload
  <2> QED
    BY <2>1, <2>2
<1>5. ASSUME InitUpload(p) PROVE FALSE
  BY <1>5, <1>w DEF InitUpload, PartClaims, HasUpload, Closing, Outside
<1>6. ASSUME Refresh(p) PROVE FALSE
  BY <1>t, <1>6 DEF Refresh, ForgetParts, NoData, WriterTypeOK
<1>7. CASE SaveInitial(p) \/ Sign(p)
  BY <1>2, <1>7, <1>t, <1>w DEF SaveInitial, Sign, Goto, WriterTypeOK, HasUpload, Outside
<1>8. CASE Close(p) \/ EngineAbort(p) \/ SignalAbort(p) \/ Crash(p)
  <2>1. UNCHANGED <<part, job>>
    BY <1>8, <1>w DEF Close, callVars, CloseBegin, CompleteUpload, EndUpload,
       FetchMetadata, FinishClose, Outcome, Outside, EngineAbort, SignalAbort, Crash
  <2>2. phase'[p] \in Closing \/ UNCHANGED phase
    BY <1>t, <1>8, <1>w DEF Close, Goto, CloseBegin, CompleteUpload, EndUpload,
       FetchMetadata, FinishClose, Outcome, Outside, EngineAbort, SignalAbort, Crash,
       WriterTypeOK, Closing
  <2>3. CASE UNCHANGED phase
    BY <2>1, <2>3 DEF PartClaims
  <2> QED
    BY <1>2, <2>1, <2>2, <2>3 DEF HasUpload
<1>9. ASSUME NEW l \in Parts, WriteChunk(p, l)
      PROVE  /\ phase'[p] \in HasUpload
             /\ job'[p].upload = job[p].upload
             /\ part[p][k] # None \/ chunk[p][k] = "stored"
  <2>1. UNCHANGED <<job, phase>>
    BY <1>9 DEF WriteChunk, BeginChunk, VerifyPart, DiscardState, StorePart, LosePart,
       RecordPart
  <2>2. phase[p] = "writing"
    BY <1>t, <1>9, WriterFacts DEF WriteChunk, BeginChunk, VerifyPart, DiscardState,
       StorePart, LosePart, RecordPart, Active
  <2>3. part[p][k] # None \/ chunk[p][k] = "stored"
    BY <1>t, <1>9 DEF WriteChunk, BeginChunk, VerifyPart, DiscardState, StorePart, LosePart,
       RecordPart, WriterTypeOK, Data
  <2> QED
    BY <2>1, <2>2, <2>3 DEF HasUpload
<1> QED
  BY <1>3, <1>4, <1>5, <1>6, <1>7, <1>8, <1>9 DEF ByProcess, Step, OpenChunkWriter

\* A call comes to be about to record when the object store takes its part.
LEMMA CallStep ==
    ASSUME TypeInv, NEW p \in Procs, ByProcess(p), NEW k \in Parts, chunk'[p][k] = "stored"
    PROVE  /\ UNCHANGED job
           /\ \/ chunk[p][k] = "stored"
              \/ StorePart(p, k) /\ uploads[job[p].upload].status = "open"
<1>t. WriterInv /\ WriterTypeOK
  BY DEF TypeInv, WriterInv
<1>w. ~ \E ph \in Outside : Leave(p, ph)
  BY <1>t DEF Leave, WriterTypeOK
<1>1. ASSUME NEW l \in Parts, WriteChunk(p, l)
      PROVE  /\ UNCHANGED job
             /\ \/ chunk[p][k] = "stored"
                \/ StorePart(p, k) /\ uploads[job[p].upload].status = "open"
  <2>1. UNCHANGED job
    BY <1>1 DEF WriteChunk, BeginChunk, VerifyPart, DiscardState, StorePart, LosePart,
       RecordPart
  <2>2. CASE l # k
    BY <1>t, <1>1, <2>1, <2>2 DEF WriteChunk, BeginChunk, VerifyPart, DiscardState, StorePart,
       LosePart, RecordPart, Return, WriterTypeOK
  <2>3. CASE l = k
    BY <1>t, <1>1, <2>1, <2>3 DEF WriteChunk, BeginChunk, VerifyPart, DiscardState, StorePart,
       LosePart, RecordPart, Return, Halted, WriterTypeOK
  <2> QED
    BY <2>2, <2>3
<1>2. CASE Start(p) \/ OpenChunkWriter(p)
  <2>1. UNCHANGED chunk
    BY <1>2, <1>w DEF Start, OpenChunkWriter, callVars, Outside, OpenStore, Lookup,
       LoadState, DropState, InitUpload, SaveInitial, Sign, Refresh
  <2>2. phase[p] # "writing"
    BY <1>2 DEF Start, OpenChunkWriter, OpenStore, Lookup,
       LoadState, DropState, InitUpload, SaveInitial, Sign, Refresh
  <2> QED
    BY <1>t, <2>1, <2>2, WriterFacts DEF Active
<1>3. CASE Close(p) \/ EngineAbort(p) \/ SignalAbort(p) \/ Crash(p)
  BY <1>3, <1>w DEF Close, callVars, CloseBegin, CompleteUpload, EndUpload,
     FetchMetadata, FinishClose, Outcome, Outside, EngineAbort, SignalAbort, Crash
<1> QED
  BY <1>1, <1>2, <1>3 DEF ByProcess, Step

LEMMA ClaimsStep ==
    TypeInv /\ Handed /\ Claims /\ Next => Claims'
<1>0. SUFFICES ASSUME TypeInv, Handed, Claims, Next PROVE Claims'
  OBVIOUS
<1>t. /\ WriterInv /\ WriterTypeOK /\ StoreTypeOK /\ uploads \in [Ids -> Upload]
      /\ UnusedEmpty /\ DiskClaims /\ PartClaims /\ StoredClaims
  BY <1>0 DEF TypeInv, WriterInv, ServiceTypeOK, Claims
<1>s. UnusedEmpty' /\ \A u \in Ids, k \in Parts : Has(u, k) => Has(u, k)'
  BY <1>0, <1>t, PartsStay
<1>1. ASSUME NEW q \in Procs, NEW k \in Parts, chunk'[q][k] = "stored"
      PROVE  Has(job[q].upload, k)' /\ job'[q].upload = job[q].upload
  <2>1. ASSUME chunk[q][k] = "stored", job'[q] = job[q] PROVE Has(job[q].upload, k)'
    <3>1. job[q].upload \in Ids
      BY <1>t, <2>1, WriterFacts DEF Active, HasUpload
    <3> QED
      BY <1>t, <1>s, <2>1, <3>1 DEF StoredClaims, Has
  <2>2. ASSUME StorePart(q, k), uploads[job[q].upload].status = "open", UNCHANGED job
        PROVE  Has(job[q].upload, k)'
    <3>1. job[q].upload \in Ids /\ sent[q][k] \in Bytes
      BY <1>t, <2>2, WriterFacts DEF StorePart, Active, HasUpload
    <3> QED
      BY <1>t, <2>2, <3>1, NoneAssumption DEF StorePart, PutPart, Has, Upload, Data
  <2>3. CASE ByEnvironment
    BY <1>1, <2>1, <2>3, EnvironmentFrame
  <2>4. ASSUME NEW p \in Procs, ByProcess(p), p # q
        PROVE  Has(job[q].upload, k)' /\ job'[q].upload = job[q].upload
    BY <1>t, <1>1, <2>1, <2>4, OtherWriters DEF SameWriter
  <2>5. CASE ByProcess(q)
    BY <1>0, <1>1, <2>1, <2>2, <2>5, CallStep
  <2> QED
    BY <1>0, <2>3, <2>4, <2>5, <2>1, <1>1, EnvironmentFrame, NextSplit
<1>2. ASSUME NEW q \in Procs, NEW k \in Parts, part'[q][k] # None
      PROVE  phase'[q] \in HasUpload /\ Has(job[q].upload, k)'
  <2>1. ASSUME part[q][k] # None, job'[q].upload = job[q].upload
        PROVE  Has(job[q].upload, k)'
    <3>1. job[q].upload \in Ids /\ Has(job[q].upload, k)
      BY <1>t, <2>1, WriterFacts DEF PartClaims
    <3> QED
      BY <1>s, <2>1, <3>1 DEF Has
  <2>2. ASSUME disk # None, disk.completed[k] # None, job'[q].upload = disk.upload
        PROVE  Has(job[q].upload, k)'
    <3>1. disk.upload \in Ids /\ Has(disk.upload, k)
      BY <1>t, <2>2 DEF DiskClaims, StoreTypeOK, ResumeState
    <3> QED
      BY <1>s, <2>2, <3>1 DEF Has
  <2>3. ASSUME chunk[q][k] = "stored", job'[q].upload = job[q].upload
        PROVE  Has(job[q].upload, k)'
    <3>1. job[q].upload \in Ids /\ Has(job[q].upload, k)
      BY <1>t, <2>3, WriterFacts DEF StoredClaims, Active, HasUpload
    <3> QED
      BY <1>s, <2>3, <3>1 DEF Has
  <2>4. CASE ByEnvironment
    BY <1>t, <1>2, <2>1, <2>4, EnvironmentFrame DEF PartClaims
  <2>5. ASSUME NEW p \in Procs, ByProcess(p), p # q
        PROVE  phase'[q] \in HasUpload /\ Has(job[q].upload, k)'
    BY <1>t, <1>2, <2>1, <2>5, OtherWriters DEF SameWriter, PartClaims
  <2>6. CASE ByProcess(q)
    BY <1>0, <1>t, <1>2, <2>1, <2>2, <2>3, <2>6, PartStep
  <2> QED
    BY <1>0, <2>4, <2>5, <2>6, NextSplit
<1>3. ASSUME disk' # None, NEW k \in Parts, disk'.completed[k] # None
      PROVE  Has(disk.upload, k)'
  <2>1. CASE disk' = disk
    <3>1. disk.upload \in Ids /\ Has(disk.upload, k)
      BY <1>t, <1>3, <2>1 DEF DiskClaims, StoreTypeOK, ResumeState
    <3> QED
      BY <1>s, <2>1, <3>1 DEF Has
  <2>2. CASE disk' # disk
    <3>1. PICK p \in Procs : \/ SaveInitial(p) /\ disk' = StateOf(p, part[p])
                             \/ \E l \in Parts : RecordPart(p, l) /\ disk' = StateOf(p, part'[p])
      BY <1>0, <1>3, <2>2, DiskWritten
    <3>2. UNCHANGED job /\ disk' = StateOf(p, part'[p])
      BY <3>1 DEF SaveInitial, RecordPart
    <3>3. disk'.upload = job'[p].upload /\ part'[p][k] # None
      BY <1>3, <3>2 DEF StateOf
    <3> QED
      BY <1>2, <3>3 DEF Has
  <2> QED
    BY <2>1, <2>2
<1>4. DiskClaims'
  BY <1>3 DEF DiskClaims
<1>5. PartClaims'
  BY <1>2 DEF PartClaims
<1>6. StoredClaims'
  BY <1>1 DEF StoredClaims
<1> QED
  BY <1>s, <1>4, <1>5, <1>6 DEF Claims
-----------------------------------------------------------------------------
(* The lock and the uploads: each writer that may write knows what it does  *)
(* to the state file.                                                       *)

\* Calls only add to what a writer has recorded.
LEMMA CallKeepsParts ==
    ASSUME TypeInv, NEW p \in Procs, NEW k \in Parts, WriteChunk(p, k), NEW l \in Parts,
           part[p][l] # None
    PROVE  part'[p][l] # None
<1>t. WriterInv /\ WriterTypeOK
  BY DEF TypeInv, WriterInv
<1>1. CASE RecordPart(p, k)
  <2>1. sent[p][k] # None
    BY <1>t, <1>1, WriterFacts, NoneAssumption DEF RecordPart
  <2> QED
    BY <1>t, <1>1, <2>1 DEF RecordPart, WriterTypeOK, Data
<1> QED
  BY <1>1 DEF WriteChunk, BeginChunk, VerifyPart, DiscardState, StorePart, LosePart

\* How a process comes by its store object, or loses it or its lock.
LEMMA LockStep ==
    ASSUME TypeInv, NEW p \in Procs, ByProcess(p)
    PROVE  \/ store'[p] = store[p]
           \/ /\ OpenStore(p)
              /\ store'[p] = "disabled" \/ \A q \in Procs : store[q] # "held"
           \/ store'[p] = "none"
           \/ SignalAbort(p) /\ store'[p] = "released"
<1>t. StoreTypeOK
  BY DEF TypeInv
<1>1. CASE \E ph \in Outside : Leave(p, ph)
  BY <1>t, <1>1 DEF Leave, CloseStore, StoreTypeOK
<1>2. CASE OpenStore(p)
  BY <1>t, <1>2 DEF OpenStore, TakeLock, DisableStore, StoreTypeOK
<1>3. CASE SignalAbort(p)
  BY <1>t, <1>3 DEF SignalAbort, ReleaseLock, StoreTypeOK
<1>4. CASE ~ (\E ph \in Outside : Leave(p, ph)) /\ ~ OpenStore(p) /\ ~ SignalAbort(p)
  <2>1. ASSUME Start(p) \/ OpenChunkWriter(p) PROVE UNCHANGED store
    BY <1>4, <2>1 DEF Start, OpenChunkWriter, Outside, Lookup, LoadState, DropState,
       InitUpload, SaveInitial, Sign, Refresh, storeVars
  <2>2. ASSUME Close(p) \/ EngineAbort(p) \/ Crash(p) PROVE UNCHANGED store
    BY <1>4, <2>2 DEF Close, CloseBegin, CompleteUpload, EndUpload, FetchMetadata,
       FinishClose, Outcome, Outside, EngineAbort, Crash, storeVars
  <2>3. ASSUME NEW k \in Parts, WriteChunk(p, k) PROVE UNCHANGED store
    BY <2>3 DEF WriteChunk, BeginChunk, VerifyPart, DiscardState, StorePart, LosePart,
       RecordPart, storeVars
  <2> QED
    BY <1>4, <2>1, <2>2, <2>3 DEF ByProcess, Step
<1> QED
  BY <1>1, <1>2, <1>3, <1>4

LEMMA OneHolderStep ==
    TypeInv /\ OneHolder /\ Next => OneHolder'
<1>0. SUFFICES ASSUME TypeInv, OneHolder, Next, NEW p \in Procs, NEW q \in Procs,
                      store'[p] = "held", store'[q] = "held"
               PROVE  p = q
  BY DEF OneHolder
<1>t. WriterInv /\ StoreTypeOK
  BY <1>0 DEF TypeInv
<1>1. CASE ByEnvironment
  BY <1>0, <1>1, EnvironmentFrame DEF OneHolder
<1>2. ASSUME NEW r \in Procs, ByProcess(r) PROVE p = q
  <2>1. \A s \in Procs \ {r} : store'[s] = store[s]
    BY <1>t, <1>2, OtherWriters DEF SameWriter
  <2>2. CASE store'[r] = store[r]
    BY <1>0, <2>1, <2>2 DEF OneHolder
  <2>3. CASE store'[r] # store[r]
    <3>1. \/ OpenStore(r) /\ (store'[r] = "disabled" \/ \A s \in Procs : store[s] # "held")
          \/ store'[r] \in {"none", "released"}
      BY <1>0, <1>2, <2>3, LockStep
    <3> QED
      BY <1>0, <2>1, <3>1 DEF OneHolder
  <2> QED
    BY <2>2, <2>3
<1> QED
  BY <1>0, <1>1, <1>2, NextSplit

LEMMA ReleasedHaltedStep ==
    TypeInv /\ ReleasedHalted /\ Next => ReleasedHalted'
<1>0. SUFFICES ASSUME TypeInv, ReleasedHalted, Next, NEW p \in Procs, store'[p] = "released"
               PROVE  \/ phase'[p] \in Closing
                      \/ phase'[p] = "writing" /\ halted'[p] # "no"
  BY DEF ReleasedHalted
<1>t. WriterInv /\ WriterTypeOK /\ StoreTypeOK
  BY <1>0 DEF TypeInv, WriterInv
<1>1. CASE ByEnvironment
  BY <1>0, <1>1, EnvironmentFrame DEF ReleasedHalted
<1>2. ASSUME NEW r \in Procs, r # p, ByProcess(r)
      PROVE  \/ phase'[p] \in Closing
             \/ phase'[p] = "writing" /\ halted'[p] # "no"
  BY <1>0, <1>t, <1>2, OtherWriters DEF SameWriter, ReleasedHalted
<1>3. CASE SignalAbort(p)
  BY <1>t, <1>3 DEF SignalAbort, WriterTypeOK
<1>4. CASE ByProcess(p) /\ ~ SignalAbort(p)
  <2>1. store[p] = "released"
    <3>1. ASSUME OpenStore(p) PROVE FALSE
      BY <1>0, <1>t, <3>1 DEF OpenStore, StoreTypeOK, TakeLock, DisableStore
    <3>2. \/ store'[p] = store[p]
          \/ OpenStore(p)
          \/ store'[p] = "none"
          \/ SignalAbort(p)
      BY <1>0, <1>4, LockStep
    <3> QED
      BY <1>0, <1>4, <3>1, <3>2
  <2>2. phase[p] \in Closing \/ (phase[p] = "writing" /\ halted[p] # "no")
    BY <1>0, <2>1 DEF ReleasedHalted
  <2>3. ~ \E ph \in Outside : Leave(p, ph)
    BY <1>0, <1>t DEF Leave, CloseStore, StoreTypeOK
  <2>4. ~ Start(p) /\ ~ OpenChunkWriter(p)
    BY <2>2 DEF Start, OpenChunkWriter, OpenStore, Lookup, LoadState, DropState,
       InitUpload, SaveInitial, Sign, Refresh, Closing
  <2>5. CASE Close(p)
    BY <1>t, <2>2, <2>3, <2>5 DEF Close, CloseBegin, CompleteUpload, EndUpload, FetchMetadata,
       FinishClose, Outcome, Outside, Goto, Closing, WriterTypeOK
  <2>6. ASSUME NEW k \in Parts, WriteChunk(p, k)
        PROVE  UNCHANGED phase /\ (halted[p] # "no" => halted'[p] # "no")
    BY <1>t, <2>6 DEF WriteChunk, BeginChunk, VerifyPart, DiscardState, StorePart, LosePart,
       RecordPart, WriterTypeOK
  <2>7. ~ EngineAbort(p) /\ ~ Crash(p)
    BY <2>3 DEF EngineAbort, Crash, Outside
  <2> QED
    BY <1>4, <2>2, <2>4, <2>5, <2>6, <2>7 DEF ByProcess, Step
<1> QED
  BY <1>0, <1>1, <1>2, <1>3, <1>4, NextSplit

\* A process is about to save the state of an upload it has just begun.
LEMMA SavingStep ==
    ASSUME TypeInv, NEW p \in Procs, ByProcess(p), phase'[p] = "saving"
    PROVE  nextId \in Ids /\ job'[p].upload = nextId /\ disk' = disk
<1>t. WriterInv /\ WriterTypeOK /\ job[p] \in Job
  BY WriterFacts DEF TypeInv, WriterInv
<1>w. ~ \E ph \in Outside : Leave(p, ph)
  BY <1>t DEF Leave, Goto, Outside, WriterTypeOK
<1>1. CASE InitUpload(p)
  <2>1. /\ NewUpload(nextId, job[p].base) /\ disk' = disk
        /\ job' = [job EXCEPT ![p].upload = nextId]
    BY <1>1, <1>w DEF InitUpload, Outside
  <2>2. job' = [job EXCEPT ![p] = [job[p] EXCEPT !.upload = nextId]]
    BY <1>t, <2>1 DEF WriterTypeOK
  <2> QED
    BY <1>t, <2>1, <2>2 DEF NewUpload, WriterTypeOK, Job
<1>2. CASE Refresh(p)
  <2>1. ~ Goto(p, "dropping")
    BY <1>t DEF Goto, WriterTypeOK
  <2>2. /\ NewUpload(uploads[job[p].upload].rev, uploads[job[p].upload].base)
        /\ job' = [job EXCEPT ![p] = [@ EXCEPT !.upload = nextId, !.resumed = FALSE]]
        /\ disk' = disk
    BY <1>2, <2>1 DEF Refresh, storeVars
  <2>3. job' = [job EXCEPT ![p] = [job[p] EXCEPT !.upload = nextId, !.resumed = FALSE]]
    BY <1>t, <2>2 DEF WriterTypeOK
  <2> QED
    BY <1>t, <2>2, <2>3 DEF NewUpload, WriterTypeOK, Job
<1>3. ASSUME \/ Start(p) \/ OpenStore(p) \/ Lookup(p) \/ LoadState(p) \/ DropState(p)
             \/ SaveInitial(p) \/ Sign(p)
      PROVE  FALSE
  BY <1>t, <1>w, <1>3 DEF Start, OpenStore, Lookup, LoadState, DropState, SaveInitial, Sign,
     Goto, Outside, WriterTypeOK
<1>4. ASSUME Close(p) \/ EngineAbort(p) \/ SignalAbort(p) \/ Crash(p) PROVE FALSE
  BY <1>t, <1>w, <1>4 DEF Close, CloseBegin, CompleteUpload, EndUpload, FetchMetadata,
     FinishClose, Outcome, Outside, Closing, EngineAbort, SignalAbort, Crash, Goto, WriterTypeOK
<1>5. ASSUME NEW k \in Parts, WriteChunk(p, k) PROVE FALSE
  <2>1. phase' = phase
    BY <1>5 DEF WriteChunk, BeginChunk, VerifyPart, DiscardState, StorePart, LosePart,
       RecordPart
  <2>2. phase[p] = "writing"
    BY <1>t, <1>5, WriterFacts DEF WriteChunk, BeginChunk, VerifyPart, DiscardState,
       StorePart, LosePart, RecordPart, Active
  <2> QED
    BY <2>1, <2>2
<1> QED
  BY <1>1, <1>2, <1>3, <1>4, <1>5 DEF ByProcess, Step, OpenChunkWriter

\* An upload that is still to be begun is nobody's.
LEMMA NextIsFresh ==
    ASSUME TypeInv, Handed, BoundUploads, BoundState, nextId \in Ids
    PROVE  /\ disk # None => disk.upload # nextId
           /\ \A q \in Procs : phase[q] \in HasUpload => job[q].upload # nextId
<1>1. uploads[nextId].status = "unused"
  BY DEF Handed, Ids, TypeInv, ServiceTypeOK
<1> QED
  BY <1>1 DEF BoundUploads, BoundState

LEMMA NewIsPrivateStep ==
    TypeInv /\ Handed /\ BoundUploads /\ BoundState /\ NewIsPrivate /\ Next => NewIsPrivate'
<1>0. SUFFICES ASSUME TypeInv, Handed, BoundUploads, BoundState, NewIsPrivate, Next,
                      NEW p \in Procs, phase'[p] = "saving"
               PROVE  /\ disk' # None => disk'.upload # job'[p].upload
                      /\ \A q \in Procs \ {p} :
                            phase'[q] \in HasUpload => job'[q].upload # job'[p].upload
  BY DEF NewIsPrivate
<1>t. WriterInv /\ WriterTypeOK /\ StoreTypeOK
  BY <1>0 DEF TypeInv, WriterInv
<1>1. CASE ByEnvironment
  BY <1>0, <1>1, EnvironmentFrame DEF NewIsPrivate
<1>2. CASE ByProcess(p)
  <2>1. nextId \in Ids /\ job'[p].upload = nextId /\ disk' = disk
    BY <1>0, <1>2, SavingStep
  <2>2. \A q \in Procs \ {p} : phase'[q] = phase[q] /\ job'[q] = job[q]
    BY <1>t, <1>2, OtherWriters DEF SameWriter
  <2> QED
    BY <1>0, <2>1, <2>2, NextIsFresh
<1>3. ASSUME NEW r \in Procs, r # p, ByProcess(r)
      PROVE  /\ disk' # None => disk'.upload # job'[p].upload
             /\ \A q \in Procs \ {p} :
                   phase'[q] \in HasUpload => job'[q].upload # job'[p].upload
  <2>1. /\ phase[p] = "saving" /\ job'[p] = job[p]
        /\ \A q \in Procs \ {r} : phase'[q] = phase[q] /\ job'[q] = job[q]
    BY <1>0, <1>t, <1>3, OtherWriters DEF SameWriter
  <2>2. /\ disk # None => disk.upload # job[p].upload
        /\ \A q \in Procs \ {p} : phase[q] \in HasUpload => job[q].upload # job[p].upload
    BY <1>0, <2>1 DEF NewIsPrivate
  <2>3. ASSUME disk' # None, disk' # disk PROVE disk'.upload # job'[p].upload
    <3>1. PICK s \in Procs : \/ SaveInitial(s) /\ disk' = StateOf(s, part[s])
                             \/ \E k \in Parts : RecordPart(s, k) /\ disk' = StateOf(s, part'[s])
      BY <1>0, <2>3, DiskWritten
    <3>2. disk'.upload = job[s].upload
      BY <3>1 DEF StateOf
    <3>3. s # p /\ phase[s] \in HasUpload
      <4>1. CASE SaveInitial(s)
        BY <1>0, <1>t, <4>1 DEF SaveInitial, Goto, HasUpload, WriterTypeOK
      <4>2. ASSUME NEW k \in Parts, RecordPart(s, k) PROVE s # p /\ phase[s] \in HasUpload
        BY <1>t, <2>1, <4>2, WriterFacts DEF RecordPart, Active, HasUpload
      <4> QED
        BY <3>1, <4>1, <4>2
    <3> QED
      BY <2>1, <2>2, <3>2, <3>3
  <2>4. ASSUME phase'[r] \in HasUpload PROVE job'[r].upload # job'[p].upload
    <3>1. KeepsJob(r) \/ TakesOver(r) \/ Begins(r)
      BY <1>0, <1>3, <2>4, JobStep
    <3>2. CASE Begins(r)
      <4>1. nextId \in Ids /\ job'[r].upload = nextId
        BY <3>2 DEF Begins, NewUpload
      <4> QED
        BY <1>0, <2>1, <4>1, NextIsFresh DEF HasUpload
    <3> QED
      BY <1>3, <2>1, <2>2, <3>1, <3>2 DEF KeepsJob, TakesOver
  <2> QED
    BY <2>1, <2>2, <2>3, <2>4
<1> QED
  BY <1>0, <1>1, <1>2, <1>3, NextSplit

\* Who records in the state file holds its lock, and no one else does.
LEMMA RecorderHolds ==
    ASSUME TypeInv, OneHolder, ReleasedHalted, NEW p \in Procs, Enabled(p),
           SaveInitial(p) \/ \E k \in Parts : RecordPart(p, k) /\ MayRecord(p)
    PROVE  store[p] = "held" /\ \A q \in Procs : store[q] = "held" => q = p
<1>t. WriterInv
  BY DEF TypeInv
<1>1. ASSUME NEW k \in Parts, RecordPart(p, k) PROVE phase[p] = "writing"
  BY <1>t, <1>1, WriterFacts DEF RecordPart, Active
<1>2. store[p] # "released"
  BY <1>1 DEF ReleasedHalted, SaveInitial, MayRecord, Closing
<1> QED
  BY <1>2 DEF Enabled, OneHolder

LEMMA HolderKnowsStep ==
    TypeInv /\ Locking /\ Next => HolderKnows'
<1>0. SUFFICES ASSUME TypeInv, Locking, Next, NEW p \in Procs,
                      store'[p] = "held", phase'[p] \in {"signing", "writing"},
                      disk' # None, disk'.upload = job'[p].upload,
                      NEW k \in Parts, disk'.completed[k] # None
               PROVE  part'[p][k] # None
  BY DEF HolderKnows
<1>t. /\ WriterInv /\ WriterTypeOK /\ StoreTypeOK
      /\ OneHolder /\ ReleasedHalted /\ NewIsPrivate /\ HolderKnows
  BY <1>0 DEF TypeInv, WriterInv, Locking
<1>1. CASE disk' # disk
  <2>1. PICK s \in Procs : Enabled(s) /\
             \/ SaveInitial(s) /\ disk' = StateOf(s, part[s])
             \/ \E l \in Parts : RecordPart(s, l) /\ MayRecord(s) /\ disk' = StateOf(s, part'[s])
    BY <1>0, <1>1, DiskWritten
  <2>2. UNCHANGED store /\ disk' = StateOf(s, part'[s])
    BY <2>1 DEF SaveInitial, RecordPart
  <2>3. s = p
    BY <1>0, <1>t, <2>1, <2>2, RecorderHolds
  <2> QED
    BY <1>0, <2>2, <2>3 DEF StateOf
<1>2. ASSUME disk' = disk, store[p] = "held", phase[p] \in {"signing", "writing"},
             job'[p] = job[p], part[p][k] # None => part'[p][k] # None
      PROVE  part'[p][k] # None
  BY <1>0, <1>t, <1>2 DEF HolderKnows
<1>3. CASE disk' = disk /\ ByEnvironment
  BY <1>0, <1>2, <1>3, EnvironmentFrame
<1>4. ASSUME disk' = disk, NEW r \in Procs, r # p, ByProcess(r) PROVE part'[p][k] # None
  BY <1>0, <1>t, <1>2, <1>4, OtherWriters DEF SameWriter
<1>5. CASE disk' = disk /\ ByProcess(p)
  <2>w. ~ \E ph \in Outside : Leave(p, ph)
    BY <1>0, <1>t DEF Leave, Goto, Outside, WriterTypeOK
  <2>1. CASE LoadState(p)
    <3>1. part' = [part EXCEPT ![p] = disk.completed]
      BY <1>0, <1>t, <2>1 DEF LoadState, Goto, WriterTypeOK
    <3> QED
      BY <1>0, <1>t, <1>5, <3>1 DEF WriterTypeOK
  <2>2. ASSUME SaveInitial(p) PROVE FALSE
    BY <1>0, <1>t, <1>5, <2>2 DEF SaveInitial, NewIsPrivate
  <2>3. CASE Sign(p)
    BY <1>0, <1>2, <1>5, <2>3, <2>w DEF Sign, Outside
  <2>4. ASSUME NEW l \in Parts, WriteChunk(p, l) PROVE part'[p][k] # None
    <3>1. UNCHANGED <<job, phase, store>>
      BY <2>4 DEF WriteChunk, BeginChunk, VerifyPart, DiscardState, StorePart, LosePart,
         RecordPart, storeVars
    <3>2. part[p][k] # None => part'[p][k] # None
      BY <1>0, <2>4, CallKeepsParts
    <3> QED
      BY <1>0, <1>2, <1>5, <3>1, <3>2
  <2>5. ASSUME \/ Start(p) \/ OpenStore(p) \/ Lookup(p) \/ DropState(p) \/ InitUpload(p)
               \/ Refresh(p)
        PROVE  FALSE
    BY <1>0, <1>t, <2>w, <2>5 DEF Start, OpenStore, Lookup, DropState, InitUpload, Refresh,
       Goto, Outside, WriterTypeOK
  <2>6. ASSUME Close(p) \/ EngineAbort(p) \/ Crash(p) PROVE FALSE
    BY <1>0, <1>t, <2>w, <2>6 DEF Close, CloseBegin, CompleteUpload, EndUpload, FetchMetadata,
       FinishClose, Outcome, Outside, EngineAbort, Crash, Goto, WriterTypeOK
  <2>7. ASSUME SignalAbort(p) PROVE FALSE
    BY <1>0, <1>t, <2>7 DEF SignalAbort, ReleaseLock, StoreTypeOK
  <2> QED
    BY <1>5, <2>1, <2>2, <2>3, <2>4, <2>5, <2>6, <2>7 DEF ByProcess, Step, OpenChunkWriter
<1> QED
  BY <1>0, <1>1, <1>3, <1>4, <1>5, NextSplit

-----------------------------------------------------------------------------
(* The invariant, and the two properties. *)

ProgressInv == IInv /\ Claims /\ Locking

LEMMA ProgressInvInit == Init => ProgressInv
<1>1. SUFFICES ASSUME Init PROVE ProgressInv
  OBVIOUS
<1>2. IInv
  BY <1>1, IInvInit
<1>3. /\ \A p \in Procs : phase[p] = "idle" /\ store[p] = "none"
      /\ \A p \in Procs, k \in Parts : chunk[p][k] = "todo" /\ part[p][k] = None
      /\ \A u \in Ids, k \in Parts : uploads[u].parts[k] = None
      /\ disk = None
  BY <1>1 DEF Init, StoreInit, ServiceInit, NoData
<1>4. Claims
  BY <1>3 DEF Claims, UnusedEmpty, DiskClaims, PartClaims, StoredClaims, Has
<1>5. Locking
  BY <1>3 DEF Locking, OneHolder, ReleasedHalted, NewIsPrivate, HolderKnows
<1> QED
  BY <1>2, <1>4, <1>5 DEF ProgressInv

LEMMA ProgressInvStep == ProgressInv /\ [Next]_vars => ProgressInv'
<1>1. SUFFICES ASSUME ProgressInv, [Next]_vars PROVE ProgressInv'
  OBVIOUS
<1>2. IInv'
  BY <1>1, IInvStep DEF ProgressInv
<1>3. CASE Next
  <2>1. Claims'
    BY <1>1, <1>3, ClaimsStep DEF ProgressInv, IInv
  <2>2. Locking'
    BY <1>1, <1>3, OneHolderStep, ReleasedHaltedStep, NewIsPrivateStep, HolderKnowsStep
    DEF ProgressInv, IInv, Locking
  <2> QED
    BY <1>2, <2>1, <2>2 DEF ProgressInv
<1>4. CASE UNCHANGED vars
  <2>1. Claims'
    BY <1>1, <1>4 DEF ProgressInv, vars, Claims, UnusedEmpty, DiskClaims, PartClaims,
       StoredClaims, Has
  <2>2. Locking'
    BY <1>1, <1>4 DEF ProgressInv, vars, Locking, OneHolder, ReleasedHalted, NewIsPrivate,
       HolderKnows
  <2> QED
    BY <1>2, <2>1, <2>2 DEF ProgressInv
<1> QED
  BY <1>1, <1>3, <1>4

\* A resume never skips a part that is missing: what the state file or a live
\* writer lists as complete, the upload it names holds, for any number of
\* writers, parts, expiries and crashes (multipart_resume.go:131-239,
\* chunk_writer.go:107-149 and 323-365).
THEOREM ClaimsAreStored == Spec => []ClaimedPartsExist
<1>1. ProgressInv => ClaimedPartsExist
  BY DEF ProgressInv, Claims, DiskClaims, PartClaims, Has, ClaimedPartsExist
<1> QED
  BY <1>1, ProgressInvInit, ProgressInvStep, PTL DEF Spec

\* Progress is never lost to another writer of the same state file: each save
\* of an upload lists all that the file listed for it.  Only the holder of the
\* lock saves, because a writer that a signal robbed of the lock is marked
\* aborted (chunk_writer.go:343-352 and 401-418), and the holder has read or
\* written all that is there.
THEOREM ProgressIsKept == Spec => KeepsProgress
<1>1. ASSUME ProgressInv, Next, disk # None, disk' # None, disk'.upload = disk.upload,
             disk' # disk, NEW k \in Parts, disk.completed[k] # None
      PROVE  disk'.completed[k] # None
  <2>t. /\ TypeInv /\ WriterInv /\ OneHolder /\ ReleasedHalted /\ NewIsPrivate /\ HolderKnows
    BY <1>1 DEF ProgressInv, IInv, TypeInv, Locking
  <2>1. PICK s \in Procs : Enabled(s) /\
             \/ SaveInitial(s) /\ disk' = StateOf(s, part[s])
             \/ \E l \in Parts : RecordPart(s, l) /\ MayRecord(s) /\ disk' = StateOf(s, part'[s])
    BY <1>1, <2>t, DiskWritten
  <2>2. disk'.upload = job[s].upload /\ store[s] = "held"
    BY <2>t, <2>1, RecorderHolds DEF StateOf
  <2>3. ~ SaveInitial(s)
    BY <1>1, <2>t, <2>2 DEF SaveInitial, NewIsPrivate
  <2>4. PICK l \in Parts : RecordPart(s, l) /\ disk' = StateOf(s, part'[s])
    BY <2>1, <2>3
  <2>5. phase[s] = "writing"
    BY <2>t, <2>4, WriterFacts DEF RecordPart, Active
  <2>6. part[s][k] # None
    BY <1>1, <2>t, <2>2, <2>5 DEF HolderKnows
  <2>7. part'[s][k] # None
    BY <2>t, <2>4, <2>6, CallKeepsParts DEF WriteChunk
  <2> QED
    BY <2>4, <2>7 DEF StateOf
<1>2. ProgressInv /\ [Next]_vars =>
        [disk # None /\ disk' # None /\ disk'.upload = disk.upload
           => \A k \in Parts : disk.completed[k] # None => disk'.completed[k] # None]_disk
  BY <1>1 DEF vars
<1> QED
  BY <1>2, ProgressInvInit, ProgressInvStep, PTL DEF Spec, KeepsProgress


-----------------------------------------------------------------------------
(* Revisions are handed out in order: an upload is newer than the version  *)
(* it replaces.                                                            *)

RevisionOrder ==
    /\ dest.rev < nextId
    /\ \A u \in Ids : uploads[u].status # "unused" =>
         uploads[u].base < uploads[u].rev /\ uploads[u].rev < nextId

LEMMA DestStays ==
    ASSUME NEW p \in Procs, ByProcess(p), ~ EndUpload(p)
    PROVE  UNCHANGED dest
<1>1. ASSUME Start(p) \/ OpenChunkWriter(p) PROVE UNCHANGED dest
  BY <1>1 DEF Start, OpenChunkWriter, OpenStore, Lookup, LoadState, DropState, InitUpload,
     SaveInitial, Sign, Refresh, serviceVars
<1>2. ASSUME Close(p) \/ EngineAbort(p) \/ SignalAbort(p) \/ Crash(p) PROVE UNCHANGED dest
  BY <1>2 DEF Close, CloseBegin, CompleteUpload, FetchMetadata, FinishClose,
     EngineAbort, SignalAbort, Crash, serviceVars
<1>3. ASSUME NEW k \in Parts, WriteChunk(p, k) PROVE UNCHANGED dest
  BY <1>3 DEF WriteChunk, BeginChunk, VerifyPart, DiscardState, StorePart, LosePart,
     RecordPart, serviceVars
<1> QED
  BY <1>1, <1>2, <1>3 DEF ByProcess, Step

\* What a step may do to the destination.
LEMMA DestChange ==
    ASSUME Next
    PROVE  \/ UNCHANGED dest
           \/ ForeignWrite \/ ForeignDelete
           \/ \E p \in Procs : /\ phase[p] = "ending"
                               /\ EndAccepted(job[p].upload, EditedRev(p))
                               /\ Commit(job[p].upload) /\ UNCHANGED nextId
<1>1. ASSUME NEW p \in Procs, ByProcess(p), ~ EndUpload(p) PROVE UNCHANGED dest
  BY <1>1, DestStays
<1>2. ASSUME NEW p \in Procs, EndUpload(p)
      PROVE  UNCHANGED dest \/ (/\ phase[p] = "ending"
                                /\ EndAccepted(job[p].upload, EditedRev(p))
                                /\ Commit(job[p].upload) /\ UNCHANGED nextId)
  BY <1>2 DEF EndUpload
<1>3. CASE ByEnvironment /\ ~ ForeignWrite /\ ~ ForeignDelete
  BY <1>3 DEF ByEnvironment, StoreLate, ExpireUpload, EditSource, Terminated, vars,
     serviceVars
<1> QED
  BY <1>1, <1>2, <1>3, NextSplit DEF ByEnvironment

LEMMA NextIdGrows == Next => nextId' \in {nextId, nextId + 1}
<1>1. ASSUME NEW p \in Procs, ByProcess(p) PROVE nextId' \in {nextId, nextId + 1}
  <2>1. ASSUME Start(p) \/ OpenChunkWriter(p) PROVE nextId' \in {nextId, nextId + 1}
    BY <2>1 DEF Start, OpenChunkWriter, OpenStore, Lookup, LoadState, DropState, InitUpload,
       SaveInitial, Sign, Refresh, NewUpload, serviceVars
  <2>2. ASSUME Close(p) \/ EngineAbort(p) \/ SignalAbort(p) \/ Crash(p) PROVE UNCHANGED nextId
    BY <2>2 DEF Close, CloseBegin, CompleteUpload, EndUpload, FetchMetadata, FinishClose,
       EngineAbort, SignalAbort, Crash, serviceVars
  <2>3. ASSUME NEW k \in Parts, WriteChunk(p, k) PROVE UNCHANGED nextId
    BY <2>3 DEF WriteChunk, BeginChunk, VerifyPart, DiscardState, StorePart, LosePart,
       RecordPart, serviceVars
  <2> QED
    BY <1>1, <2>1, <2>2, <2>3 DEF ByProcess, Step
<1>2. CASE ByEnvironment
  BY <1>2 DEF ByEnvironment, StoreLate, ExpireUpload, EditSource, ForeignWrite, ForeignDelete,
     Terminated, vars, serviceVars
<1> QED
  BY <1>1, <1>2, NextSplit

LEMMA RevisionOrderStep ==
    TypeInv /\ Handed /\ RevisionOrder /\ Next => RevisionOrder'
<1>0. SUFFICES ASSUME TypeInv, Handed, RevisionOrder, Next PROVE RevisionOrder'
  OBVIOUS
<1>t. /\ uploads \in [Ids -> Upload] /\ nextId \in Nat /\ dest.rev \in Nat
      /\ nextId' \in Nat /\ nextId <= nextId' /\ WriterInv
      /\ \A u \in Ids : uploads[u].rev \in Nat /\ uploads[u].base \in Nat
  BY <1>0, NextIdGrows DEF TypeInv, ServiceTypeOK, Upload, Revs
<1>1. dest'.rev < nextId'
  <2>1. CASE UNCHANGED dest
    BY <1>0, <1>t, <2>1 DEF RevisionOrder
  <2>2. CASE ForeignWrite
    BY <1>t, <2>2 DEF ForeignWrite
  <2>3. CASE ForeignDelete
    BY <1>0, <1>t, <2>3 DEF ForeignDelete, RevisionOrder
  <2>4. ASSUME NEW p \in Procs, phase[p] = "ending", Commit(job[p].upload),
               EndAccepted(job[p].upload, EditedRev(p))
        PROVE  dest'.rev < nextId'
    <3>1. job[p].upload \in Ids
      BY <1>t, <2>4, WriterFacts DEF HasUpload, Closing
    <3> QED
      BY <1>0, <1>t, <2>4, <3>1 DEF Commit, EndAccepted, RevisionOrder
  <2> QED
    BY <1>0, <2>1, <2>2, <2>3, <2>4, DestChange
<1>2. ASSUME NEW u \in Ids, uploads'[u].status # "unused"
      PROVE  uploads'[u].base < uploads'[u].rev /\ uploads'[u].rev < nextId'
  <2>1. ASSUME uploads[u].status # "unused", uploads'[u].base = uploads[u].base,
               uploads'[u].rev = uploads[u].rev
        PROVE  uploads'[u].base < uploads'[u].rev /\ uploads'[u].rev < nextId'
    BY <1>0, <1>t, <2>1 DEF RevisionOrder
  <2>2. CASE UNCHANGED uploads
    BY <1>2, <2>1, <2>2
  <2>3. ASSUME NEW r, NEW b, NewUpload(r, b), Ordered(r, b)
        PROVE  uploads'[u].base < uploads'[u].rev /\ uploads'[u].rev < nextId'
    <3>1. b < r /\ r < nextId'
      BY <1>0, <1>t, <2>3 DEF Ordered, NewUpload, RevisionOrder
    <3>2. CASE u = nextId
      BY <1>t, <2>3, <3>1, <3>2 DEF NewUpload
    <3>3. CASE u # nextId
      BY <1>t, <1>2, <2>1, <2>3, <3>3 DEF NewUpload
    <3> QED
      BY <3>2, <3>3
  <2>4. ASSUME NEW v \in Ids, NEW k \in Parts, NEW b \in Bytes, PutPart(v, k, b)
        PROVE  uploads'[u].base < uploads'[u].rev /\ uploads'[u].rev < nextId'
    BY <1>t, <1>2, <2>1, <2>4 DEF PutPart, Upload
  <2>5. ASSUME NEW v \in Ids, NEW s \in {"expired", "assembled", "committed"},
               uploads[v].status # "unused", uploads' = [uploads EXCEPT ![v].status = s]
        PROVE  uploads'[u].base < uploads'[u].rev /\ uploads'[u].rev < nextId'
    BY <1>t, <1>2, <2>1, <2>5 DEF Upload
  <2> QED
    BY <1>0, <2>2, <2>3, <2>4, <2>5, UploadsChange
<1> QED
  BY <1>1, <1>2 DEF RevisionOrder
-----------------------------------------------------------------------------
(* The steps of the writers, seen as steps of ConditionalReplace. *)

Seen(p) == IF InSession(p) THEN Observed(p) ELSE None

LEMMA SessionSeen ==
    ASSUME TypeInv, NEW p \in Procs, InSession(p)
    PROVE  /\ Observed(p) \in Abstract!Session /\ Seen(p) # None
           /\ phase[p] \notin Outside
<1>t. WriterInv /\ WriterTypeOK
  BY DEF TypeInv, WriterInv
<1>1. job[p] \in Job /\ seen[p] \in [Parts -> SUBSET Bytes]
  BY <1>t DEF WriterTypeOK
<1>2. Observed(p) \in Abstract!Session
  BY <1>1 DEF Observed, Abstract!Session, Abstract!Revs, Revs, Job
<1>3. phase[p] \notin Outside
  BY DEF InSession, Opening, Outside
<1> QED
  BY <1>2, <1>3, NoSessionAssumption DEF Seen

\* A step that changes nothing of what a writer has observed.
LEMMA Stutters ==
    ASSUME UNCHANGED <<dest, source>>, \A q \in Procs : Seen(q)' = Seen(q)
    PROVE  UNCHANGED Abstract!vars
  BY DEF Abstract!vars, Seen

\* A step that ends a session, if there is one.
LEMMA Quits ==
    ASSUME TypeInv, UNCHANGED <<dest, source>>, NEW p \in Procs, ~ InSession(p)',
           \A q \in Procs \ {p} : Seen(q)' = Seen(q)
    PROVE  Abstract!Quit(p) \/ UNCHANGED Abstract!vars
<1>1. CASE InSession(p)
  <2>1. Seen(p) # None
    BY <1>1, SessionSeen
  <2> QED
    BY <1>1, <2>1 DEF Abstract!Quit, Seen
<1>2. CASE ~ InSession(p)
  BY <1>2, Stutters DEF Seen
<1> QED
  BY <1>1, <1>2

\* A step within a session that keeps what was observed.
LEMMA Continues ==
    ASSUME UNCHANGED <<dest, source, seen>>, NEW p \in Procs,
           InSession(p) <=> InSession(p)',
           phase[p] \in {"locking", "lookup"} <=> phase'[p] \in {"locking", "lookup"},
           job'[p].expected = job[p].expected, job'[p].base = job[p].base,
           \A q \in Procs \ {p} : Seen(q)' = Seen(q)
    PROVE  UNCHANGED Abstract!vars
<1>1. Seen(p)' = Seen(p)
  BY DEF Seen, Observed
<1> QED
  BY <1>1, Stutters
LEMMA SourceStays ==
    ASSUME NEW p \in Procs, ByProcess(p)
    PROVE  UNCHANGED source
  BY DEF ByProcess, Step, OpenChunkWriter, WriteChunk, Close, envVars,
     Start, OpenStore, Lookup, LoadState, DropState, InitUpload, SaveInitial, Sign, Refresh,
     BeginChunk, VerifyPart, DiscardState, StorePart, LosePart, RecordPart, CloseBegin,
     CompleteUpload, EndUpload, FetchMetadata, FinishClose, EngineAbort, SignalAbort, Crash

LEMMA OthersSeen ==
    ASSUME WriterInv, StoreTypeOK, NEW p \in Procs, ByProcess(p), NEW q \in Procs, q # p
    PROVE  Seen(q)' = Seen(q)
  BY OtherWriters DEF SameWriter, Seen, InSession, Observed

LEMMA StartBegins ==
    ASSUME TypeInv, NEW p \in Procs, Start(p)
    PROVE  Abstract!Begin(p)
<1>t. /\ WriterInv /\ WriterTypeOK /\ StoreTypeOK /\ job[p] \in Job
      /\ UNCHANGED <<dest, source>>
  BY WriterFacts DEF TypeInv, WriterInv, Start, serviceVars, envVars
<1>1. \A q \in Procs \ {p} : Seen(q)' = Seen(q)
  BY <1>t, OthersSeen DEF ByProcess, Step
<1>2. ~ InSession(p) /\ InSession(p)'
  BY <1>t DEF Start, InSession, Opening, Goto, WriterTypeOK
<1>3. PICK e \in {None, dest.rev} :
         job' = [job EXCEPT ![p] = [@ EXCEPT !.stamp = source.stamp, !.expected = e]]
  BY DEF Start
<1>4. job'[p].expected = e
  <2>1. job' = [job EXCEPT ![p] = [job[p] EXCEPT !.stamp = source.stamp, !.expected = e]]
    BY <1>t, <1>3 DEF WriterTypeOK
  <2> QED
    BY <1>t, <2>1 DEF WriterTypeOK, Job
<1>5. seen'[p] = [k \in Parts |-> {source.data[k]}] /\ phase'[p] = "locking"
  BY <1>t DEF Start, Goto, WriterTypeOK
<1>6. Seen(p)' = [expected |-> e, base |-> None, seen |-> [k \in Parts |-> {source.data[k]}]]
  BY <1>2, <1>4, <1>5 DEF Seen, Observed
<1> QED
  BY <1>t, <1>1, <1>2, <1>6 DEF Abstract!Begin, Seen

LEMMA LookupBinds ==
    ASSUME TypeInv, NEW p \in Procs, Lookup(p), Goto(p, "loading"),
           job[p].expected \in {None, dest.rev}, job' = [job EXCEPT ![p].base = dest.rev],
           UNCHANGED seen
    PROVE  Abstract!Bind(p)
<1>t. /\ WriterInv /\ WriterTypeOK /\ StoreTypeOK /\ job[p] \in Job
      /\ UNCHANGED <<dest, source>>
  BY WriterFacts DEF TypeInv, WriterInv, Lookup, serviceVars, envVars
<1>1. \A q \in Procs \ {p} : Seen(q)' = Seen(q)
  BY <1>t, OthersSeen DEF ByProcess, Step, OpenChunkWriter
<1>2. /\ InSession(p) /\ InSession(p)' /\ phase[p] = "lookup" /\ phase'[p] = "loading"
  BY <1>t DEF Lookup, InSession, Opening, Goto, WriterTypeOK
<1>3. Seen(p) = [expected |-> job[p].expected, base |-> None, seen |-> seen[p]]
  BY <1>2 DEF Seen, Observed
<1>4. job'[p].expected = job[p].expected /\ job'[p].base = dest.rev
  <2>1. job' = [job EXCEPT ![p] = [job[p] EXCEPT !.base = dest.rev]]
    BY <1>t DEF WriterTypeOK
  <2> QED
    BY <1>t, <2>1 DEF WriterTypeOK, Job
<1>5. Seen(p)' = [expected |-> job[p].expected, base |-> dest.rev, seen |-> seen[p]]
  BY <1>2, <1>4 DEF Seen, Observed
<1>6. Seen(p)' = [Seen(p) EXCEPT !.base = dest.rev]
  BY <1>3, <1>5
<1>7. Seen(p) # None
  BY <1>2, SessionSeen
<1> DEFINE session == [q \in Procs |-> Seen(q)]
<1>8. session' = [session EXCEPT ![p].base = dest.rev]
  <2>1. session' = [session EXCEPT ![p] = Seen(p)']
    BY <1>1
  <2>2. [session EXCEPT ![p].base = dest.rev]
          = [session EXCEPT ![p] = [Seen(p) EXCEPT !.base = dest.rev]]
    OBVIOUS
  <2> QED
    BY <1>6, <2>1, <2>2
<1>9. session[p] # None /\ session[p].base = None /\ session[p].expected \in {None, dest.rev}
  BY <1>3, <1>7
<1> QED
  BY <1>t, <1>8, <1>9 DEF Abstract!Bind, Seen

LEMMA EndReplaces ==
    ASSUME IInv, RevisionOrder, NEW p \in Procs, EndUpload(p),
           EndAccepted(job[p].upload, EditedRev(p)), Commit(job[p].upload), ~ InSession(p)'
    PROVE  Abstract!Replace(p)
<1> DEFINE u == job[p].upload
<1>t. /\ WriterInv /\ WriterTypeOK /\ StoreTypeOK /\ TypeInv
      /\ phase[p] = "ending" /\ u \in Ids /\ uploads \in [Ids -> Upload]
      /\ UNCHANGED source
  BY WriterFacts DEF IInv, TypeInv, WriterInv, ServiceTypeOK, EndUpload, HasUpload, Closing, envVars
<1>1. \A q \in Procs \ {p} : Seen(q)' = Seen(q)
  BY <1>t, OthersSeen DEF ByProcess, Step, Close
<1>2. InSession(p) /\ Seen(p) # None
  BY <1>t, SessionSeen DEF InSession
<1>3. /\ Seen(p).base = job[p].base /\ Seen(p).expected = job[p].expected
      /\ Seen(p).seen = seen[p]
  BY <1>t, <1>2 DEF Seen, Observed
<1>4. uploads[u].base = job[p].base /\ job[p].expected \in {None, job[p].base}
  BY <1>t DEF IInv, BoundUploads, ExpectedHolds, HasUpload, Closing, Outside
<1>5. dest.rev = job[p].base
  BY <1>4 DEF EndAccepted, EditedRev
<1>6. uploads[u].rev \in Ids \ {dest.rev}
  <2>1. uploads[u].status # "unused" /\ uploads[u].rev \in Revs /\ uploads[u].base \in Revs
    BY <1>t DEF EndAccepted, Upload
  <2>2. uploads[u].base < uploads[u].rev
    BY <1>t, <2>1 DEF RevisionOrder
  <2> QED
    BY <1>4, <1>5, <2>1, <2>2, BoundAssumption DEF Revs, Ids
<1>7. /\ part[p] \in [Parts -> Bytes] /\ \A k \in Parts : part[p][k] \in seen[p][k]
      /\ uploads[u].parts = part[p]
  <2>1. uploads[u].parts = part[p]
    BY <1>t DEF IInv, EndingFixed
  <2>2. ASSUME NEW k \in Parts PROVE part[p][k] \in seen[p][k] /\ part[p][k] \in Bytes
    <3>1. chunk[p][k] = "done"
      BY <1>t DEF WriterInv, CallsFollowPhase, Closing
    <3> QED
      BY <1>t, <3>1 DEF IInv, CallsSeen, WriterTypeOK
  <2>3. part[p] \in Data
    BY <1>t, WriterFacts
  <2> QED
    BY <2>1, <2>2, <2>3 DEF Data
<1>8. dest' = [rev |-> uploads[u].rev, data |-> part[p]]
  BY <1>7 DEF Commit
<1>9. \E r \in Abstract!Ids \ {dest.rev}, d \in [Parts -> Bytes] :
        /\ \A k \in Parts : d[k] \in seen[p][k]
        /\ dest' = [rev |-> r, data |-> d]
  BY <1>6, <1>7, <1>8 DEF Ids, Abstract!Ids
<1> QED
  BY <1>t, <1>1, <1>2, <1>3, <1>4, <1>5, <1>9 DEF Abstract!Replace, Seen
\* A process either ends its session, or keeps, begins or advances it.
LEMMA WriterMoves ==
    ASSUME IInv, RevisionOrder, NEW p \in Procs, ByProcess(p)
    PROVE  Abstract!Next \/ UNCHANGED Abstract!vars
<1>t. /\ WriterInv /\ WriterTypeOK /\ StoreTypeOK /\ TypeInv
      /\ UNCHANGED source /\ \A q \in Procs \ {p} : Seen(q)' = Seen(q)
  BY SourceStays, OthersSeen DEF IInv, TypeInv, WriterInv
<1> DEFINE Moved == Abstract!Next \/ UNCHANGED Abstract!vars
<1>1. ASSUME ~ InSession(p)', ~ EndUpload(p) PROVE Moved
  BY <1>t, <1>1, DestStays, Quits DEF Abstract!Next
<1>2. ASSUME NEW ph \in Outside \union {"closed", "closeFailed", "closeConflict", "fetching"},
             Goto(p, ph)
      PROVE  ~ InSession(p)'
  BY <1>t, <1>2 DEF Goto, InSession, Outside, Opening, WriterTypeOK
<1>3. CASE \E ph \in Outside : Leave(p, ph)
  <2>1. ~ EndUpload(p)
    BY <1>t, <1>3 DEF EndUpload, Leave, Goto, Outside, WriterTypeOK
  <2> QED
    BY <1>1, <1>2, <1>3, <2>1 DEF Leave
<1>4. CASE Start(p)
  BY <1>t, <1>4, StartBegins DEF Abstract!Next
<1>5. CASE OpenChunkWriter(p) /\ ~ \E ph \in Outside : Leave(p, ph)
  <2>1. UNCHANGED <<dest, source, seen>>
    BY <1>t, <1>5 DEF Outside, OpenChunkWriter, OpenStore, Lookup, LoadState, DropState,
       InitUpload, SaveInitial, Sign, Refresh, serviceVars, callVars
  <2>2. CASE Lookup(p)
    BY <1>t, <1>5, <2>1, <2>2, LookupBinds DEF Abstract!Next, Lookup, Outside
  <2>3. CASE ~ Lookup(p)
    <3>1. /\ InSession(p) /\ InSession(p)'
          /\ phase[p] \in {"locking", "lookup"} <=> phase'[p] \in {"locking", "lookup"}
      BY <1>t, <1>5, <2>3 DEF OpenChunkWriter, OpenStore, LoadState, DropState, InitUpload,
         SaveInitial, Sign, Refresh, Goto, InSession, Opening, Outside, WriterTypeOK
    <3>2. job'[p].expected = job[p].expected /\ job'[p].base = job[p].base
      BY <1>t, <1>5, <2>3, JobKept
    <3> QED
      BY <1>t, <2>1, <3>1, <3>2, Continues
  <2> QED
    BY <2>2, <2>3
<1>6. ASSUME UNCHANGED <<phase, job, seen>>, ~ EndUpload(p) PROVE Moved
  BY <1>t, <1>6, DestStays, Continues DEF InSession
<1>7. ASSUME NEW k \in Parts, WriteChunk(p, k) PROVE Moved
  <2>1. UNCHANGED <<phase, job, seen, dest>>
    BY <1>7 DEF WriteChunk, BeginChunk, VerifyPart, DiscardState, StorePart, LosePart,
       RecordPart, serviceVars
  <2> QED
    BY <1>t, <2>1, Continues DEF InSession
<1>8. CASE SignalAbort(p)
  BY <1>6, <1>8, <1>t DEF SignalAbort, EndUpload, Goto, WriterTypeOK
<1>9. CASE CloseBegin(p) \/ CompleteUpload(p)
  <2>1. UNCHANGED <<dest, job, seen>> /\ ~ EndUpload(p) /\ phase[p] \in {"writing", "completing"}
    BY <1>9 DEF CloseBegin, CompleteUpload, EndUpload, serviceVars, callVars
  <2>2. phase'[p] \in {"completing", "ending", "closeFailed"}
    BY <1>t, <1>9 DEF CloseBegin, CompleteUpload, Goto, WriterTypeOK
  <2>3. CASE phase'[p] = "closeFailed"
    BY <1>1, <2>1, <2>3 DEF InSession, Opening
  <2>4. CASE phase'[p] # "closeFailed"
    BY <1>t, <2>1, <2>2, <2>4, Continues DEF InSession, Opening
  <2> QED
    BY <2>3, <2>4
<1>10. CASE EndUpload(p)
  <2>1. ~ InSession(p)'
    BY <1>2, <1>10 DEF EndUpload
  <2>2. CASE EndAccepted(job[p].upload, EditedRev(p)) /\ Commit(job[p].upload)
    BY <1>10, <2>1, <2>2, EndReplaces DEF Abstract!Next
  <2>3. CASE UNCHANGED dest
    BY <1>t, <2>1, <2>3, Quits DEF Abstract!Next
  <2> QED
    BY <1>10, <2>2, <2>3 DEF EndUpload
<1>11. CASE FetchMetadata(p)
  <2>1. ~ EndUpload(p)
    BY <1>11 DEF FetchMetadata, EndUpload
  <2> QED
    BY <1>1, <1>2, <1>11, <2>1 DEF FetchMetadata
<1>12. ASSUME FinishClose(p) \/ EngineAbort(p) \/ Crash(p)
       PROVE  \E ph \in Outside : Leave(p, ph)
  BY <1>12 DEF FinishClose, EngineAbort, Crash, Outcome, Outside
<1> QED
  BY <1>3, <1>4, <1>5, <1>7, <1>8, <1>9, <1>10, <1>11, <1>12 DEF ByProcess, Step, Close
LEMMA EnvironmentMoves ==
    ASSUME IInv, RevisionOrder, ByEnvironment
    PROVE  Abstract!Next \/ UNCHANGED Abstract!vars
<1>t. /\ TypeInv /\ WriterTypeOK /\ SourceTypeOK /\ nextId \in Nat /\ dest.rev \in Nat
      /\ UNCHANGED <<phase, job>>
  BY EnvironmentFrame DEF IInv, TypeInv, WriterInv, ServiceTypeOK, Revs
<1>1. ASSUME UNCHANGED <<dest, source, seen>> PROVE UNCHANGED Abstract!vars
  BY <1>t, <1>1 DEF Abstract!vars, InSession, Observed
<1>2. CASE EditSource
  <2>1. UNCHANGED dest
    BY <1>2 DEF EditSource, serviceVars
  <2>2. source'.data \in [Parts -> Bytes]
    BY <1>t, <1>2 DEF EditSource, SourceTypeOK
  <2>3. ASSUME NEW q \in Procs, InSession(q)
        PROVE  Seen(q)' = [Seen(q) EXCEPT !.seen =
                             [k \in Parts |-> Seen(q).seen[k] \union {source'.data[k]}]]
    <3>1. phase[q] \notin Outside
      BY <1>t, <2>3, SessionSeen
    <3>2. seen'[q] = [k \in Parts |-> seen[q][k] \union {source'.data[k]}]
      BY <1>2, <3>1 DEF EditSource
    <3>3. Seen(q) = Observed(q) /\ Seen(q)' = Observed(q)'
      BY <1>t, <2>3 DEF Seen, InSession
    <3>4. seen'[q] = [k \in Parts |-> Seen(q).seen[k] \union {source'.data[k]}]
      BY <3>2, <3>3 DEF Observed
    <3>5. Observed(q)' = [Observed(q) EXCEPT !.seen = seen'[q]]
      BY <1>t DEF Observed
    <3> QED
      BY <3>3, <3>4, <3>5
  <2>4. ASSUME NEW q \in Procs
        PROVE  Seen(q)' = IF Seen(q) = None THEN None ELSE
                 [Seen(q) EXCEPT !.seen =
                    [k \in Parts |-> Seen(q).seen[k] \union {source'.data[k]}]]
    <3>1. CASE InSession(q)
      BY <1>t, <2>3, <3>1, SessionSeen
    <3>2. CASE ~ InSession(q)
      BY <1>t, <3>2 DEF Seen, InSession
    <3> QED
      BY <3>1, <3>2
  <2>5. Abstract!EditSource
    BY <2>1, <2>2, <2>4 DEF Abstract!EditSource, Seen
  <2> QED
    BY <2>5 DEF Abstract!Next
<1>3. CASE ForeignWrite \/ ForeignDelete
  <2>1. UNCHANGED <<source, seen>>
    BY <1>3 DEF ForeignWrite, ForeignDelete, callVars
  <2>2. dest' \in [rev : Revs \ {dest.rev}, data : {NoData}]
    <3>1. CASE ForeignWrite
      <4>1. nextId \in Ids /\ nextId # dest.rev /\ dest' = [rev |-> nextId, data |-> NoData]
        BY <1>t, <3>1 DEF ForeignWrite, RevisionOrder
      <4> QED
        BY <4>1, BoundAssumption DEF Ids, Revs
    <3>2. CASE ForeignDelete
      BY <3>2, BoundAssumption DEF ForeignDelete, Revs
    <3> QED
      BY <1>3, <3>1, <3>2
  <2>3. Abstract!Foreign
    BY <1>t, <2>1, <2>2 DEF Abstract!Foreign, Abstract!Revs, Abstract!NoData, Revs, NoData,
       InSession, Observed
  <2> QED
    BY <2>3 DEF Abstract!Next
<1>4. CASE ~ EditSource /\ ~ ForeignWrite /\ ~ ForeignDelete
  <2>1. UNCHANGED <<dest, source, seen>>
    BY <1>4 DEF ByEnvironment, StoreLate, ExpireUpload, Terminated, vars, callVars, envVars
  <2> QED
    BY <1>1, <2>1
<1> QED
  BY <1>2, <1>3, <1>4

\* Whatever the writers, the service and other clients do, in any number and
\* with any number of failures, crashes and races, the destination is replaced
\* as ConditionalReplace says: in one step, over the version that was looked
\* up and expected, and with what the source held (OpenChunkWriter() to
\* finishMultipartUpload()).
THEOREM UploadReplacesConditionally == Spec => Implements
<1> DEFINE Inv == IInv /\ RevisionOrder
<1>1. Init => Inv
  <2>1. SUFFICES ASSUME Init PROVE RevisionOrder
    BY IInvInit
  <2> QED
    BY <2>1 DEF Init, ServiceInit, RevisionOrder
<1>2. Inv /\ [Next]_vars => Inv'
  <2>1. SUFFICES ASSUME Inv, [Next]_vars PROVE RevisionOrder'
    BY IInvStep
  <2>2. CASE UNCHANGED vars
    BY <2>1, <2>2 DEF vars, RevisionOrder
  <2> QED
    BY <2>1, <2>2, RevisionOrderStep DEF IInv
<1>3. Init => Abstract!Init
  <2>1. SUFFICES ASSUME Init PROVE Abstract!Init
    OBVIOUS
  <2>2. source.data \in [Parts -> Bytes] /\ dest = [rev |-> 0, data |-> NoData]
    BY <2>1 DEF Init, ServiceInit
  <2>3. \A p \in Procs : ~ InSession(p)
    BY <2>1 DEF Init, InSession, Opening
  <2> QED
    BY <2>2, <2>3 DEF Abstract!Init, Abstract!NoData, NoData
<1>4. Inv /\ [Next]_vars => [Abstract!Next]_(Abstract!vars)
  <2>1. SUFFICES ASSUME Inv, [Next]_vars PROVE [Abstract!Next]_(Abstract!vars)
    OBVIOUS
  <2>2. CASE UNCHANGED vars
    <3>1. UNCHANGED <<dest, source, phase, job, seen>>
      BY <2>2 DEF vars
    <3> QED
      BY <3>1 DEF Abstract!vars, InSession, Observed
  <2>3. CASE Next
    BY <2>1, <2>3, NextSplit, WriterMoves, EnvironmentMoves
  <2> QED
    BY <2>1, <2>2, <2>3
<1> QED
  BY <1>1, <1>2, <1>3, <1>4, PTL DEF Spec, Implements, Abstract!Spec
=============================================================================
