-------------------------- MODULE ChunkWriterProofs --------------------------
(***************************************************************************)
(* Proofs about ChunkWriter: its types, and that an upload only ever        *)
(* commits what the source held during the attempt, and only over the       *)
(* revision it was begun for.                                               *)
(***************************************************************************)
EXTENDS ChunkWriter, TLAPS

\* The phases in which the job names an upload.
HasUpload == {"saving", "signing", "refreshing", "writing"} \union Closing

WriterTypeOK ==
    /\ phase \in [Procs -> Phases]
    /\ job \in [Procs -> Job]
    /\ part \in [Procs -> Data]
    /\ chunk \in [Procs -> [Parts -> Calls]]
    /\ sent \in [Procs -> Data]
    /\ halted \in [Procs -> {"no", "aborted", "invalid"}]
    /\ seen \in [Procs -> [Parts -> SUBSET Bytes]]

SourceTypeOK == source \in [data : [Parts -> Bytes], stamp : Stamps]

\* The locals a phase needs have been set.
JobSet ==
    \A p \in Procs :
        /\ phase[p] \notin Outside => job[p].stamp \in Stamps
        /\ phase[p] \in HasUpload => job[p].upload \in Ids

\* Calls are under way only while the writer is open, and all have returned
\* without an error when it is closed.
CallsFollowPhase ==
    \A p \in Procs, k \in Parts :
        /\ phase[p] \notin Closing \union {"writing"} => chunk[p][k] = "todo"
        /\ phase[p] \in Closing => chunk[p][k] = "done"

\* A call that sends has read its part.
SendersHaveRead ==
    \A p \in Procs, k \in Parts :
        chunk[p][k] \in {"send", "stored"} => sent[p][k] \in Bytes

WriterInv == WriterTypeOK /\ JobSet /\ CallsFollowPhase /\ SendersHaveRead

LEMMA LeaveWriter ==
    ASSUME WriterInv, NEW p \in Procs, NEW ph \in Outside, Leave(p, ph)
    PROVE  WriterInv'
  BY BoundAssumption, NoneAssumption
  DEF WriterInv, WriterTypeOK, JobSet, CallsFollowPhase, SendersHaveRead, Leave, Goto,
      Phases, Outside, Opening, Closing, HasUpload, Calls, Active, NoJob, NoData, Job,
      Data, Revs

\* A step inside OpenChunkWriter.
LEMMA OpeningWriter ==
    ASSUME WriterInv, NEW p \in Procs, phase[p] \notin Closing \union {"writing"},
           NEW ph \in Opening \union {"writing"}, Goto(p, ph),
           job' \in [Procs -> Job], part' \in [Procs -> Data],
           \A q \in Procs \ {p} : job'[q] = job[q],
           job'[p].stamp \in Stamps, ph \in HasUpload => job'[p].upload \in Ids,
           UNCHANGED <<chunk, sent, halted>>,
           seen' \in [Procs -> [Parts -> SUBSET Bytes]]
    PROVE  WriterInv'
<1>1. WriterTypeOK'
  BY DEF WriterInv, WriterTypeOK, Goto, Phases
<1>2. JobSet'
  BY DEF WriterInv, WriterTypeOK, JobSet, Goto
<1>3. CallsFollowPhase'
  BY DEF WriterInv, WriterTypeOK, CallsFollowPhase, Goto, Opening, Closing
<1>4. SendersHaveRead'
  BY DEF WriterInv, SendersHaveRead
<1> QED
  BY <1>1, <1>2, <1>3, <1>4 DEF WriterInv

\* A step of Close.
LEMMA ClosingWriter ==
    ASSUME WriterInv, NEW p \in Procs, NEW ph \in Closing, Goto(p, ph),
           phase[p] \in Closing \/ \A k \in Parts : chunk[p][k] = "done",
           phase[p] \in Closing \union {"writing"},
           UNCHANGED <<job, part, callVars>>
    PROVE  WriterInv'
  BY DEF WriterInv, WriterTypeOK, JobSet, CallsFollowPhase, SendersHaveRead, Goto,
      Phases, Outside, Opening, Closing, HasUpload, callVars

\* A step of WriteChunk.
LEMMA CallWriter ==
    ASSUME WriterInv, NEW p \in Procs, NEW k \in Parts, phase[p] = "writing",
           NEW r \in Calls, Return(p, k, r),
           sent' \in [Procs -> Data],
           \A q \in Procs, l \in Parts : q # p \/ l # k => sent'[q][l] = sent[q][l],
           r \in {"send", "stored"} => sent'[p][k] \in Bytes,
           part' \in [Procs -> Data],
           halted' \in [Procs -> {"no", "aborted", "invalid"}],
           UNCHANGED <<phase, job, seen>>
    PROVE  WriterInv'
<1>1. WriterTypeOK'
  BY DEF WriterInv, WriterTypeOK, Return
<1>2. JobSet' /\ CallsFollowPhase'
  BY DEF WriterInv, WriterTypeOK, JobSet, CallsFollowPhase, Return, Closing
<1>3. SendersHaveRead'
  BY DEF WriterInv, WriterTypeOK, SendersHaveRead, Return
<1> QED
  BY <1>1, <1>2, <1>3 DEF WriterInv

LEMMA WriterFacts ==
    ASSUME WriterInv, NEW p \in Procs
    PROVE  /\ job[p] \in Job /\ part[p] \in Data /\ sent[p] \in Data
           /\ phase[p] \notin Outside => job[p].stamp \in Stamps
           /\ phase[p] \in HasUpload => job[p].upload \in Ids
           /\ \A k \in Parts : /\ chunk[p][k] \in Active => phase[p] = "writing"
                               /\ chunk[p][k] \in {"send", "stored"} => sent[p][k] \in Bytes
  BY DEF WriterInv, WriterTypeOK, JobSet, CallsFollowPhase, SendersHaveRead, Active, Data

\* The step of OpeningWriter for a job that is replaced by j.
LEMMA OpeningJob ==
    ASSUME WriterInv, NEW p \in Procs, phase[p] \in Opening \union {"idle"},
           NEW ph \in Opening \union {"writing"}, Goto(p, ph),
           NEW j \in Job, job' = [job EXCEPT ![p] = j],
           j.stamp \in Stamps, ph \in HasUpload => j.upload \in Ids,
           part' \in [Procs -> Data],
           UNCHANGED <<chunk, sent, halted>>,
           seen' \in [Procs -> [Parts -> SUBSET Bytes]]
    PROVE  WriterInv'
<1>1. /\ job' \in [Procs -> Job] /\ job'[p] = j
      /\ \A q \in Procs \ {p} : job'[q] = job[q]
  BY DEF WriterInv, WriterTypeOK
<1>2. phase[p] \notin Closing \union {"writing"}
  BY DEF Opening, Closing
<1> QED
  BY <1>1, <1>2, OpeningWriter

(***************************************************************************)
(* One step per action.  An action of another process, of the service or   *)
(* of the environment leaves a writer alone.                               *)
(***************************************************************************)
LEMMA WriterStep ==
    /\ WriterInv /\ SourceTypeOK /\ dest.rev \in Revs
    /\ disk \in ResumeState \union {None}
    /\ Next
    => WriterInv'
<1>0. SUFFICES ASSUME WriterInv, SourceTypeOK, dest.rev \in Revs,
                      disk \in ResumeState \union {None}, Next
               PROVE  WriterInv'
  OBVIOUS
<1>t. WriterTypeOK
  BY <1>0 DEF WriterInv
<1>s. source.stamp \in Stamps /\ \A k \in Parts : source.data[k] \in Bytes
  BY <1>0 DEF SourceTypeOK
<1>1. ASSUME NEW p \in Procs, Start(p) PROVE WriterInv'
  <2>1. PICK e \in Revs \union {None} : job' =
          [job EXCEPT ![p] = [@ EXCEPT !.stamp = source.stamp, !.expected = e]]
    BY <1>0, <1>1 DEF Start
  <2>2. job' = [job EXCEPT ![p] = [job[p] EXCEPT !.stamp = source.stamp, !.expected = e]]
    BY <1>t, <2>1 DEF WriterTypeOK
  <2>3. LET j == [job[p] EXCEPT !.stamp = source.stamp, !.expected = e]
        IN  j \in Job /\ j.stamp \in Stamps
    <3>1. job[p] \in Job
      BY <1>0, WriterFacts
    <3> QED
      BY <1>s, <3>1 DEF Job
  <2>4. seen' \in [Procs -> [Parts -> SUBSET Bytes]]
    BY <1>t, <1>s, <1>1 DEF Start, WriterTypeOK
  <2>5. /\ phase[p] = "idle" /\ Goto(p, "locking")
        /\ part' \in [Procs -> Data] /\ UNCHANGED <<chunk, sent, halted>>
    BY <1>t, <1>1 DEF Start, WriterTypeOK
  <2>6. "locking" \in Opening /\ "locking" \notin HasUpload
    BY DEF Opening, HasUpload, Closing
  <2> QED
    BY <1>0, <2>2, <2>3, <2>4, <2>5, <2>6, OpeningJob
<1>2. ASSUME NEW p \in Procs, NEW from \in Opening, NEW ph \in Opening \union {"writing"},
             phase[p] = from, Goto(p, ph), from \in HasUpload \/ ph \notin HasUpload,
             UNCHANGED <<job, part, chunk, sent, halted, seen>>
      PROVE  WriterInv'
  <2>1. job' \in [Procs -> Job] /\ job'[p] = job[p] /\ job[p].stamp \in Stamps
    BY <1>0, <1>t, <1>2, WriterFacts DEF WriterTypeOK, Opening, Outside
  <2>2. ph \in HasUpload => job'[p].upload \in Ids
    BY <1>0, <1>2, WriterFacts
  <2>3. part' \in [Procs -> Data] /\ seen' \in [Procs -> [Parts -> SUBSET Bytes]]
    BY <1>t, <1>2 DEF WriterTypeOK
  <2>4. from \notin Closing \union {"writing"}
    BY DEF Opening, Closing
  <2> QED
    BY <1>0, <1>2, <2>1, <2>2, <2>3, <2>4, OpeningWriter
<1>3. ASSUME NEW p \in Procs, OpenStore(p) \/ DropState(p) \/ SaveInitial(p)
      PROVE  WriterInv'
  BY <1>2, <1>3 DEF OpenStore, DropState, SaveInitial, callVars, Opening, HasUpload, Closing
<1>4. ASSUME NEW p \in Procs, Lookup(p) PROVE WriterInv'
  <2>1. CASE /\ job' = [job EXCEPT ![p].base = dest.rev]
             /\ Goto(p, "loading") /\ UNCHANGED <<store, part, callVars, faults>>
    <3>1. /\ job' = [job EXCEPT ![p] = [job[p] EXCEPT !.base = dest.rev]]
          /\ part' \in [Procs -> Data] /\ UNCHANGED <<chunk, sent, halted>>
          /\ seen' \in [Procs -> [Parts -> SUBSET Bytes]]
      BY <1>t, <2>1 DEF WriterTypeOK, callVars
    <3>2. phase[p] = "lookup"
      BY <1>4 DEF Lookup
    <3>3. job[p] \in Job /\ job[p].stamp \in Stamps
      BY <1>0, <3>2, WriterFacts DEF Outside
    <3>4. LET j == [job[p] EXCEPT !.base = dest.rev] IN  j \in Job /\ j.stamp \in Stamps
      BY <1>0, <3>3 DEF Job
    <3>5. {"lookup", "loading"} \subseteq Opening /\ "loading" \notin HasUpload
      BY DEF Opening, HasUpload, Closing
    <3> QED
      BY <1>0, <2>1, <3>1, <3>2, <3>4, <3>5, OpeningJob
  <2> QED
    BY <1>0, <1>4, <2>1, LeaveWriter DEF Lookup, Outside
<1>5. ASSUME NEW p \in Procs, LoadState(p) PROVE WriterInv'
  <2>1. /\ phase[p] = "loading" /\ UNCHANGED <<chunk, sent, halted, seen>>
        /\ seen' \in [Procs -> [Parts -> SUBSET Bytes]]
    BY <1>t, <1>5 DEF LoadState, WriterTypeOK, callVars
  <2>2. CASE /\ disk # None
             /\ job' = [job EXCEPT ![p] = [@ EXCEPT !.upload = disk.upload, !.resumed = TRUE]]
             /\ part' = [part EXCEPT ![p] = disk.completed]
             /\ Goto(p, "signing")
    <3>1. disk.upload \in Ids /\ disk.upload \in Revs /\ disk.completed \in Data
      BY <1>0, <2>2, BoundAssumption DEF ResumeState, Revs, Ids
    <3>2. /\ job' = [job EXCEPT ![p] = [job[p] EXCEPT !.upload = disk.upload, !.resumed = TRUE]]
          /\ part' \in [Procs -> Data]
      BY <1>t, <2>2, <3>1 DEF WriterTypeOK
    <3>3. LET j == [job[p] EXCEPT !.upload = disk.upload, !.resumed = TRUE]
          IN  j \in Job /\ j.stamp \in Stamps /\ j.upload \in Ids
      <4>1. job[p] \in Job /\ job[p].stamp \in Stamps
        BY <1>0, <2>1, WriterFacts DEF Outside
      <4> QED
        BY <3>1, <4>1 DEF Job
    <3> QED
      BY <1>0, <2>1, <2>2, <3>2, <3>3, OpeningJob DEF Opening
  <2>3. ASSUME NEW ph \in {"init", "dropping"}, Goto(p, ph), UNCHANGED <<job, part>>
        PROVE  WriterInv'
    BY <1>2, <2>1, <2>3 DEF Opening, HasUpload, Closing
  <2> QED
    BY <1>5, <2>2, <2>3 DEF LoadState
<1>6. ASSUME NEW p \in Procs, InitUpload(p) PROVE WriterInv'
  <2>1. CASE /\ NewUpload(nextId, job[p].base)
             /\ job' = [job EXCEPT ![p].upload = nextId]
             /\ Goto(p, "saving") /\ UNCHANGED <<store, part, callVars, faults>>
    <3>1. nextId \in Ids /\ nextId \in Revs
      BY <2>1, BoundAssumption DEF NewUpload, Ids, Revs
    <3>2. /\ job' = [job EXCEPT ![p] = [job[p] EXCEPT !.upload = nextId]]
          /\ part' \in [Procs -> Data] /\ UNCHANGED <<chunk, sent, halted>>
          /\ seen' \in [Procs -> [Parts -> SUBSET Bytes]]
      BY <1>t, <2>1 DEF WriterTypeOK, callVars
    <3>3. phase[p] = "init"
      BY <1>6 DEF InitUpload
    <3>4. LET j == [job[p] EXCEPT !.upload = nextId]
          IN  j \in Job /\ j.stamp \in Stamps /\ j.upload \in Ids
      <4>1. job[p] \in Job /\ job[p].stamp \in Stamps
        BY <1>0, <3>3, WriterFacts DEF Outside
      <4> QED
        BY <3>1, <4>1 DEF Job
    <3> QED
      BY <1>0, <2>1, <3>2, <3>3, <3>4, OpeningJob DEF Opening
  <2> QED
    BY <1>0, <1>6, <2>1, LeaveWriter DEF InitUpload, Outside
<1>7. ASSUME NEW p \in Procs, Sign(p) PROVE WriterInv'
  <2>1. phase[p] = "signing"
    BY <1>7 DEF Sign
  <2>2. ASSUME NEW ph \in {"writing", "refreshing"}, Goto(p, ph),
               UNCHANGED <<store, job, part, callVars>>
        PROVE  WriterInv'
    BY <1>2, <2>1, <2>2 DEF callVars, Opening, HasUpload
  <2> QED
    BY <1>0, <1>7, <2>2, LeaveWriter DEF Sign, Outside
<1>8. ASSUME NEW p \in Procs, Refresh(p) PROVE WriterInv'
  <2>1. /\ phase[p] = "refreshing" /\ UNCHANGED <<chunk, sent, halted>>
        /\ part' \in [Procs -> Data] /\ seen' \in [Procs -> [Parts -> SUBSET Bytes]]
    BY <1>t, <1>8 DEF Refresh, ForgetParts, NoData, Data, WriterTypeOK, callVars
  <2>2. CASE /\ NewUpload(uploads[job[p].upload].rev, uploads[job[p].upload].base)
             /\ job' = [job EXCEPT ![p] = [@ EXCEPT !.upload = nextId, !.resumed = FALSE]]
             /\ Goto(p, "saving")
    <3>1. nextId \in Ids /\ nextId \in Revs
      BY <2>2, BoundAssumption DEF NewUpload, Ids, Revs
    <3>2. job' = [job EXCEPT ![p] = [job[p] EXCEPT !.upload = nextId, !.resumed = FALSE]]
      BY <1>t, <2>2 DEF WriterTypeOK
    <3>3. LET j == [job[p] EXCEPT !.upload = nextId, !.resumed = FALSE]
          IN  j \in Job /\ j.stamp \in Stamps /\ j.upload \in Ids
      <4>1. job[p] \in Job /\ job[p].stamp \in Stamps
        BY <1>0, <2>1, WriterFacts DEF Outside
      <4> QED
        BY <3>1, <4>1 DEF Job
    <3> QED
      BY <1>0, <2>1, <2>2, <3>2, <3>3, OpeningJob DEF Opening
  <2>3. CASE job' = [job EXCEPT ![p].resumed = FALSE] /\ Goto(p, "dropping")
    <3>1. job' = [job EXCEPT ![p] = [job[p] EXCEPT !.resumed = FALSE]]
      BY <1>t, <2>3 DEF WriterTypeOK
    <3>2. job[p] \in Job /\ job[p].stamp \in Stamps
      BY <1>0, <2>1, WriterFacts DEF Outside
    <3>3. LET j == [job[p] EXCEPT !.resumed = FALSE] IN  j \in Job /\ j.stamp \in Stamps
      BY <3>2 DEF Job
    <3>4. {"refreshing", "dropping"} \subseteq Opening /\ "dropping" \notin HasUpload
      BY DEF Opening, HasUpload, Closing
    <3> QED
      BY <1>0, <2>1, <2>3, <3>1, <3>3, <3>4, OpeningJob
  <2> QED
    BY <1>8, <2>2, <2>3 DEF Refresh
<1>9. ASSUME NEW p \in Procs, NEW k \in Parts, BeginChunk(p, k) PROVE WriterInv'
  <2>1. PICK r \in Calls : Return(p, k, r) /\
          \/ r \notin {"send", "stored"} /\ UNCHANGED sent
          \/ r = "send" /\ sent' = [sent EXCEPT ![p][k] = source.data[k]]
    <3>1. {"failed", "restart", "verify", "send"} \subseteq Calls
      BY DEF Calls, Active
    <3>2. CASE Return(p, k, Halted(p)) /\ UNCHANGED sent
      BY <3>1, <3>2 DEF Halted
    <3>3. CASE Return(p, k, "verify") /\ UNCHANGED sent
      BY <3>1, <3>3
    <3>4. CASE Return(p, k, "send") /\ sent' = [sent EXCEPT ![p][k] = source.data[k]]
      BY <3>1, <3>4
    <3> QED
      BY <1>9, <3>2, <3>3, <3>4 DEF BeginChunk
  <2>2. sent' \in [Procs -> Data]
    <3>1. CASE UNCHANGED sent
      BY <1>t, <3>1 DEF WriterTypeOK
    <3>2. CASE sent' = [sent EXCEPT ![p][k] = source.data[k]]
      BY <1>t, <1>s, <3>2 DEF WriterTypeOK, Data
    <3> QED
      BY <2>1, <3>1, <3>2
  <2>3. /\ r \in {"send", "stored"} => sent'[p][k] \in Bytes
        /\ \A q \in Procs, l \in Parts : q # p \/ l # k => sent'[q][l] = sent[q][l]
    BY <1>t, <1>s, <2>1 DEF WriterTypeOK, Data
  <2>4. phase[p] = "writing" /\ UNCHANGED <<phase, job, part, halted, seen>>
    BY <1>9 DEF BeginChunk
  <2>5. /\ part' \in [Procs -> Data]
        /\ halted' \in [Procs -> {"no", "aborted", "invalid"}]
    BY <1>t, <2>4 DEF WriterTypeOK
  <2> QED
    BY <1>0, <2>1, <2>2, <2>3, <2>4, <2>5, CallWriter
<1>10. ASSUME NEW p \in Procs, NEW k \in Parts,
              \/ VerifyPart(p, k) \/ DiscardState(p, k) \/ StorePart(p, k)
              \/ LosePart(p, k) \/ RecordPart(p, k)
       PROVE  WriterInv'
  <2>1. phase[p] = "writing" /\ UNCHANGED <<phase, job, sent, seen>>
    BY <1>0, <1>10, WriterFacts
    DEF VerifyPart, DiscardState, StorePart, LosePart, RecordPart, Active
  <2>2. PICK r \in Calls : Return(p, k, r) /\ (r \in {"send", "stored"} => chunk[p][k] = "send")
    BY <1>10 DEF VerifyPart, DiscardState, StorePart, LosePart, RecordPart, Halted, Calls, Active
  <2>3. halted' \in [Procs -> {"no", "aborted", "invalid"}]
    BY <1>t, <1>10 DEF VerifyPart, DiscardState, StorePart, LosePart, RecordPart, WriterTypeOK
  <2>4. part' \in [Procs -> Data]
    <3>1. CASE part' = [part EXCEPT ![p][k] = sent[p][k]]
      BY <1>t, <3>1 DEF WriterTypeOK, Data
    <3>2. CASE UNCHANGED part
      BY <1>t, <3>2 DEF WriterTypeOK
    <3> QED
      BY <1>10, <3>1, <3>2 DEF VerifyPart, DiscardState, StorePart, LosePart, RecordPart
  <2>5. /\ sent' \in [Procs -> Data]
        /\ r \in {"send", "stored"} => sent'[p][k] \in Bytes
    BY <1>0, <1>t, <2>1, <2>2, WriterFacts DEF WriterTypeOK
  <2> QED
    BY <1>0, <2>1, <2>2, <2>3, <2>4, <2>5, CallWriter
<1>11. ASSUME NEW p \in Procs,
              CloseBegin(p) \/ CompleteUpload(p) \/ EndUpload(p) \/ FetchMetadata(p)
       PROVE  WriterInv'
  BY <1>0, <1>11, ClosingWriter
  DEF CloseBegin, CompleteUpload, EndUpload, FetchMetadata, Closing
<1>12. ASSUME NEW p \in Procs, FinishClose(p) \/ EngineAbort(p) \/ Crash(p)
       PROVE  WriterInv'
  BY <1>0, <1>12, LeaveWriter DEF FinishClose, Outcome, EngineAbort, Crash, Outside
<1>13. ASSUME NEW p \in Procs, SignalAbort(p) PROVE WriterInv'
  BY <1>0, <1>13 DEF SignalAbort, WriterInv, WriterTypeOK, JobSet, CallsFollowPhase,
                     SendersHaveRead
<1>14. CASE EditSource
  <2>1. UNCHANGED <<phase, job, part, chunk, sent, halted>>
    BY <1>14 DEF EditSource
  <2>2. source'.data \in [Parts -> Bytes]
    BY <1>0, <1>14 DEF EditSource, SourceTypeOK
  <2>3. seen' \in [Procs -> [Parts -> SUBSET Bytes]]
    BY <1>t, <1>14, <2>2 DEF EditSource, WriterTypeOK
  <2> QED
    BY <1>0, <2>1, <2>3 DEF WriterInv, WriterTypeOK, JobSet, CallsFollowPhase, SendersHaveRead
<1>15. CASE \/ \E z \in late : StoreLate(z)
            \/ \E u \in Ids : ExpireUpload(u)
            \/ ForeignWrite \/ ForeignDelete \/ Terminated
  BY <1>0, <1>15 DEF StoreLate, ExpireUpload, ForeignWrite, ForeignDelete, Terminated, vars,
     callVars, WriterInv, WriterTypeOK, JobSet, CallsFollowPhase, SendersHaveRead
<1> QED
  BY <1>0, <1>1, <1>3, <1>4, <1>5, <1>6, <1>7, <1>8, <1>9, <1>10, <1>11, <1>12, <1>13,
     <1>14, <1>15
  DEF Next, Step, OpenChunkWriter, WriteChunk, Close

-----------------------------------------------------------------------------
(* The service, the state file and the source keep their types. *)

LEMMA PutPartTyped ==
    ASSUME uploads \in [Ids -> Upload], NEW u \in Ids, NEW k \in Parts,
           NEW b \in Bytes \union {None}, PutPart(u, k, b)
    PROVE  uploads' \in [Ids -> Upload]
<1>1. [uploads[u].parts EXCEPT ![k] = b] \in Data
  BY DEF Upload, Data
<1>2. [uploads[u] EXCEPT !.parts = [uploads[u].parts EXCEPT ![k] = b]] \in Upload
  BY <1>1 DEF Upload
<1>3. CASE uploads' = [uploads EXCEPT ![u].parts[k] = b]
  <2>1. uploads' = [uploads EXCEPT ![u] =
                      [uploads[u] EXCEPT !.parts = [uploads[u].parts EXCEPT ![k] = b]]]
    BY <1>3
  <2> QED
    BY <1>2, <2>1
<1> QED
  BY <1>3 DEF PutPart

LEMMA StatusTyped ==
    ASSUME uploads \in [Ids -> Upload], NEW u \in Ids,
           NEW st \in {"unused", "open", "expired", "assembled", "committed"},
           uploads' = [uploads EXCEPT ![u].status = st]
    PROVE  uploads' \in [Ids -> Upload]
<1>1. [uploads[u] EXCEPT !.status = st] \in Upload
  BY DEF Upload
<1>2. uploads' = [uploads EXCEPT ![u] = [uploads[u] EXCEPT !.status = st]]
  OBVIOUS
<1> QED
  BY <1>1, <1>2

LEMMA NewUploadTyped ==
    ASSUME uploads \in [Ids -> Upload], NEW r \in Revs, NEW b \in Revs, NewUpload(r, b)
    PROVE  uploads' \in [Ids -> Upload] /\ nextId' \in 1 .. MaxId + 1
<1>1. [rev |-> r, base |-> b, parts |-> NoData, status |-> "open"] \in Upload
  BY DEF Upload, NoData, Data
<1>2. uploads' \in [Ids -> Upload]
  BY <1>1 DEF NewUpload
<1>3. nextId' \in 1 .. MaxId + 1
  BY BoundAssumption DEF NewUpload, Ids
<1> QED
  BY <1>2, <1>3

LEMMA ServiceStep == ServiceTypeOK /\ WriterInv /\ Next => ServiceTypeOK'
<1>0. SUFFICES ASSUME ServiceTypeOK, WriterInv, Next PROVE ServiceTypeOK'
  OBVIOUS
<1>t. /\ dest \in [rev : Revs, data : Data]
      /\ uploads \in [Ids -> Upload]
      /\ nextId \in 1 .. MaxId + 1
      /\ late \subseteq [upload : Ids, part : Parts, bytes : Bytes]
  BY <1>0 DEF ServiceTypeOK
<1>1. ASSUME UNCHANGED serviceVars PROVE ServiceTypeOK'
  BY <1>0, <1>1 DEF ServiceTypeOK, serviceVars
<1>2. ASSUME UNCHANGED <<dest, late>>, NEW r \in Revs, NEW b \in Revs, NewUpload(r, b)
      PROVE  ServiceTypeOK'
  BY <1>t, <1>2, NewUploadTyped DEF ServiceTypeOK
<1>3. ASSUME UNCHANGED <<dest, nextId>>, uploads' \in [Ids -> Upload], late' \subseteq late
      PROVE  ServiceTypeOK'
  BY <1>t, <1>3 DEF ServiceTypeOK
<1>4. ASSUME NEW p \in Procs, InitUpload(p) PROVE ServiceTypeOK'
  <2>1. nextId \in Ids => nextId \in Revs
    BY BoundAssumption DEF Ids, Revs
  <2>2. job[p].base \in Revs
    BY <1>0, WriterFacts DEF Job
  <2>3. CASE NewUpload(nextId, job[p].base)
    BY <1>2, <1>4, <2>1, <2>2, <2>3 DEF InitUpload, NewUpload
  <2>4. CASE UNCHANGED <<uploads, nextId>>
    BY <1>1, <1>4, <2>4 DEF InitUpload, serviceVars
  <2> QED
    BY <1>4, <2>3, <2>4 DEF InitUpload
<1>5. ASSUME NEW p \in Procs, Refresh(p) PROVE ServiceTypeOK'
  <2>1. job[p].upload \in Ids
    BY <1>0, <1>5, WriterFacts DEF Refresh, HasUpload
  <2>2. uploads[job[p].upload].rev \in Revs /\ uploads[job[p].upload].base \in Revs
    BY <1>t, <2>1 DEF Upload
  <2>3. CASE NewUpload(uploads[job[p].upload].rev, uploads[job[p].upload].base)
    BY <1>2, <1>5, <2>2, <2>3 DEF Refresh
  <2>4. CASE UNCHANGED <<uploads, nextId>>
    BY <1>1, <1>5, <2>4 DEF Refresh, serviceVars
  <2> QED
    BY <1>5, <2>3, <2>4 DEF Refresh
<1>6. ASSUME NEW p \in Procs, NEW k \in Parts, StorePart(p, k) PROVE ServiceTypeOK'
  <2>1. job[p].upload \in Ids /\ sent[p][k] \in Bytes
    BY <1>0, <1>6, WriterFacts DEF StorePart, HasUpload, Active
  <2>2. uploads' \in [Ids -> Upload]
    BY <1>t, <1>6, <2>1, PutPartTyped DEF StorePart
  <2> QED
    BY <1>3, <1>6, <2>2 DEF StorePart
<1>7. ASSUME NEW p \in Procs, NEW k \in Parts, chunk[p][k] = "send"
      PROVE  Request(p, k) \in [upload : Ids, part : Parts, bytes : Bytes]
  BY <1>0, <1>7, WriterFacts DEF Request, HasUpload, Active
<1>8. ASSUME NEW p \in Procs, NEW k \in Parts, LosePart(p, k) PROVE ServiceTypeOK'
  <2>1. late' \subseteq [upload : Ids, part : Parts, bytes : Bytes]
    BY <1>t, <1>7, <1>8 DEF LosePart
  <2> QED
    BY <1>0, <1>8, <2>1 DEF LosePart, ServiceTypeOK
<1>9. ASSUME NEW p \in Procs, Crash(p) PROVE ServiceTypeOK'
  <2>1. late' \subseteq [upload : Ids, part : Parts, bytes : Bytes]
    BY <1>t, <1>7, <1>9 DEF Crash
  <2> QED
    BY <1>0, <1>9, <2>1 DEF Crash, ServiceTypeOK
<1>10. ASSUME NEW p \in Procs, CompleteUpload(p) PROVE ServiceTypeOK'
  <2>1. job[p].upload \in Ids
    BY <1>0, <1>10, WriterFacts DEF CompleteUpload, HasUpload, Closing
  <2>2. CASE Assemble(job[p].upload)
    BY <1>t, <1>3, <1>10, <2>1, <2>2, StatusTyped DEF CompleteUpload, Assemble
  <2>3. CASE UNCHANGED uploads
    BY <1>1, <1>10, <2>3 DEF CompleteUpload, serviceVars
  <2> QED
    BY <1>10, <2>2, <2>3 DEF CompleteUpload
<1>11. ASSUME NEW p \in Procs, EndUpload(p) PROVE ServiceTypeOK'
  <2>1. job[p].upload \in Ids
    BY <1>0, <1>11, WriterFacts DEF EndUpload, HasUpload, Closing
  <2>2. CASE Commit(job[p].upload)
    <3>1. uploads' \in [Ids -> Upload]
      BY <1>t, <2>1, <2>2, StatusTyped DEF Commit
    <3>2. dest' \in [rev : Revs, data : Data]
      BY <1>t, <2>1, <2>2 DEF Commit, Upload
    <3> QED
      BY <1>0, <1>11, <3>1, <3>2 DEF EndUpload, ServiceTypeOK
  <2>3. CASE UNCHANGED <<dest, uploads>>
    BY <1>1, <1>11, <2>3 DEF EndUpload, serviceVars
  <2> QED
    BY <1>11, <2>2, <2>3 DEF EndUpload
<1>12. ASSUME NEW z \in late, StoreLate(z) PROVE ServiceTypeOK'
  <2>1. z.upload \in Ids /\ z.part \in Parts /\ z.bytes \in Bytes
    BY <1>t
  <2>2. uploads' \in [Ids -> Upload]
    BY <1>t, <1>12, <2>1, PutPartTyped DEF StoreLate
  <2> QED
    BY <1>3, <1>12, <2>2 DEF StoreLate
<1>13. ASSUME NEW u \in Ids, ExpireUpload(u) PROVE ServiceTypeOK'
  BY <1>t, <1>3, <1>13, StatusTyped DEF ExpireUpload
<1>14. CASE ForeignWrite
  <2>1. nextId \in Ids /\ nextId \in Revs /\ nextId' \in 1 .. MaxId + 1
    BY <1>14, BoundAssumption DEF ForeignWrite, Ids, Revs
  <2>2. dest' \in [rev : Revs, data : Data]
    BY <1>14, <2>1 DEF ForeignWrite, NoData, Data
  <2> QED
    BY <1>0, <1>14, <2>1, <2>2 DEF ForeignWrite, ServiceTypeOK
<1>15. CASE ForeignDelete
  <2>1. dest' \in [rev : Revs, data : Data]
    BY <1>15, BoundAssumption DEF ForeignDelete, NoData, Data, Revs
  <2> QED
    BY <1>0, <1>15, <2>1 DEF ForeignDelete, ServiceTypeOK
<1>16. CASE \/ EditSource \/ Terminated
            \/ \E p \in Procs :
                 \/ Start(p) \/ OpenStore(p) \/ Lookup(p) \/ LoadState(p) \/ DropState(p)
                 \/ SaveInitial(p) \/ Sign(p) \/ CloseBegin(p) \/ FetchMetadata(p)
                 \/ FinishClose(p) \/ EngineAbort(p) \/ SignalAbort(p)
                 \/ \E k \in Parts : \/ BeginChunk(p, k) \/ VerifyPart(p, k)
                                    \/ DiscardState(p, k) \/ RecordPart(p, k)
  <2>1. EditSource \/ Terminated => UNCHANGED serviceVars
    BY DEF EditSource, Terminated, vars, serviceVars
  <2>2. ASSUME NEW p \in Procs
        PROVE  Start(p) \/ OpenStore(p) \/ Lookup(p) \/ LoadState(p) \/ DropState(p)
                 => UNCHANGED serviceVars
    BY DEF Start, OpenStore, Lookup, LoadState, DropState, serviceVars
  <2>3. ASSUME NEW p \in Procs
        PROVE  SaveInitial(p) \/ Sign(p) \/ CloseBegin(p) \/ FetchMetadata(p)
                 => UNCHANGED serviceVars
    BY DEF SaveInitial, Sign, CloseBegin, FetchMetadata, serviceVars
  <2>4. ASSUME NEW p \in Procs
        PROVE  FinishClose(p) \/ EngineAbort(p) \/ SignalAbort(p) => UNCHANGED serviceVars
    BY DEF FinishClose, EngineAbort, SignalAbort, serviceVars
  <2>5. ASSUME NEW p \in Procs, NEW k \in Parts
        PROVE  BeginChunk(p, k) \/ VerifyPart(p, k) \/ DiscardState(p, k) \/ RecordPart(p, k)
                 => UNCHANGED serviceVars
    BY DEF BeginChunk, VerifyPart, DiscardState, RecordPart, serviceVars
  <2> QED
    BY <1>1, <1>16, <2>1, <2>2, <2>3, <2>4, <2>5
<1> QED
  BY <1>0, <1>4, <1>5, <1>6, <1>8, <1>9, <1>10, <1>11, <1>12, <1>13, <1>14, <1>15, <1>16
  DEF Next, Step, OpenChunkWriter, WriteChunk, Close

LEMMA StateOfTyped ==
    ASSUME WriterInv, NEW p \in Procs, phase[p] \in HasUpload \ Outside, NEW d \in Data
    PROVE  StateOf(p, d) \in ResumeState
  BY WriterFacts DEF StateOf, ResumeState, Job

LEMMA StoreStep == StoreTypeOK /\ WriterInv /\ Next => StoreTypeOK'
<1>0. SUFFICES ASSUME StoreTypeOK, WriterInv, Next PROVE StoreTypeOK'
  OBVIOUS
<1>t. /\ disk \in ResumeState \union {None}
      /\ store \in [Procs -> {"none", "disabled", "held", "released"}]
  BY <1>0 DEF StoreTypeOK
<1>1. ASSUME UNCHANGED disk, NEW p \in Procs,
             \/ TakeLock(p) \/ DisableStore(p) \/ ReleaseLock(p) \/ CloseStore(p)
      PROVE  StoreTypeOK'
  BY <1>t, <1>1 DEF StoreTypeOK, TakeLock, DisableStore, ReleaseLock, CloseStore
<1>2. ASSUME UNCHANGED storeVars PROVE StoreTypeOK'
  BY <1>0, <1>2 DEF StoreTypeOK, storeVars
<1>3. ASSUME NEW p \in Procs, NEW ok \in BOOLEAN, RemoveState(p, ok),
             UNCHANGED store \/ CloseStore(p)
      PROVE  StoreTypeOK'
  BY <1>t, <1>3 DEF StoreTypeOK, RemoveState, CloseStore
<1>4. ASSUME NEW p \in Procs, NEW ok \in BOOLEAN, NEW s \in ResumeState,
             SaveState(p, s, ok), UNCHANGED store
      PROVE  StoreTypeOK'
  BY <1>t, <1>4 DEF StoreTypeOK, SaveState
<1>5. ASSUME NEW p \in Procs, OpenStore(p) \/ SignalAbort(p) PROVE StoreTypeOK'
  BY <1>1, <1>5 DEF OpenStore, SignalAbort
<1>6. ASSUME NEW p \in Procs,
             \/ Lookup(p) \/ InitUpload(p) \/ Sign(p) \/ EngineAbort(p) \/ Crash(p)
      PROVE  StoreTypeOK'
  <2>1. UNCHANGED disk /\ (UNCHANGED store \/ CloseStore(p))
    BY <1>6 DEF Lookup, InitUpload, Sign, EngineAbort, Crash, Leave
  <2> QED
    BY <1>1, <1>2, <2>1 DEF storeVars
<1>7. ASSUME NEW p \in Procs, DropState(p) PROVE StoreTypeOK'
  BY <1>3, <1>7 DEF DropState
<1>8. ASSUME NEW p \in Procs, NEW k \in Parts, DiscardState(p, k) PROVE StoreTypeOK'
  BY <1>3, <1>8 DEF DiscardState
<1>9. ASSUME NEW p \in Procs, FinishClose(p) PROVE StoreTypeOK'
  BY <1>3, <1>9 DEF FinishClose, ForgetState, Leave
<1>10. ASSUME NEW p \in Procs, SaveInitial(p) PROVE StoreTypeOK'
  <2>1. StateOf(p, part[p]) \in ResumeState
    BY <1>0, <1>10, WriterFacts, StateOfTyped DEF SaveInitial, HasUpload, Outside
  <2> QED
    BY <1>4, <1>10, <2>1 DEF SaveInitial
<1>11. ASSUME NEW p \in Procs, NEW k \in Parts, RecordPart(p, k) PROVE StoreTypeOK'
  <2>1. phase[p] = "writing" /\ sent[p][k] \in Bytes /\ part \in [Procs -> Data]
    BY <1>0, <1>11, WriterFacts DEF RecordPart, Active, WriterInv, WriterTypeOK
  <2>2. CASE UNCHANGED disk
    BY <1>2, <1>11, <2>2 DEF RecordPart, storeVars
  <2>3. CASE part' = [part EXCEPT ![p][k] = sent[p][k]]
    <3>1. part'[p] \in Data
      BY <2>1, <2>3 DEF Data
    <3>2. StateOf(p, part'[p]) \in ResumeState
      BY <1>0, <2>1, <3>1, StateOfTyped DEF HasUpload, Outside
    <3> QED
      BY <1>4, <1>11, <2>2, <3>2 DEF RecordPart
  <2> QED
    BY <1>11, <2>2, <2>3 DEF RecordPart
<1>12. CASE \/ EditSource \/ Terminated \/ ForeignWrite \/ ForeignDelete
            \/ \E z \in late : StoreLate(z)
            \/ \E u \in Ids : ExpireUpload(u)
            \/ \E p \in Procs :
                 \/ Start(p) \/ LoadState(p) \/ Refresh(p) \/ CloseBegin(p)
                 \/ CompleteUpload(p) \/ EndUpload(p) \/ FetchMetadata(p)
                 \/ \E k \in Parts : \/ BeginChunk(p, k) \/ VerifyPart(p, k)
                                    \/ StorePart(p, k) \/ LosePart(p, k)
  <2>1. EditSource \/ Terminated \/ ForeignWrite \/ ForeignDelete => UNCHANGED storeVars
    BY DEF EditSource, Terminated, ForeignWrite, ForeignDelete, vars, storeVars
  <2>2. ASSUME NEW z \in late, StoreLate(z) PROVE UNCHANGED storeVars
    BY <2>2 DEF StoreLate, storeVars
  <2>3. ASSUME NEW u \in Ids, ExpireUpload(u) PROVE UNCHANGED storeVars
    BY <2>3 DEF ExpireUpload, storeVars
  <2>4. ASSUME NEW p \in Procs
        PROVE  Start(p) \/ LoadState(p) \/ Refresh(p) \/ CloseBegin(p) => UNCHANGED storeVars
    BY DEF Start, LoadState, Refresh, CloseBegin, storeVars
  <2>5. ASSUME NEW p \in Procs
        PROVE  CompleteUpload(p) \/ EndUpload(p) \/ FetchMetadata(p) => UNCHANGED storeVars
    BY DEF CompleteUpload, EndUpload, FetchMetadata, storeVars
  <2>6. ASSUME NEW p \in Procs, NEW k \in Parts
        PROVE  BeginChunk(p, k) \/ VerifyPart(p, k) \/ StorePart(p, k) \/ LosePart(p, k)
                 => UNCHANGED storeVars
    BY DEF BeginChunk, VerifyPart, StorePart, LosePart, storeVars
  <2> QED
    BY <1>2, <1>12, <2>1, <2>2, <2>3, <2>4, <2>5, <2>6
<1> QED
  BY <1>0, <1>5, <1>6, <1>7, <1>8, <1>9, <1>10, <1>11, <1>12
  DEF Next, Step, OpenChunkWriter, WriteChunk, Close

BudgetsOK == faults \in 0 .. MaxFaults /\ changes \in 0 .. MaxChanges

LEMMA EnvironmentStep == SourceTypeOK /\ BudgetsOK /\ Next => SourceTypeOK' /\ BudgetsOK'
<1>0. SUFFICES ASSUME SourceTypeOK, BudgetsOK, Next PROVE SourceTypeOK' /\ BudgetsOK'
  OBVIOUS
<1>1. Fault \/ UNCHANGED faults => faults' \in 0 .. MaxFaults
  BY <1>0, BudgetAssumption DEF BudgetsOK, Fault
<1>2. Change \/ UNCHANGED changes => changes' \in 0 .. MaxChanges
  BY <1>0, BudgetAssumption DEF BudgetsOK, Change
<1>3. Fault \/ UNCHANGED faults
  <2>1. ASSUME NEW p \in Procs, OpenChunkWriter(p) PROVE Fault \/ UNCHANGED faults
    BY <2>1 DEF OpenChunkWriter, Attempt, RequestFails, OpenStore, Lookup, LoadState,
       DropState, InitUpload, SaveInitial, Sign, Refresh
  <2>2. ASSUME NEW p \in Procs, NEW k \in Parts, WriteChunk(p, k)
        PROVE  Fault \/ UNCHANGED faults
    BY <2>2 DEF WriteChunk, Attempt, BeginChunk, VerifyPart, DiscardState, StorePart,
       LosePart, RecordPart
  <2>3. ASSUME NEW p \in Procs, Start(p) \/ Close(p) \/ EngineAbort(p)
        PROVE  Fault \/ UNCHANGED faults
    BY <2>3 DEF Start, Close, Attempt, RequestFails, CloseBegin, CompleteUpload, EndUpload,
       FetchMetadata, FinishClose, EngineAbort
  <2>4. ASSUME NEW p \in Procs, SignalAbort(p) \/ Crash(p) PROVE Fault \/ UNCHANGED faults
    BY <2>4 DEF SignalAbort, Crash
  <2>5. CASE \/ \E z \in late : StoreLate(z)
             \/ \E u \in Ids : ExpireUpload(u)
             \/ EditSource \/ ForeignWrite \/ ForeignDelete \/ Terminated
    BY <2>5 DEF StoreLate, ExpireUpload, EditSource, ForeignWrite, ForeignDelete,
       Terminated, vars
  <2> QED
    BY <1>0, <2>1, <2>2, <2>3, <2>4, <2>5 DEF Next, Step
<1>4. \/ UNCHANGED <<source, changes>>
      \/ EditSource
      \/ UNCHANGED source /\ Change
  <2>1. ASSUME NEW p \in Procs, OpenChunkWriter(p) PROVE UNCHANGED <<source, changes>>
    BY <2>1 DEF OpenChunkWriter, envVars, OpenStore, Lookup, LoadState,
       DropState, InitUpload, SaveInitial, Sign, Refresh
  <2>2. ASSUME NEW p \in Procs, NEW k \in Parts, WriteChunk(p, k)
        PROVE  UNCHANGED <<source, changes>>
    BY <2>2 DEF WriteChunk, envVars, BeginChunk, VerifyPart, DiscardState, StorePart,
       LosePart, RecordPart
  <2>3. ASSUME NEW p \in Procs, Start(p) \/ Close(p) \/ EngineAbort(p)
        PROVE  UNCHANGED <<source, changes>>
    BY <2>3 DEF Start, Close, envVars, CloseBegin, CompleteUpload, EndUpload,
       FetchMetadata, FinishClose, EngineAbort
  <2>4. ASSUME NEW p \in Procs, SignalAbort(p) \/ Crash(p)
        PROVE  UNCHANGED <<source, changes>>
    BY <2>4 DEF SignalAbort, Crash, envVars
  <2>5. CASE \/ \E z \in late : StoreLate(z)
             \/ \E u \in Ids : ExpireUpload(u)
             \/ Terminated
    BY <2>5 DEF StoreLate, ExpireUpload, envVars, Terminated, vars
  <2>6. CASE ForeignWrite \/ ForeignDelete
    BY <2>6 DEF ForeignWrite, ForeignDelete
  <2> QED
    BY <1>0, <2>1, <2>2, <2>3, <2>4, <2>5, <2>6 DEF Next, Step
<1>5. EditSource => SourceTypeOK' /\ Change
  BY <1>0 DEF EditSource, SourceTypeOK
<1> QED
  BY <1>0, <1>1, <1>2, <1>3, <1>4, <1>5 DEF SourceTypeOK, BudgetsOK

-----------------------------------------------------------------------------
(* The type invariant. *)

TypeInv == WriterInv /\ StoreTypeOK /\ ServiceTypeOK /\ SourceTypeOK /\ BudgetsOK

LEMMA TypeInvInit == Init => TypeInv
<1> SUFFICES ASSUME Init PROVE TypeInv
  OBVIOUS
<1>1. WriterTypeOK
  BY BoundAssumption DEF Init, WriterTypeOK, Phases, Outside, NoJob, Job, NoData, Data,
     Revs, Calls
<1>2. JobSet /\ CallsFollowPhase /\ SendersHaveRead
  BY DEF Init, JobSet, CallsFollowPhase, SendersHaveRead, Outside, HasUpload, Closing
<1>3. StoreTypeOK
  BY DEF Init, StoreInit, StoreTypeOK
<1>4. ServiceTypeOK
  BY BoundAssumption DEF Init, ServiceInit, ServiceTypeOK, Upload, NoData, Data, Revs
<1>5. SourceTypeOK /\ BudgetsOK
  BY BudgetAssumption DEF Init, SourceTypeOK, BudgetsOK
<1> QED
  BY <1>1, <1>2, <1>3, <1>4, <1>5 DEF TypeInv, WriterInv

LEMMA TypeInvStep == TypeInv /\ [Next]_vars => TypeInv'
<1> SUFFICES ASSUME TypeInv, [Next]_vars PROVE TypeInv'
  OBVIOUS
<1>1. CASE Next
  <2>1. dest.rev \in Revs
    BY DEF TypeInv, ServiceTypeOK
  <2> QED
    BY <1>1, <2>1, WriterStep, StoreStep, ServiceStep, EnvironmentStep
    DEF TypeInv, StoreTypeOK
<1>2. CASE UNCHANGED vars
  BY <1>2 DEF vars, TypeInv, WriterInv, WriterTypeOK, JobSet, CallsFollowPhase,
     SendersHaveRead, StoreTypeOK, ServiceTypeOK, SourceTypeOK, BudgetsOK
<1> QED
  BY <1>1, <1>2

\* Every variable keeps its type.  In particular every state file that is ever
\* written names an upload and a source, as validFor() demands, and no call is
\* under way once Close has begun.
THEOREM TypeCorrect == Spec => []TypeOK
<1>1. TypeInv => TypeOK
  BY DEF TypeInv, WriterInv, WriterTypeOK, SourceTypeOK, BudgetsOK, TypeOK
<1> QED
  BY <1>1, TypeInvInit, TypeInvStep, PTL DEF Spec


-----------------------------------------------------------------------------
(* Frames: what a step of one process, or of nobody, leaves alone. *)

ByProcess(p) == Step(p) \/ SignalAbort(p) \/ Crash(p)

ByEnvironment ==
    \/ \E z \in late : StoreLate(z)
    \/ \E u \in Ids : ExpireUpload(u)
    \/ EditSource \/ ForeignWrite \/ ForeignDelete \/ Terminated

LEMMA NextSplit == Next <=> ByEnvironment \/ \E p \in Procs : ByProcess(p)
  BY DEF Next, ByEnvironment, ByProcess

SameWriter(q) ==
    /\ phase'[q] = phase[q] /\ job'[q] = job[q] /\ part'[q] = part[q]
    /\ chunk'[q] = chunk[q] /\ sent'[q] = sent[q] /\ halted'[q] = halted[q]
    /\ store'[q] = store[q]

LEMMA OtherWriters ==
    ASSUME WriterInv, StoreTypeOK, NEW p \in Procs, ByProcess(p), NEW q \in Procs, q # p
    PROVE  SameWriter(q) /\ seen'[q] = seen[q]
<1> USE DEF SameWriter, WriterInv, WriterTypeOK, StoreTypeOK
<1>1. ASSUME NEW ph, Leave(p, ph) PROVE SameWriter(q) /\ seen'[q] = seen[q]
  BY <1>1 DEF Leave, Goto, CloseStore
<1>2. CASE Start(p)
  BY <1>2 DEF Start, Goto, storeVars
<1>3. CASE OpenStore(p)
  BY <1>3 DEF OpenStore, Goto, TakeLock, DisableStore, callVars
<1>4. CASE DropState(p) \/ SaveInitial(p)
  BY <1>4 DEF DropState, SaveInitial, Goto, callVars
<1>5. CASE Lookup(p)
  BY <1>1, <1>5 DEF Lookup, Goto, callVars
<1>6. CASE LoadState(p)
  BY <1>6 DEF LoadState, Goto, callVars, storeVars
<1>7. CASE InitUpload(p)
  BY <1>1, <1>7 DEF InitUpload, Goto, callVars
<1>8. CASE Sign(p)
  BY <1>1, <1>8 DEF Sign, Goto, callVars
<1>9. CASE Refresh(p)
  BY <1>9 DEF Refresh, Goto, ForgetParts, callVars, storeVars
<1>10. ASSUME NEW k \in Parts, BeginChunk(p, k) PROVE SameWriter(q) /\ seen'[q] = seen[q]
  BY <1>10 DEF BeginChunk, Return, storeVars
<1>11. ASSUME NEW k \in Parts, VerifyPart(p, k) \/ DiscardState(p, k)
       PROVE  SameWriter(q) /\ seen'[q] = seen[q]
  BY <1>11 DEF VerifyPart, DiscardState, Return, storeVars
<1>12. ASSUME NEW k \in Parts, StorePart(p, k) \/ LosePart(p, k) \/ RecordPart(p, k)
       PROVE  SameWriter(q) /\ seen'[q] = seen[q]
  BY <1>12 DEF StorePart, LosePart, RecordPart, Return, storeVars
<1>13. CASE CloseBegin(p) \/ CompleteUpload(p) \/ EndUpload(p) \/ FetchMetadata(p)
  BY <1>13 DEF CloseBegin, CompleteUpload, EndUpload, FetchMetadata, Goto, callVars, storeVars
<1>14. CASE FinishClose(p) \/ EngineAbort(p) \/ Crash(p)
  BY <1>1, <1>14 DEF FinishClose, EngineAbort, Crash
<1>15. CASE SignalAbort(p)
  BY <1>15 DEF SignalAbort, ReleaseLock
<1> QED
  BY <1>2, <1>3, <1>4, <1>5, <1>6, <1>7, <1>8, <1>9, <1>10, <1>11, <1>12, <1>13, <1>14, <1>15
  DEF ByProcess, Step, OpenChunkWriter, WriteChunk, Close

LEMMA EnvironmentFrame ==
    ASSUME ByEnvironment
    PROVE  /\ UNCHANGED <<phase, job, part, chunk, sent, halted, disk, store>>
           /\ UNCHANGED <<source, seen>> \/ EditSource
  BY DEF ByEnvironment, StoreLate, ExpireUpload, EditSource, ForeignWrite, ForeignDelete,
     Terminated, vars, callVars, envVars, storeVars

-----------------------------------------------------------------------------
(* The source: what a writer sends and has verified is what it saw. *)

SourceSeen ==
    \A p \in Procs, k \in Parts : phase[p] \notin Outside => source.data[k] \in seen[p][k]

CallsSeen ==
    \A p \in Procs, k \in Parts :
        /\ chunk[p][k] \in {"send", "stored"} => sent[p][k] \in seen[p][k]
        /\ chunk[p][k] = "done" => part[p][k] \in seen[p][k]

LEMMA SourceSeenStep ==
    TypeInv /\ SourceSeen /\ Next => SourceSeen'
<1>0. SUFFICES ASSUME TypeInv, SourceSeen, Next PROVE SourceSeen'
  OBVIOUS
<1>t. WriterInv /\ StoreTypeOK /\ WriterTypeOK /\ SourceTypeOK
  BY <1>0 DEF TypeInv, WriterInv
<1>1. ASSUME NEW p \in Procs, NEW q \in Procs, NEW k \in Parts, ByProcess(p),
             phase'[q] \notin Outside
      PROVE  source'.data[k] \in seen'[q][k]
  <2>1. UNCHANGED source
    BY <1>1 DEF ByProcess, Step, OpenChunkWriter, WriteChunk, Close, envVars,
       Start, OpenStore, Lookup, LoadState, DropState, InitUpload, SaveInitial, Sign, Refresh,
       BeginChunk, VerifyPart, DiscardState, StorePart, LosePart, RecordPart, CloseBegin,
       CompleteUpload, EndUpload, FetchMetadata, FinishClose, EngineAbort, SignalAbort, Crash
  <2>2. CASE q # p
    BY <1>0, <1>t, <1>1, <2>1, <2>2, OtherWriters DEF SourceSeen, SameWriter
  <2>3. CASE q = p /\ Start(p)
    BY <1>t, <2>1, <2>3 DEF Start, WriterTypeOK
  <2>4. CASE q = p /\ ~ Start(p)
    <3>1. (\E ph \in Outside : Leave(p, ph)) \/ (UNCHANGED seen /\ phase[p] \notin Outside)
      BY <1>t, <1>1, <2>4, WriterFacts
      DEF ByProcess, Step, OpenChunkWriter, WriteChunk, Close, callVars, Outside, Closing, Active,
       OpenStore, Lookup, LoadState, DropState, InitUpload, SaveInitial, Sign, Refresh,
       BeginChunk, VerifyPart, DiscardState, StorePart, LosePart, RecordPart, CloseBegin,
       CompleteUpload, EndUpload, FetchMetadata, FinishClose, Outcome, EngineAbort, SignalAbort,
       Crash
    <3>2. ~ \E ph \in Outside : Leave(p, ph)
      BY <1>t, <1>1, <2>4 DEF Leave, Goto, WriterTypeOK
    <3> QED
      BY <1>0, <2>1, <2>4, <3>1, <3>2 DEF SourceSeen
  <2> QED
    BY <2>2, <2>3, <2>4
<1>2. ASSUME NEW q \in Procs, NEW k \in Parts, ByEnvironment, phase'[q] \notin Outside
      PROVE  source'.data[k] \in seen'[q][k]
  <2>1. CASE EditSource
    BY <1>t, <1>2, <2>1 DEF EditSource, WriterTypeOK
  <2> QED
    BY <1>0, <1>2, <2>1, EnvironmentFrame DEF SourceSeen
<1> QED
  BY <1>0, <1>1, <1>2, NextSplit DEF SourceSeen

\* A call sends, or has verified or recorded, what its writer saw.
LEMMA CallsSeenStep ==
    TypeInv /\ SourceSeen /\ CallsSeen /\ Next => CallsSeen'
<1>0. SUFFICES ASSUME TypeInv, SourceSeen, CallsSeen, Next PROVE CallsSeen'
  OBVIOUS
<1>t. WriterInv /\ StoreTypeOK /\ WriterTypeOK
  BY <1>0 DEF TypeInv, WriterInv
<1> DEFINE Good(q, l) == /\ chunk[q][l] \in {"send", "stored"} => sent[q][l] \in seen[q][l]
                         /\ chunk[q][l] = "done" => part[q][l] \in seen[q][l]
<1>1. ASSUME NEW q \in Procs, NEW l \in Parts,
             chunk'[q][l] = "todo" \/ chunk'[q][l] \in Calls \ {"send", "stored", "done"}
      PROVE  Good(q, l)'
  BY <1>1
<1>2. ASSUME NEW q \in Procs, NEW l \in Parts, chunk'[q][l] = chunk[q][l],
             sent'[q][l] = sent[q][l], part'[q][l] = part[q][l],
             seen[q][l] \subseteq seen'[q][l]
      PROVE  Good(q, l)'
  BY <1>0, <1>2 DEF CallsSeen
<1>3. ASSUME NEW p \in Procs, NEW l \in Parts, NEW ph \in Outside, Leave(p, ph)
      PROVE  Good(p, l)'
  BY <1>t, <1>1, <1>3 DEF Leave, WriterTypeOK
<1>4. ASSUME NEW p \in Procs, NEW l \in Parts, Start(p) \/ OpenChunkWriter(p)
      PROVE  Good(p, l)'
  <2>1. CASE \E ph \in Outside : Leave(p, ph)
    BY <1>3, <2>1
  <2>2. CASE ~ \E ph \in Outside : Leave(p, ph)
    <3>1. UNCHANGED chunk
      BY <1>4, <2>2 DEF Start, OpenChunkWriter, callVars, Outside, OpenStore, Lookup,
         LoadState, DropState, InitUpload, SaveInitial, Sign, Refresh
    <3>2. phase[p] \notin Closing \union {"writing"}
      BY <1>4 DEF Start, OpenChunkWriter, Closing, OpenStore, Lookup,
         LoadState, DropState, InitUpload, SaveInitial, Sign, Refresh
    <3>3. chunk[p][l] = "todo"
      BY <1>t, <3>2 DEF WriterInv, CallsFollowPhase
    <3> QED
      BY <1>1, <3>1, <3>3
  <2> QED
    BY <2>1, <2>2
<1>5. ASSUME NEW p \in Procs, NEW l \in Parts, NEW k \in Parts, WriteChunk(p, k)
      PROVE  Good(p, l)'
  <2>1. seen'[p][l] = seen[p][l]
    BY <1>5 DEF WriteChunk, BeginChunk, VerifyPart, DiscardState, StorePart, LosePart, RecordPart
  <2>2. CASE l # k
    <3>1. chunk'[p][l] = chunk[p][l] /\ sent'[p][l] = sent[p][l] /\ part'[p][l] = part[p][l]
      BY <1>t, <1>5, <2>2 DEF WriterTypeOK, Data, WriteChunk, Return, BeginChunk, VerifyPart,
         DiscardState, StorePart, LosePart, RecordPart
    <3> QED
      BY <1>2, <2>1, <3>1
  <2>3. CASE l = k /\ BeginChunk(p, k)
    <3>1. phase[p] = "writing" /\ source.data[k] \in seen[p][k]
      BY <1>0, <2>3 DEF BeginChunk, SourceSeen, Outside
    <3>2. CASE chunk'[p][k] = "send"
      BY <1>t, <2>1, <2>3, <3>1, <3>2 DEF BeginChunk, Return, Halted, WriterTypeOK, Data
    <3>3. chunk'[p][k] \in {"send", "verify", "failed", "restart"}
      BY <1>t, <2>3 DEF BeginChunk, Return, Halted, WriterTypeOK
    <3> QED
      BY <2>3, <3>2, <3>3
  <2>4. CASE l = k /\ VerifyPart(p, k)
    <3>1. phase[p] = "writing"
      BY <1>t, <2>4, WriterFacts DEF VerifyPart, Active
    <3>2. source.data[k] \in seen[p][k]
      BY <1>0, <3>1 DEF SourceSeen, Outside
    <3>3. \/ chunk'[p][k] = "done" /\ part[p][k] = source.data[k]
          \/ chunk'[p][k] \in {"discard", "failed"}
      BY <1>t, <2>4 DEF VerifyPart, Return, Matches, WriterTypeOK
    <3>4. part' = part
      BY <2>4 DEF VerifyPart
    <3> QED
      BY <2>1, <2>4, <3>2, <3>3, <3>4
  <2>5. CASE l = k /\ (DiscardState(p, k) \/ LosePart(p, k))
    <3>1. chunk'[p][k] \in {"restart", "failed"}
      BY <1>t, <2>5 DEF DiscardState, LosePart, Return, WriterTypeOK
    <3> QED
      BY <2>5, <3>1
  <2>6. CASE l = k /\ StorePart(p, k)
    <3>1. /\ chunk[p][k] = "send" /\ chunk'[p][k] \in {"stored", "failed"}
          /\ UNCHANGED <<sent, part>>
      BY <1>t, <2>6 DEF StorePart, Return, WriterTypeOK
    <3>2. sent[p][k] \in seen[p][k]
      BY <1>0, <3>1 DEF CallsSeen
    <3> QED
      BY <2>1, <2>6, <3>1, <3>2
  <2>7. CASE l = k /\ RecordPart(p, k)
    <3>1. chunk[p][k] = "stored"
      BY <2>7 DEF RecordPart
    <3>2. sent[p][k] \in seen[p][k]
      BY <1>0, <3>1 DEF CallsSeen
    <3>3. \/ chunk'[p][k] \in {"failed", "restart"}
          \/ chunk'[p][k] = "done" /\ part'[p][k] = sent[p][k]
      BY <1>t, <2>7 DEF RecordPart, Return, Halted, WriterTypeOK, Data
    <3> QED
      BY <2>1, <2>7, <3>2, <3>3
  <2> QED
    BY <1>5, <2>2, <2>3, <2>4, <2>5, <2>6, <2>7 DEF WriteChunk
<1>6. ASSUME NEW p \in Procs, NEW l \in Parts, Close(p) \/ EngineAbort(p) \/ SignalAbort(p) \/ Crash(p)
      PROVE  Good(p, l)'
  <2>1. CASE \E ph \in Outside : Leave(p, ph)
    BY <1>3, <2>1
  <2>2. CASE ~ \E ph \in Outside : Leave(p, ph)
    <3>1. UNCHANGED <<chunk, sent, part, seen>>
      BY <1>6, <2>2 DEF Close, callVars, Outside, CloseBegin, CompleteUpload, EndUpload,
         FetchMetadata, FinishClose, Outcome, EngineAbort, SignalAbort, Crash
    <3> QED
      BY <1>2, <3>1
  <2> QED
    BY <2>1, <2>2
<1>7. ASSUME NEW p \in Procs, NEW q \in Procs, NEW l \in Parts, ByProcess(p)
      PROVE  Good(q, l)'
  <2>1. CASE q = p
    BY <1>4, <1>5, <1>6, <1>7, <2>1 DEF ByProcess, Step
  <2>2. CASE q # p
    BY <1>t, <1>2, <1>7, <2>2, OtherWriters DEF SameWriter
  <2> QED
    BY <2>1, <2>2
<1>8. ASSUME NEW q \in Procs, NEW l \in Parts, ByEnvironment PROVE Good(q, l)'
  <2>1. seen[q][l] \subseteq seen'[q][l]
    <3>1. CASE EditSource
      BY <1>t, <3>1 DEF EditSource, WriterTypeOK
    <3> QED
      BY <1>8, <3>1, EnvironmentFrame
  <2> QED
    BY <1>2, <1>8, <2>1, EnvironmentFrame
<1> QED
  BY <1>0, <1>7, <1>8, NextSplit DEF CallsSeen

-----------------------------------------------------------------------------
(* The service: identifiers are handed out once, and an upload that is no  *)
(* longer open keeps its parts.                                            *)

Handed == \A u \in Ids : uploads[u].status # "unused" => u < nextId

\* What a step may do to an upload that has been begun.
Kept(u) ==
    /\ uploads'[u].status # "unused"
    /\ uploads'[u].base = uploads[u].base
    /\ uploads[u].status # "open" =>
         uploads'[u].status # "open" /\ uploads'[u].parts = uploads[u].parts

UploadsKept == \A u \in Ids : uploads[u].status # "unused" => Kept(u)

LEMMA UploadsStep ==
    TypeInv /\ Handed /\ Next => UploadsKept /\ Handed'
<1>0. SUFFICES ASSUME TypeInv, Handed, Next PROVE UploadsKept /\ Handed'
  OBVIOUS
<1>t. uploads \in [Ids -> Upload] /\ nextId \in Nat /\ WriterInv
  BY <1>0 DEF TypeInv, ServiceTypeOK
<1>1. ASSUME UNCHANGED uploads, nextId' \in {nextId, nextId + 1}
      PROVE  UploadsKept /\ Handed'
  BY <1>0, <1>t, <1>1 DEF UploadsKept, Kept, Handed, Ids
<1>2. ASSUME NEW r, NEW b, NewUpload(r, b) PROVE UploadsKept /\ Handed'
  BY <1>0, <1>t, <1>2 DEF UploadsKept, Kept, Handed, NewUpload, Ids, Upload
<1>3. ASSUME NEW u \in Ids, NEW k \in Parts, NEW b, PutPart(u, k, b), UNCHANGED nextId
      PROVE  UploadsKept /\ Handed'
  BY <1>0, <1>t, <1>3 DEF UploadsKept, Kept, Handed, PutPart, Upload
<1>4. ASSUME NEW u \in Ids, NEW s \in {"expired", "assembled", "committed"},
             uploads[u].status # "unused",
             uploads' = [uploads EXCEPT ![u].status = s], UNCHANGED nextId
      PROVE  UploadsKept /\ Handed'
  BY <1>0, <1>t, <1>4 DEF UploadsKept, Kept, Handed, Upload
<1>5. ASSUME NEW p \in Procs, InitUpload(p) \/ Refresh(p) PROVE UploadsKept /\ Handed'
  BY <1>1, <1>2, <1>5 DEF InitUpload, Refresh
<1>6. ASSUME NEW p \in Procs, NEW k \in Parts, StorePart(p, k)
      PROVE  UploadsKept /\ Handed'
  <2>1. job[p].upload \in Ids
    BY <1>t, <1>6, WriterFacts DEF StorePart, HasUpload, Active
  <2> QED
    BY <1>3, <1>6, <2>1 DEF StorePart
<1>7. ASSUME NEW z \in late, StoreLate(z) PROVE UploadsKept /\ Handed'
  <2>1. z.upload \in Ids /\ z.part \in Parts
    BY <1>0 DEF TypeInv, ServiceTypeOK
  <2> QED
    BY <1>3, <1>7, <2>1 DEF StoreLate
<1>8. ASSUME NEW p \in Procs, CompleteUpload(p) \/ EndUpload(p)
      PROVE  UploadsKept /\ Handed'
  <2>1. job[p].upload \in Ids
    BY <1>t, <1>8, WriterFacts DEF CompleteUpload, EndUpload, HasUpload, Closing
  <2>2. CASE CompleteUpload(p)
    BY <1>1, <1>4, <2>1, <2>2 DEF CompleteUpload, Assemble, CompleteAccepted
  <2>3. CASE EndUpload(p)
    BY <1>1, <1>4, <2>1, <2>3 DEF EndUpload, Commit, EndAccepted
  <2> QED
    BY <1>8, <2>2, <2>3
<1>9. ASSUME NEW u \in Ids, ExpireUpload(u) PROVE UploadsKept /\ Handed'
  BY <1>4, <1>9 DEF ExpireUpload
<1>10. CASE ForeignWrite \/ ForeignDelete
  BY <1>1, <1>10 DEF ForeignWrite, ForeignDelete
<1>11. ASSUME NEW p \in Procs, OpenChunkWriter(p), ~ InitUpload(p), ~ Refresh(p)
       PROVE  UNCHANGED <<uploads, nextId>>
  BY <1>11 DEF OpenChunkWriter, OpenStore, Lookup, LoadState, DropState, SaveInitial, Sign,
     serviceVars
<1>12. ASSUME NEW p \in Procs, NEW k \in Parts, WriteChunk(p, k), ~ StorePart(p, k)
       PROVE  UNCHANGED <<uploads, nextId>>
  BY <1>12 DEF WriteChunk, BeginChunk, VerifyPart, DiscardState, LosePart, RecordPart,
     serviceVars
<1>13. ASSUME NEW p \in Procs, \/ Start(p) \/ CloseBegin(p) \/ FetchMetadata(p)
                               \/ FinishClose(p) \/ EngineAbort(p) \/ SignalAbort(p)
                               \/ Crash(p)
       PROVE  UNCHANGED <<uploads, nextId>>
  BY <1>13 DEF Start, CloseBegin, FetchMetadata, FinishClose, EngineAbort, SignalAbort,
     Crash, serviceVars
<1>14. CASE EditSource \/ Terminated
  BY <1>1, <1>14 DEF EditSource, Terminated, vars, serviceVars
<1>15. ASSUME NEW p \in Procs, Step(p) \/ SignalAbort(p) \/ Crash(p)
       PROVE  UploadsKept /\ Handed'
  BY <1>1, <1>5, <1>6, <1>8, <1>11, <1>12, <1>13, <1>15 DEF Step, WriteChunk, Close
<1> QED
  BY <1>0, <1>7, <1>9, <1>10, <1>14, <1>15 DEF Next

-----------------------------------------------------------------------------
(* The upload a writer ends holds exactly the parts the writer has listed. *)

EndingFixed ==
    \A p \in Procs : phase[p] = "ending" =>
        /\ uploads[job[p].upload].status \notin {"unused", "open"}
        /\ uploads[job[p].upload].parts = part[p]

LEMMA EndingFixedStep ==
    TypeInv /\ Handed /\ EndingFixed /\ Next => EndingFixed'
<1>0. SUFFICES ASSUME TypeInv, Handed, EndingFixed, Next, NEW q \in Procs,
                      phase'[q] = "ending"
               PROVE  /\ uploads'[job'[q].upload].status \notin {"unused", "open"}
                      /\ uploads'[job'[q].upload].parts = part'[q]
  BY DEF EndingFixed
<1>t. WriterInv /\ StoreTypeOK /\ WriterTypeOK /\ uploads \in [Ids -> Upload] /\ UploadsKept
  BY <1>0, UploadsStep DEF TypeInv, WriterInv, ServiceTypeOK
<1>1. ASSUME phase[q] = "ending", job'[q] = job[q], part'[q] = part[q]
      PROVE  /\ uploads'[job'[q].upload].status \notin {"unused", "open"}
             /\ uploads'[job'[q].upload].parts = part'[q]
  <2>1. job[q].upload \in Ids
    BY <1>t, <1>1, WriterFacts DEF HasUpload, Closing
  <2> QED
    BY <1>0, <1>t, <1>1, <2>1 DEF EndingFixed, UploadsKept, Kept
<1>2. ASSUME NEW p \in Procs, ByProcess(p), p # q
      PROVE  phase[q] = "ending" /\ job'[q] = job[q] /\ part'[q] = part[q]
  BY <1>0, <1>t, <1>2, OtherWriters DEF SameWriter
<1>3. ASSUME ByEnvironment
      PROVE  phase[q] = "ending" /\ job'[q] = job[q] /\ part'[q] = part[q]
  BY <1>0, <1>3, EnvironmentFrame
<1>4. ASSUME CompleteUpload(q)
      PROVE  /\ uploads'[job'[q].upload].status \notin {"unused", "open"}
             /\ uploads'[job'[q].upload].parts = part'[q]
  <2>1. job[q].upload \in Ids /\ UNCHANGED <<job, part>>
    BY <1>t, <1>4, WriterFacts DEF CompleteUpload, HasUpload, Closing
  <2>2. Assemble(job[q].upload) /\ CompleteAccepted(job[q].upload, part[q])
    BY <1>0, <1>t, <1>4 DEF CompleteUpload, Goto, WriterTypeOK
  <2> QED
    BY <1>t, <2>1, <2>2 DEF Assemble, CompleteAccepted, Upload
<1>5. ASSUME ByProcess(q), ~ CompleteUpload(q)
      PROVE  phase[q] = "ending" /\ job'[q] = job[q] /\ part'[q] = part[q]
  <2>1. ~ \E ph \in Outside : Leave(q, ph)
    BY <1>0, <1>t DEF Leave, Goto, Outside, WriterTypeOK
  <2>2. SignalAbort(q)
    BY <1>0, <1>t, <1>5, <2>1, WriterFacts
    DEF ByProcess, Step, OpenChunkWriter, WriteChunk, Close, Goto, Outside, Active,
        WriterTypeOK,
        Start, OpenStore, Lookup, LoadState, DropState, InitUpload, SaveInitial, Sign, Refresh,
        BeginChunk, VerifyPart, DiscardState, StorePart, LosePart, RecordPart, CloseBegin,
        EndUpload, FetchMetadata, FinishClose, Outcome, EngineAbort, Crash
  <2> QED
    BY <1>0, <2>2 DEF SignalAbort
<1> QED
  BY <1>0, <1>1, <1>2, <1>3, <1>4, <1>5, NextSplit

-----------------------------------------------------------------------------
(* The revision an upload was begun for is the one its writer, and the      *)
(* state file that names it, were bound to.                                 *)

BoundUploads ==
    \A p \in Procs : phase[p] \in HasUpload =>
        /\ uploads[job[p].upload].status # "unused"
        /\ uploads[job[p].upload].base = job[p].base

BoundState ==
    disk # None => /\ uploads[disk.upload].status # "unused"
                   /\ uploads[disk.upload].base = disk.base

\* The revision the caller expected is the one that was looked up.
ExpectedHolds ==
    \A p \in Procs : phase[p] \notin Outside \union {"locking", "lookup"} =>
        job[p].expected \in {None, job[p].base}

\* How process p's step treats its job: it is over, or has no upload yet, or
\* keeps the one it has, or takes one over from the state file, or begins one.
KeepsJob(p) ==
    phase[p] \in HasUpload /\ job'[p].upload = job[p].upload /\ job'[p].base = job[p].base

TakesOver(p) ==
    /\ disk # None /\ disk.base = job[p].base
    /\ job'[p].upload = disk.upload /\ job'[p].base = job[p].base

Begins(p) ==
    /\ job'[p].upload = nextId /\ job'[p].base = job[p].base
    /\ \E r : NewUpload(r, job[p].base)

LEMMA JobStep ==
    ASSUME TypeInv, BoundUploads, NEW p \in Procs, ByProcess(p)
    PROVE  phase'[p] \notin HasUpload \/ KeepsJob(p) \/ TakesOver(p) \/ Begins(p)
<1>t. WriterInv /\ WriterTypeOK
  BY DEF TypeInv, WriterInv
<1>w. ASSUME NEW ph \in Outside, Leave(p, ph) PROVE phase'[p] \notin HasUpload
  BY <1>t, <1>w DEF Leave, Goto, Outside, HasUpload, Closing, WriterTypeOK
<1>1. CASE Start(p) \/ OpenStore(p) \/ Lookup(p) \/ DropState(p)
  BY <1>t, <1>w, <1>1 DEF Start, OpenStore, Lookup, DropState, Goto, Outside, HasUpload, Closing,
     WriterTypeOK
<1>2. CASE LoadState(p)
  <2>1. phase'[p] \notin HasUpload
        \/ /\ disk # None /\ ValidFor(disk, job[p].stamp, job[p].base)
           /\ job' = [job EXCEPT ![p] = [@ EXCEPT !.upload = disk.upload, !.resumed = TRUE]]
    BY <1>t, <1>2 DEF LoadState, Goto, HasUpload, Closing, WriterTypeOK
  <2>2. job[p] \in Job
    BY <1>t, WriterFacts
  <2>3. job' = [job EXCEPT ![p] = [@ EXCEPT !.upload = disk.upload, !.resumed = TRUE]]
        => /\ job'[p].upload = disk.upload
           /\ job'[p].base = job[p].base
           /\ job'[p].expected = job[p].expected
    BY <1>t, <2>2 DEF WriterTypeOK, Job
  <2> QED
    BY <2>1, <2>3 DEF TakesOver, ValidFor
<1>3. CASE InitUpload(p)
  <2>1. CASE NewUpload(nextId, job[p].base) /\ job' = [job EXCEPT ![p].upload = nextId]
    <3>1. job[p] \in Job
      BY <1>t, WriterFacts
    <3> QED
      BY <1>t, <2>1, <3>1 DEF Begins, WriterTypeOK, Job
  <2> QED
    BY <1>3, <1>w, <2>1 DEF InitUpload, Outside
<1>4. CASE Refresh(p)
  <2>1. job[p] \in Job /\ uploads[job[p].upload].base = job[p].base
    BY <1>t, <1>4, WriterFacts DEF BoundUploads, Refresh, HasUpload
  <2>2. CASE phase'[p] = "dropping"
    BY <2>2 DEF HasUpload, Closing
  <2>3. phase'[p] = "dropping"
        \/ /\ NewUpload(uploads[job[p].upload].rev, uploads[job[p].upload].base)
           /\ job' = [job EXCEPT ![p] = [@ EXCEPT !.upload = nextId, !.resumed = FALSE]]
    BY <1>t, <1>4 DEF Refresh, Goto, WriterTypeOK
  <2>4. CASE phase'[p] # "dropping"
    <3>1. NewUpload(uploads[job[p].upload].rev, job[p].base)
      BY <2>1, <2>3, <2>4
    <3>2. job' = [job EXCEPT ![p] = [job[p] EXCEPT !.upload = nextId, !.resumed = FALSE]]
      BY <1>t, <2>3, <2>4 DEF WriterTypeOK
    <3>3. job'[p].upload = nextId /\ job'[p].base = job[p].base
      BY <1>t, <2>1, <3>2 DEF WriterTypeOK, Job
    <3> QED
      BY <3>1, <3>3 DEF Begins
  <2> QED
    BY <2>2, <2>4
<1>5. CASE \/ SaveInitial(p) \/ Sign(p) \/ Close(p) \/ EngineAbort(p) \/ SignalAbort(p)
           \/ Crash(p)
  <2>1. CASE \E ph \in Outside : Leave(p, ph)
    BY <1>w, <2>1
  <2>2. CASE ~ \E ph \in Outside : Leave(p, ph)
    <3>1. job' = job /\ phase[p] \in HasUpload
      BY <1>5, <2>2 DEF SaveInitial, Sign, Close, callVars, Outside, CloseBegin,
         CompleteUpload, EndUpload, FetchMetadata, FinishClose, Outcome, EngineAbort,
         SignalAbort, Crash, HasUpload, Closing
    <3> QED
      BY <3>1 DEF KeepsJob
  <2> QED
    BY <2>1, <2>2
<1>6. ASSUME NEW k \in Parts, WriteChunk(p, k) PROVE KeepsJob(p)
  <2>1. job' = job
    BY <1>6 DEF WriteChunk, BeginChunk, VerifyPart, DiscardState, StorePart, LosePart,
       RecordPart
  <2>2. phase[p] = "writing"
    BY <1>t, <1>6, WriterFacts DEF WriteChunk, BeginChunk, VerifyPart, DiscardState,
       StorePart, LosePart, RecordPart, Active
  <2> QED
    BY <2>1, <2>2 DEF KeepsJob, HasUpload
<1> QED
  BY <1>1, <1>2, <1>3, <1>4, <1>5, <1>6 DEF ByProcess, Step, OpenChunkWriter

LEMMA BoundUploadsStep ==
    TypeInv /\ Handed /\ BoundUploads /\ BoundState /\ Next => BoundUploads'
<1>0. SUFFICES ASSUME TypeInv, Handed, BoundUploads, BoundState, Next, NEW q \in Procs,
                      phase'[q] \in HasUpload
               PROVE  /\ uploads'[job'[q].upload].status # "unused"
                      /\ uploads'[job'[q].upload].base = job'[q].base
  BY DEF BoundUploads
<1>t. WriterInv /\ StoreTypeOK /\ UploadsKept /\ uploads \in [Ids -> Upload]
  BY <1>0, UploadsStep DEF TypeInv, ServiceTypeOK
<1>1. KeepsJob(q) \/ TakesOver(q) \/ Begins(q)
  <2>1. CASE ByEnvironment
    BY <1>0, <2>1, EnvironmentFrame DEF KeepsJob
  <2>2. ASSUME NEW p \in Procs, p # q, ByProcess(p) PROVE KeepsJob(q)
    BY <1>0, <1>t, <2>2, OtherWriters DEF KeepsJob, SameWriter
  <2>3. CASE ByProcess(q)
    BY <1>0, <2>3, JobStep
  <2> QED
    BY <1>0, <2>1, <2>2, <2>3, NextSplit
<1>2. CASE KeepsJob(q)
  <2>1. job[q].upload \in Ids
    BY <1>t, <1>2, WriterFacts DEF KeepsJob
  <2> QED
    BY <1>0, <1>t, <1>2, <2>1 DEF KeepsJob, BoundUploads, UploadsKept, Kept
<1>3. CASE TakesOver(q)
  <2>1. disk.upload \in Ids
    BY <1>t, <1>3 DEF TakesOver, StoreTypeOK, ResumeState
  <2> QED
    BY <1>0, <1>t, <1>3, <2>1 DEF TakesOver, BoundState, UploadsKept, Kept
<1>4. CASE Begins(q)
  BY <1>t, <1>4 DEF Begins, NewUpload
<1> QED
  BY <1>1, <1>2, <1>3, <1>4

LEMMA DiskStep ==
    ASSUME TypeInv, Next
    PROVE  \/ disk' \in {disk, None}
           \/ \E p \in Procs : /\ phase[p] \in {"saving", "writing"}
                               /\ disk'.upload = job[p].upload /\ disk'.base = job[p].base
<1>t. WriterInv
  BY DEF TypeInv
<1>1. ASSUME NEW p \in Procs, NEW d, NEW ok, SaveState(p, StateOf(p, d), ok)
      PROVE  disk' = disk \/ (disk'.upload = job[p].upload /\ disk'.base = job[p].base)
  BY <1>1 DEF SaveState, StateOf
<1>2. ASSUME NEW p \in Procs, NEW ok, RemoveState(p, ok) PROVE disk' \in {disk, None}
  BY <1>2 DEF RemoveState
<1>3. ASSUME NEW p \in Procs, DropState(p) PROVE disk' \in {disk, None}
  BY <1>2, <1>3 DEF DropState
<1>4. ASSUME NEW p \in Procs, FinishClose(p) PROVE disk' \in {disk, None}
  BY <1>2, <1>4 DEF FinishClose, ForgetState
<1>5. ASSUME NEW p \in Procs, NEW k \in Parts, DiscardState(p, k) PROVE disk' \in {disk, None}
  BY <1>2, <1>5 DEF DiscardState
<1>6. ASSUME NEW p \in Procs, SaveInitial(p)
      PROVE  disk' = disk \/ (/\ phase[p] = "saving" /\ disk'.upload = job[p].upload
                              /\ disk'.base = job[p].base)
  BY <1>1, <1>6 DEF SaveInitial
<1>7. ASSUME NEW p \in Procs, NEW k \in Parts, RecordPart(p, k)
      PROVE  disk' = disk \/ (/\ phase[p] = "writing" /\ disk'.upload = job[p].upload
                              /\ disk'.base = job[p].base)
  <2>1. phase[p] = "writing"
    BY <1>t, <1>7, WriterFacts DEF RecordPart, Active
  <2> QED
    BY <1>1, <1>7, <2>1 DEF RecordPart
<1>8. ASSUME NEW p \in Procs, OpenChunkWriter(p), ~ DropState(p), ~ SaveInitial(p)
      PROVE  disk' = disk
  BY <1>8 DEF OpenChunkWriter, OpenStore, Lookup, LoadState, InitUpload, Sign, Refresh,
     storeVars
<1>9. ASSUME NEW p \in Procs, NEW k \in Parts, WriteChunk(p, k), ~ DiscardState(p, k),
             ~ RecordPart(p, k)
      PROVE  disk' = disk
  BY <1>9 DEF WriteChunk, BeginChunk, VerifyPart, StorePart, LosePart, storeVars
<1>10. ASSUME NEW p \in Procs,
              \/ Start(p) \/ EngineAbort(p) \/ SignalAbort(p) \/ Crash(p)
              \/ Close(p) /\ ~ FinishClose(p)
       PROVE  disk' = disk
  BY <1>10 DEF Start, Close, CloseBegin, CompleteUpload, EndUpload, FetchMetadata,
     EngineAbort, SignalAbort, Crash, storeVars
<1>11. ASSUME NEW p \in Procs, NEW k \in Parts, WriteChunk(p, k)
       PROVE  \/ disk' \in {disk, None}
              \/ /\ phase[p] = "writing" /\ disk'.upload = job[p].upload
                 /\ disk'.base = job[p].base
  BY <1>5, <1>7, <1>9, <1>11
<1>12. ASSUME NEW p \in Procs, OpenChunkWriter(p)
       PROVE  \/ disk' \in {disk, None}
              \/ /\ phase[p] = "saving" /\ disk'.upload = job[p].upload
                 /\ disk'.base = job[p].base
  BY <1>3, <1>6, <1>8, <1>12
<1>13. ASSUME NEW p \in Procs, Start(p) \/ EngineAbort(p) \/ SignalAbort(p) \/ Crash(p) \/ Close(p)
       PROVE  disk' \in {disk, None}
  BY <1>4, <1>10, <1>13
<1>14. CASE ByEnvironment
  BY <1>14, EnvironmentFrame
<1> QED
  BY <1>11, <1>12, <1>13, <1>14, NextSplit DEF ByProcess, Step

LEMMA BoundStateStep ==
    TypeInv /\ Handed /\ BoundUploads /\ BoundState /\ Next => BoundState'
<1>0. SUFFICES ASSUME TypeInv, Handed, BoundUploads, BoundState, Next, disk' # None
               PROVE  /\ uploads'[disk'.upload].status # "unused"
                      /\ uploads'[disk'.upload].base = disk'.base
  BY DEF BoundState
<1>t. WriterInv /\ StoreTypeOK /\ UploadsKept
  BY <1>0, UploadsStep DEF TypeInv
<1>1. CASE disk' = disk
  <2>1. disk.upload \in Ids
    BY <1>0, <1>t, <1>1 DEF StoreTypeOK, ResumeState
  <2> QED
    BY <1>0, <1>t, <1>1, <2>1 DEF BoundState, UploadsKept, Kept
<1>2. ASSUME NEW p \in Procs, phase[p] \in {"saving", "writing"},
             disk'.upload = job[p].upload, disk'.base = job[p].base
      PROVE  /\ uploads'[disk'.upload].status # "unused"
             /\ uploads'[disk'.upload].base = disk'.base
  <2>1. phase[p] \in HasUpload
    BY <1>2 DEF HasUpload
  <2>2. job[p].upload \in Ids
    BY <1>t, <2>1, WriterFacts
  <2> QED
    BY <1>0, <1>t, <1>2, <2>1, <2>2 DEF BoundUploads, UploadsKept, Kept
<1> QED
  BY <1>0, <1>1, <1>2, DiskStep

\* What the caller expected and what was looked up stay until the attempt ends.
LEMMA JobKept ==
    ASSUME TypeInv, NEW p \in Procs, OpenChunkWriter(p), ~ Lookup(p),
           ~ \E ph \in Outside : Leave(p, ph)
    PROVE  job'[p].expected = job[p].expected /\ job'[p].base = job[p].base
<1>t. WriterInv /\ WriterTypeOK /\ job[p] \in Job
  BY WriterFacts DEF TypeInv, WriterInv
<1>1. CASE LoadState(p)
  <2>1. \/ job' = job
        \/ job' = [job EXCEPT ![p] = [job[p] EXCEPT !.upload = disk.upload,
                                                    !.resumed = TRUE]]
    BY <1>t, <1>1 DEF LoadState, WriterTypeOK
  <2>2. CASE job' = [job EXCEPT ![p] = [job[p] EXCEPT !.upload = disk.upload,
                                                      !.resumed = TRUE]]
    BY <1>t, <2>2 DEF WriterTypeOK, Job
  <2> QED
    BY <2>1, <2>2
<1>2. CASE InitUpload(p)
  <2>1. job' = [job EXCEPT ![p] = [job[p] EXCEPT !.upload = nextId]]
    BY <1>t, <1>2 DEF InitUpload, WriterTypeOK, Outside
  <2> QED
    BY <1>t, <2>1 DEF WriterTypeOK, Job
<1>3. CASE Refresh(p)
  <2>1. \/ job' = [job EXCEPT ![p] = [job[p] EXCEPT !.resumed = FALSE]]
        \/ job' = [job EXCEPT ![p] = [job[p] EXCEPT !.upload = nextId, !.resumed = FALSE]]
    BY <1>t, <1>3 DEF Refresh, WriterTypeOK
  <2>2. CASE job' = [job EXCEPT ![p] = [job[p] EXCEPT !.resumed = FALSE]]
    BY <1>t, <2>2 DEF WriterTypeOK, Job
  <2>3. CASE job' = [job EXCEPT ![p] = [job[p] EXCEPT !.upload = nextId, !.resumed = FALSE]]
    BY <1>t, <2>3 DEF WriterTypeOK, Job
  <2> QED
    BY <2>1, <2>2, <2>3
<1>4. ASSUME OpenStore(p) \/ DropState(p) \/ SaveInitial(p) \/ Sign(p) PROVE UNCHANGED job
  BY <1>4 DEF OpenStore, DropState, SaveInitial, Sign, Outside
<1> QED
  BY <1>1, <1>2, <1>3, <1>4 DEF OpenChunkWriter

LEMMA ExpectedHoldsStep ==
    TypeInv /\ ExpectedHolds /\ Next => ExpectedHolds'
<1>0. SUFFICES ASSUME TypeInv, ExpectedHolds, Next, NEW q \in Procs,
                      phase'[q] \notin Outside \union {"locking", "lookup"}
               PROVE  job'[q].expected \in {None, job'[q].base}
  BY DEF ExpectedHolds
<1>t. WriterInv /\ WriterTypeOK /\ StoreTypeOK /\ job[q] \in Job
  BY <1>0, WriterFacts DEF TypeInv, WriterInv
<1>1. ASSUME phase[q] \notin Outside \union {"locking", "lookup"},
             job'[q].expected = job[q].expected, job'[q].base = job[q].base
      PROVE  job'[q].expected \in {None, job'[q].base}
  BY <1>0, <1>1 DEF ExpectedHolds
<1>2. CASE ByEnvironment
  BY <1>0, <1>1, <1>2, EnvironmentFrame
<1>3. ASSUME NEW p \in Procs, p # q, ByProcess(p)
      PROVE  job'[q].expected \in {None, job'[q].base}
  BY <1>0, <1>t, <1>1, <1>3, OtherWriters DEF SameWriter
<1>w. ~ \E ph \in Outside : Leave(q, ph)
  BY <1>0, <1>t DEF Leave, Goto, Outside, WriterTypeOK
<1>4. CASE Start(q) \/ OpenStore(q)
  BY <1>0, <1>t, <1>4 DEF Start, OpenStore, Goto, WriterTypeOK
<1>5. CASE Lookup(q)
  BY <1>0, <1>t, <1>w, <1>5 DEF Lookup, Job, WriterTypeOK, Outside
<1>6. CASE OpenChunkWriter(q) /\ ~ OpenStore(q) /\ ~ Lookup(q)
  <2>1. job'[q].expected = job[q].expected /\ job'[q].base = job[q].base
    BY <1>0, <1>w, <1>6, JobKept
  <2>2. phase[q] \notin Outside \union {"locking", "lookup"}
    BY <1>6 DEF OpenChunkWriter, LoadState, DropState, InitUpload, SaveInitial, Sign, Refresh,
       Outside
  <2> QED
    BY <1>1, <2>1, <2>2
<1>7. CASE Close(q) \/ EngineAbort(q) \/ SignalAbort(q) \/ Crash(q)
  <2>1. UNCHANGED job
    BY <1>w, <1>7 DEF Close, callVars, Outside, CloseBegin, CompleteUpload, EndUpload,
       FetchMetadata, FinishClose, Outcome, EngineAbort, SignalAbort, Crash
  <2>2. phase[q] \notin Outside \union {"locking", "lookup"}
    BY <1>w, <1>7 DEF Close, Closing, Outside, CloseBegin, CompleteUpload, EndUpload,
       FetchMetadata, FinishClose, Outcome, EngineAbort, SignalAbort, Crash
  <2> QED
    BY <1>1, <2>1, <2>2
<1>8. ASSUME NEW k \in Parts, WriteChunk(q, k)
      PROVE  job'[q].expected \in {None, job'[q].base}
  <2>1. UNCHANGED <<job, phase>>
    BY <1>8 DEF WriteChunk, BeginChunk, VerifyPart, DiscardState, StorePart, LosePart,
       RecordPart
  <2> QED
    BY <1>0, <1>1, <2>1
<1> QED
  BY <1>0, <1>2, <1>3, <1>4, <1>5, <1>6, <1>7, <1>8, NextSplit DEF ByProcess, Step

-----------------------------------------------------------------------------
(* The invariant, and what a committing step does by it. *)

IInv ==
    /\ TypeInv
    /\ SourceSeen /\ CallsSeen
    /\ Handed /\ EndingFixed
    /\ BoundUploads /\ BoundState /\ ExpectedHolds

LEMMA IInvInit == Init => IInv
<1>1. SUFFICES ASSUME Init PROVE IInv
  OBVIOUS
<1>2. TypeInv
  BY <1>1, TypeInvInit
<1>3. /\ \A p \in Procs : phase[p] = "idle"
      /\ \A p \in Procs, k \in Parts : chunk[p][k] = "todo"
      /\ disk = None /\ \A u \in Ids : uploads[u].status = "unused"
  BY <1>1 DEF Init, StoreInit, ServiceInit
<1> QED
  BY <1>2, <1>3 DEF IInv, SourceSeen, CallsSeen, Handed, EndingFixed, BoundUploads,
     BoundState, ExpectedHolds, Outside, HasUpload, Closing

LEMMA IInvStep == IInv /\ [Next]_vars => IInv'
<1>1. SUFFICES ASSUME IInv, [Next]_vars PROVE IInv'
  OBVIOUS
<1>2. CASE Next
  BY <1>1, <1>2, TypeInvStep, SourceSeenStep, CallsSeenStep, UploadsStep, EndingFixedStep,
     BoundUploadsStep, BoundStateStep, ExpectedHoldsStep DEF IInv
<1>3. CASE UNCHANGED vars
  <2>1. TypeInv'
    BY <1>1, TypeInvStep DEF IInv
  <2> QED
    BY <1>1, <1>3, <2>1 DEF IInv, vars, SourceSeen, CallsSeen, Handed, EndingFixed,
       BoundUploads, BoundState, ExpectedHolds
<1> QED
  BY <1>1, <1>2, <1>3

LEMMA CommitFacts ==
    ASSUME IInv, [Next]_vars, NEW p \in Procs, Commits(p)
    PROVE  /\ EndAccepted(job[p].upload, job[p].base)
           /\ Commit(job[p].upload)
<1>t. WriterInv /\ StoreTypeOK
  BY DEF IInv, TypeInv
<1>1. Next /\ phase[p] = "ending" /\ phase'[p] # "ending" /\ dest' # dest
  BY DEF Commits, vars
<1>2. ~ ByEnvironment
  BY <1>1, EnvironmentFrame
<1>3. PICK q \in Procs : ByProcess(q)
  BY <1>1, <1>2, NextSplit
<1>4. q = p
  BY <1>t, <1>1, <1>3, OtherWriters DEF SameWriter
<1>5. ASSUME NEW k \in Parts PROVE ~ WriteChunk(p, k)
  BY <1>1 DEF WriteChunk, BeginChunk, VerifyPart, DiscardState, StorePart, LosePart,
     RecordPart, serviceVars
<1>6. ~ OpenChunkWriter(p)
  BY <1>1 DEF OpenChunkWriter, OpenStore, Lookup, LoadState, DropState, InitUpload,
     SaveInitial, Sign, Refresh
<1>7. EndUpload(p)
  BY <1>1, <1>3, <1>4, <1>5, <1>6 DEF ByProcess, Step, Start, Close, CloseBegin,
     CompleteUpload, FetchMetadata, FinishClose, EngineAbort, SignalAbort, Crash, serviceVars
<1> QED
  BY <1>1, <1>7 DEF EndUpload, EditedRev

\* The parts a copy puts in place are what its source held during the attempt:
\* nothing stale, foreign or missing gets past the digest check of WriteChunk
\* and the ETags listed at completion (chunk_writer.go:276-367), for any number
\* of writers, parts, failures and edits of the source.
THEOREM CommitsOnlySource == Spec => CommitsSource
<1>1. ASSUME IInv, [Next]_vars, NEW p \in Procs, Commits(p), NEW k \in Parts
      PROVE  dest'.data[k] \in seen[p][k]
  <2>1. phase[p] = "ending" /\ dest'.data = uploads[job[p].upload].parts
    <3>1. Commit(job[p].upload)
      BY <1>1, CommitFacts
    <3> QED
      BY <1>1, <3>1 DEF Commits, Commit
  <2>2. dest'.data = part[p]
    BY <1>1, <2>1 DEF IInv, EndingFixed
  <2>3. chunk[p][k] = "done"
    BY <1>1, <2>1 DEF IInv, TypeInv, WriterInv, CallsFollowPhase, Closing
  <2> QED
    BY <1>1, <2>2, <2>3 DEF IInv, CallsSeen
<1>2. IInv /\ [Next]_vars =>
        [\A p \in Procs : Commits(p) => \A k \in Parts : dest'.data[k] \in seen[p][k]]_vars
  BY <1>1
<1> QED
  BY <1>2, IInvInit, IInvStep, PTL DEF Spec, CommitsSource

\* An upload replaces the revision it was begun for and no other: the resumed
\* upload ID, the revision looked up in this attempt and the caller's
\* precondition all name the version that is overwritten
\* (chunk_writer.go:56-162, validFor(), finishMultipartUpload()).
THEOREM ReplacesOnlyBase == Spec => NoLostUpdate
<1>1. ASSUME IInv, [Next]_vars, NEW p \in Procs, Commits(p)
      PROVE  /\ dest.rev = job[p].base
             /\ dest.rev = uploads[job[p].upload].base
             /\ job[p].expected \in {None, dest.rev}
  <2>1. EndAccepted(job[p].upload, job[p].base) /\ phase[p] = "ending"
    BY <1>1, CommitFacts DEF Commits
  <2>2. uploads[job[p].upload].base = job[p].base
    BY <1>1, <2>1 DEF IInv, BoundUploads, HasUpload, Closing
  <2>3. dest.rev = job[p].base
    BY <2>1, <2>2 DEF EndAccepted
  <2>4. job[p].expected \in {None, job[p].base}
    BY <1>1, <2>1 DEF IInv, ExpectedHolds, Outside
  <2> QED
    BY <2>2, <2>3, <2>4
<1>2. IInv /\ [Next]_vars =>
        [\A p \in Procs : Commits(p) =>
           /\ dest.rev = job[p].base
           /\ dest.rev = uploads[job[p].upload].base
           /\ job[p].expected \in {None, dest.rev}]_vars
  BY <1>1
<1> QED
  BY <1>2, IInvInit, IInvStep, PTL DEF Spec, NoLostUpdate
=============================================================================
