---------------------------- MODULE ChunkWriter ----------------------------
(***************************************************************************)
(* Resumable multipart upload: Fs.OpenChunkWriter, WriteChunk, Close and   *)
(* Abort of backend/pkudisk/chunk_writer.go, as rclone's multi-thread copy *)
(* drives them, by several processes that upload the same source to the    *)
(* same destination.                                                       *)
(*                                                                         *)
(* A process goes round once per attempt:                                  *)
(*                                                                         *)
(*   idle, locking, lookup, loading, dropping, init, saving, signing,      *)
(*   refreshing            inside OpenChunkWriter                          *)
(*   writing               its WriteChunk calls run concurrently           *)
(*   completing, ending, fetching, closed, closeFailed, closeConflict      *)
(*                         inside Close                                    *)
(*   finished, refused     the copy succeeded, or failed with an error     *)
(*                         that must not be retried                        *)
(*                                                                         *)
(* Every request, file operation and chunk may fail while the fault budget *)
(* lasts.  A process that ends its attempt goes back to idle and the next  *)
(* attempt is rclone's retry, or the next invocation of rclone.            *)
(***************************************************************************)
EXTENDS ResumeStore, UploadService

CONSTANTS
    MaxFaults,    \* bound: failures, crashes, signals and expiries
    MaxChanges    \* bound: changes of the source and of the destination

ASSUME BudgetAssumption == MaxFaults \in Nat /\ MaxChanges \in Nat

VARIABLES
    source,    \* the local file: its parts and what stat says of it
    phase,     \* phase[p]: where process p is
    job,       \* job[p]: locals of OpenChunkWriter, then fields of the writer
    part,      \* part[p]: partInfo and resumeState.Completed of the writer
    chunk,     \* chunk[p][k]: the WriteChunk call for part k
    sent,      \* sent[p][k]: the bytes that call read from the source
    halted,    \* halted[p]: the writer's flags aborted and resumeInvalid
    seen,      \* seen[p][k]: what part k of the source held since p's Start
               \* (a history variable: no action depends on it)
    faults,    \* failures so far
    changes    \* changes so far

callVars == <<chunk, sent, halted, seen>>
envVars  == <<source, changes>>
vars == <<dest, uploads, nextId, late, disk, store, source, phase, job, part,
          chunk, sent, halted, seen, faults, changes>>

Opening == {"locking", "lookup", "loading", "dropping", "init", "saving",
            "signing", "refreshing"}
\* The writer's closed flag is set exactly in these phases.
Closing == {"completing", "ending", "fetching", "closed", "closeFailed",
            "closeConflict"}
Outside == {"idle", "finished", "refused"}
Phases  == Outside \union Opening \union {"writing"} \union Closing

\* A WriteChunk call that has started and not returned.
Active == {"verify", "discard", "send", "stored"}
Calls  == {"todo", "done", "failed", "restart"} \union Active

Job == [stamp : Stamps \union {None}, base : Revs, expected : Revs \union {None},
        upload : Revs, resumed : BOOLEAN]
NoJob == [stamp |-> None, base |-> 0, expected |-> None, upload |-> 0,
          resumed |-> FALSE]

TypeOK ==
    /\ StoreTypeOK
    /\ ServiceTypeOK
    /\ source \in [data : [Parts -> Bytes], stamp : Stamps]
    /\ phase \in [Procs -> Phases]
    /\ job \in [Procs -> Job]
    /\ part \in [Procs -> Data]
    /\ chunk \in [Procs -> [Parts -> Calls]]
    /\ sent \in [Procs -> Data]
    /\ halted \in [Procs -> {"no", "aborted", "invalid"}]
    /\ seen \in [Procs -> [Parts -> SUBSET Bytes]]
    /\ faults \in 0 .. MaxFaults
    /\ changes \in 0 .. MaxChanges

Init ==
    /\ StoreInit
    /\ ServiceInit
    /\ \E b \in Bytes, s \in Stamps :
         source = [data |-> [k \in Parts |-> b], stamp |-> s]
    /\ phase = [p \in Procs |-> "idle"]
    /\ job = [p \in Procs |-> NoJob]
    /\ part = [p \in Procs |-> NoData]
    /\ chunk = [p \in Procs |-> [k \in Parts |-> "todo"]]
    /\ sent = [p \in Procs |-> NoData]
    /\ halted = [p \in Procs |-> "no"]
    /\ seen = [p \in Procs |-> [k \in Parts |-> {}]]
    /\ faults = 0
    /\ changes = 0

Fault == faults < MaxFaults /\ faults' = faults + 1

\* A step that may fail: it succeeds, or it uses up one fault.
Attempt(ok) == IF ok THEN UNCHANGED faults ELSE Fault

\* A request fails: the service refuses it, or the connection fails.
RequestFails(accepted) == (~ accepted /\ UNCHANGED faults) \/ Fault

Goto(p, ph) == phase' = [phase EXCEPT ![p] = ph]

Missing(p) == {k \in Parts : part[p][k] = None}

\* The attempt is over: the writer and its store object are dropped.  The
\* lock goes with them (release(), or the end of the process), the state
\* file stays as it is.
Leave(p, ph) ==
    /\ Goto(p, ph)
    /\ CloseStore(p)
    /\ job' = [job EXCEPT ![p] = NoJob]
    /\ part' = [part EXCEPT ![p] = NoData]
    /\ chunk' = [chunk EXCEPT ![p] = [k \in Parts |-> "todo"]]
    /\ sent' = [sent EXCEPT ![p] = NoData]
    /\ halted' = [halted EXCEPT ![p] = "no"]
    /\ seen' = [seen EXCEPT ![p] = [k \in Parts |-> {}]]

-----------------------------------------------------------------------------
(* OpenChunkWriter *)

\* The call with its preconditions: none, or the revision the caller saw (0:
\* the caller saw no file).  The source's identity is read before the lock.
Start(p) ==
    /\ phase[p] = "idle"
    /\ \E e \in {None, dest.rev} :
         job' = [job EXCEPT ![p] = [@ EXCEPT !.stamp = source.stamp, !.expected = e]]
    /\ seen' = [seen EXCEPT ![p] = [k \in Parts |-> {source.data[k]}]]
    /\ Goto(p, "locking")
    /\ UNCHANGED <<serviceVars, storeVars, chunk, sent, halted, part, envVars, faults>>

OpenStore(p) ==
    /\ phase[p] = "locking"
    /\ \/ TakeLock(p) /\ UNCHANGED faults
       \/ Fault /\ DisableStore(p)
    /\ Goto(p, "lookup")
    /\ UNCHANGED <<serviceVars, disk, job, part, callVars, envVars>>

\* Parent directory, current destination, preconditions and part size.
Lookup(p) ==
    /\ phase[p] = "lookup"
    /\ \/ /\ job[p].expected \in {None, dest.rev}
          /\ job' = [job EXCEPT ![p].base = dest.rev]
          /\ Goto(p, "loading")
          /\ UNCHANGED <<store, part, callVars, faults>>
       \/ /\ job[p].expected \notin {None, dest.rev}
          /\ Leave(p, "refused")
          /\ UNCHANGED faults
       \/ Fault /\ Leave(p, "idle")
    /\ UNCHANGED <<serviceVars, disk, envVars>>

\* Resume from the state file if it can be read and is valid; otherwise drop
\* it and start afresh.
LoadState(p) ==
    /\ phase[p] = "loading"
    /\ \E ok \in BOOLEAN :
         /\ Attempt(ok)
         /\ IF ~ Enabled(p) \/ disk = None
            THEN ok /\ Goto(p, "init") /\ UNCHANGED <<job, part>>
            ELSE IF ok /\ ValidFor(disk, job[p].stamp, job[p].base)
            THEN /\ job' = [job EXCEPT ![p] = [@ EXCEPT !.upload = disk.upload, !.resumed = TRUE]]
                 /\ part' = [part EXCEPT ![p] = disk.completed]
                 /\ Goto(p, "signing")
            ELSE Goto(p, "dropping") /\ UNCHANGED <<job, part>>
    /\ UNCHANGED <<serviceVars, storeVars, callVars, envVars>>

DropState(p) ==
    /\ phase[p] = "dropping"
    /\ \E ok \in BOOLEAN : Attempt(ok) /\ RemoveState(p, ok)
    /\ Goto(p, "init")
    /\ UNCHANGED <<serviceVars, store, job, part, callVars, envVars>>

\* startFresh: osinitmultiupload.  A revision conflict is final only for a
\* preconditioned update.
InitUpload(p) ==
    /\ phase[p] = "init"
    /\ \/ /\ StartAccepted(job[p].base)
          /\ NewUpload(nextId, job[p].base)
          /\ job' = [job EXCEPT ![p].upload = nextId]
          /\ Goto(p, "saving")
          /\ UNCHANGED <<store, part, callVars, faults>>
       \/ /\ ~ StartAccepted(job[p].base)
          /\ Leave(p, IF job[p].expected # None /\ job[p].base # 0
                      THEN "refused" ELSE "idle")
          /\ UNCHANGED <<uploads, nextId, faults>>
       \/ Fault /\ Leave(p, "idle") /\ UNCHANGED <<uploads, nextId>>
    /\ UNCHANGED <<dest, late, disk, envVars>>

\* Seeded fault: the upload ID is left out of the saved state.
StateWithoutUpload(p, parts) ==
    [stamp |-> job[p].stamp, base |-> job[p].base, upload |-> 0, completed |-> parts]

\* The state a writer saves: its source and destination as they were looked
\* up, its upload and the parts completed so far.
StateOf(p, parts) ==
    [stamp |-> job[p].stamp, base |-> job[p].base, upload |-> job[p].upload,
     completed |-> parts]

SaveInitial(p) ==
    /\ phase[p] = "saving"
    /\ \E ok \in BOOLEAN : Attempt(ok) /\ SaveState(p, StateOf(p, part[p]), ok)
    /\ Goto(p, "signing")
    /\ UNCHANGED <<serviceVars, store, job, part, callVars, envVars>>

\* osuploadpart for the ranges of missing parts: no request if there are
\* none.  Any failure of a resumed upload is taken for an expired upload ID.
\* A response that lacks a part ends the attempt.
Sign(p) ==
    LET asks == Missing(p) # {}
        accepted == SignAccepted(job[p].upload)
    IN
    /\ phase[p] = "signing"
    /\ \/ /\ asks => accepted
          /\ Goto(p, "writing")
          /\ UNCHANGED <<store, job, part, callVars, faults>>
       \/ /\ asks /\ job[p].resumed
          /\ RequestFails(accepted)
          /\ Goto(p, "refreshing")
          /\ UNCHANGED <<store, job, part, callVars>>
       \/ /\ asks
          /\ IF job[p].resumed THEN Fault ELSE RequestFails(accepted)
          /\ Leave(p, "idle")
    /\ UNCHANGED <<serviceVars, disk, envVars>>

\* Seeded fault: the parts of the expired upload are taken over.
KeepParts(p) == UNCHANGED part

\* A replacement upload starts from part 1.
ForgetParts(p) == part' = [part EXCEPT ![p] = NoData]

\* osuploadrefresh: a new upload ID for the same revision.  The parts of the
\* old ID are not carried over.  If it fails, start afresh.
Refresh(p) ==
    /\ phase[p] = "refreshing"
    /\ \/ /\ RefreshAccepted(job[p].upload)
          /\ NewUpload(uploads[job[p].upload].rev, uploads[job[p].upload].base)
          /\ job' = [job EXCEPT ![p] = [@ EXCEPT !.upload = nextId, !.resumed = FALSE]]
          /\ Goto(p, "saving")
          /\ UNCHANGED faults
       \/ /\ RequestFails(RefreshAccepted(job[p].upload))
          /\ job' = [job EXCEPT ![p].resumed = FALSE]
          /\ Goto(p, "dropping")
          /\ UNCHANGED <<uploads, nextId>>
    /\ ForgetParts(p)
    /\ UNCHANGED <<dest, late, storeVars, callVars, envVars>>

-----------------------------------------------------------------------------
(* WriteChunk: one call per part, concurrent within a writer *)

\* What a call returns when it finds the writer halted: a retryable error if
\* the source was found changed, a plain one after Abort.
Halted(p) == IF halted[p] = "invalid" THEN "restart" ELSE "failed"

Return(p, k, result) == chunk' = [chunk EXCEPT ![p][k] = result]

\* The check of closed, aborted and Completed under the mutex.  A part that
\* must be uploaded is read from the source as it is now.
BeginChunk(p, k) ==
    /\ phase[p] = "writing"
    /\ chunk[p][k] = "todo"
    /\ \/ /\ halted[p] # "no"
          /\ Return(p, k, Halted(p))
          /\ UNCHANGED sent
       \/ /\ halted[p] = "no" /\ part[p][k] # None
          /\ Return(p, k, "verify")
          /\ UNCHANGED sent
       \/ /\ halted[p] = "no" /\ part[p][k] = None
          /\ Return(p, k, "send")
          /\ sent' = [sent EXCEPT ![p][k] = source.data[k]]
    /\ UNCHANGED <<serviceVars, storeVars, phase, job, part, halted, seen, envVars, faults>>

\* Seeded fault: completed parts are trusted.
AnyDigest(p, k) == TRUE

\* The SHA-256 of the current bytes is the recorded one.
Matches(p, k) == part[p][k] = source.data[k]

\* Hash the current bytes of a completed part and compare.
VerifyPart(p, k) ==
    /\ chunk[p][k] = "verify"
    /\ \/ /\ Matches(p, k)
          /\ Return(p, k, "done")
          /\ UNCHANGED <<halted, faults>>
       \/ /\ ~ Matches(p, k)
          /\ Return(p, k, "discard")
          /\ halted' = [halted EXCEPT ![p] = "invalid"]
          /\ UNCHANGED faults
       \/ /\ Fault
          /\ Return(p, k, "failed")
          /\ UNCHANGED halted
    /\ UNCHANGED <<serviceVars, storeVars, phase, job, part, sent, seen, envVars>>

\* After a mismatch the state file is removed, outside the mutex.
DiscardState(p, k) ==
    /\ chunk[p][k] = "discard"
    /\ \E ok \in BOOLEAN : Attempt(ok) /\ RemoveState(p, ok)
    /\ Return(p, k, "restart")
    /\ UNCHANGED <<serviceVars, store, phase, job, part, sent, halted, seen, envVars>>

\* The object store answers the PUT of a part.
StorePart(p, k) ==
    /\ chunk[p][k] = "send"
    /\ PutPart(job[p].upload, k, sent[p][k])
    /\ Return(p, k, IF uploads[job[p].upload].status = "open" THEN "stored" ELSE "failed")
    /\ UNCHANGED <<dest, nextId, late, storeVars, phase, job, part, sent, halted,
                   seen, envVars, faults>>

Request(p, k) == [upload |-> job[p].upload, part |-> k, bytes |-> sent[p][k]]

\* The PUT fails: it never arrived, it still may, or only its answer is lost.
LosePart(p, k) ==
    /\ chunk[p][k] \in {"send", "stored"}
    /\ Fault
    /\ late' \in {late} \union
                (IF chunk[p][k] = "send" THEN {late \union {Request(p, k)}} ELSE {})
    /\ Return(p, k, "failed")
    /\ UNCHANGED <<dest, uploads, nextId, storeVars, phase, job, part, sent, halted,
                   seen, envVars>>

\* Seeded fault: aborted is not checked again after the PUT.
AlwaysRecord(p) == TRUE

MayRecord(p) == halted[p] = "no"

\* The mutex again: a halted writer records nothing; otherwise the part goes
\* into partInfo and into the state file, which may fail to be written.
RecordPart(p, k) ==
    /\ chunk[p][k] = "stored"
    /\ \/ /\ ~ MayRecord(p)
          /\ Return(p, k, Halted(p))
          /\ UNCHANGED <<disk, part, faults>>
       \/ /\ MayRecord(p)
          /\ part' = [part EXCEPT ![p][k] = sent[p][k]]
          /\ \E ok \in BOOLEAN : Attempt(ok) /\ SaveState(p, StateOf(p, part'[p]), ok)
          /\ Return(p, k, "done")
    /\ UNCHANGED <<serviceVars, store, phase, job, sent, halted, seen, envVars>>

-----------------------------------------------------------------------------
(* Close *)

\* rclone calls Close once every chunk has returned without an error.
CloseBegin(p) ==
    /\ phase[p] = "writing"
    /\ \A k \in Parts : chunk[p][k] = "done"
    /\ halted[p] = "no"
    /\ Missing(p) = {}
    /\ Goto(p, "completing")
    /\ UNCHANGED <<serviceVars, storeVars, job, part, callVars, envVars, faults>>

Assemble(u) == uploads' = [uploads EXCEPT ![u].status = "assembled"]

\* oscompleteupload and the signed completion request: refused, accepted, or
\* failed with or without an effect.
CompleteUpload(p) ==
    LET u == job[p].upload
        accepted == CompleteAccepted(u, part[p])
    IN
    /\ phase[p] = "completing"
    /\ \/ accepted /\ Assemble(u) /\ Goto(p, "ending") /\ UNCHANGED faults
       \/ accepted /\ Assemble(u) /\ Goto(p, "closeFailed") /\ Fault
       \/ /\ RequestFails(accepted)
          /\ Goto(p, "closeFailed")
          /\ UNCHANGED uploads
    /\ UNCHANGED <<dest, nextId, late, storeVars, job, part, callVars, envVars>>

\* Seeded fault: osendupload carries no editedrev.
NoEditedRev(p) == 0

\* The revision named as editedrev: the one looked up, 0 if there was none.
EditedRev(p) == job[p].base

\* osendupload commits the reserved revision.  A revision conflict of a
\* preconditioned update is final.
EndUpload(p) ==
    LET u == job[p].upload
        accepted == EndAccepted(u, EditedRev(p))
    IN
    /\ phase[p] = "ending"
    /\ \/ accepted /\ Commit(u) /\ Goto(p, "fetching") /\ UNCHANGED faults
       \/ accepted /\ Commit(u) /\ Goto(p, "closeFailed") /\ Fault
       \/ /\ ~ accepted
          /\ Goto(p, IF job[p].expected # None /\ job[p].base # 0
                     THEN "closeConflict" ELSE "closeFailed")
          /\ UNCHANGED <<dest, uploads, faults>>
       \/ Fault /\ Goto(p, "closeFailed") /\ UNCHANGED <<dest, uploads>>
    /\ UNCHANGED <<nextId, late, storeVars, job, part, callVars, envVars>>

\* The metadata request that ends finishMultipartUpload.
FetchMetadata(p) ==
    /\ phase[p] = "fetching"
    /\ \E ok \in BOOLEAN :
         Attempt(ok) /\ Goto(p, IF ok THEN "closed" ELSE "closeFailed")
    /\ UNCHANGED <<serviceVars, storeVars, job, part, callVars, envVars>>

\* Seeded fault: the state survives a failed Close, to be resumed.
ForgetOnSuccess(p, ok) ==
    IF phase[p] = "closed" THEN RemoveState(p, ok) ELSE UNCHANGED disk

\* The state file is removed whatever the outcome was.
ForgetState(p, ok) == RemoveState(p, ok)

\* What the copy comes to: success, an error to retry, or a final one.
Outcome == [closed |-> "finished", closeFailed |-> "idle", closeConflict |-> "refused"]

\* Success and failure alike remove the state file and release the lock.
FinishClose(p) ==
    /\ phase[p] \in DOMAIN Outcome
    /\ \E ok \in BOOLEAN : Attempt(ok) /\ ForgetState(p, ok)
    /\ Leave(p, Outcome[phase[p]])
    /\ UNCHANGED <<serviceVars, envVars>>

-----------------------------------------------------------------------------
(* Abort, and the ways an attempt is cut short *)

\* A chunk failed, or the writer was halted: once no call is active, rclone
\* calls Abort, which releases the lock and keeps the state file.
EngineAbort(p) ==
    /\ phase[p] = "writing"
    /\ \A k \in Parts : chunk[p][k] \notin Active
    /\ halted[p] # "no" \/ \E k \in Parts : chunk[p][k] \in {"failed", "restart"}
    /\ Leave(p, "idle")
    /\ UNCHANGED <<serviceVars, disk, envVars, faults>>

\* rclone's signal handler calls Abort while WriteChunk or Close is running:
\* the lock is released and an open writer is marked aborted.
SignalAbort(p) ==
    /\ phase[p] \in {"writing"} \union Closing
    /\ store[p] \in {"held", "disabled"}
    /\ Fault
    /\ halted' = [halted EXCEPT ![p] = IF phase[p] = "writing" /\ @ = "no"
                                       THEN "aborted" ELSE @]
    /\ ReleaseLock(p)
    /\ UNCHANGED <<serviceVars, disk, phase, job, part, chunk, sent, seen, envVars>>

\* The process dies; part requests under way may still reach the store.
Crash(p) ==
    /\ phase[p] \notin Outside
    /\ Fault
    /\ late' = late \union {Request(p, k) : k \in {j \in Parts : chunk[p][j] = "send"}}
    /\ Leave(p, "idle")
    /\ UNCHANGED <<dest, uploads, nextId, disk, envVars>>

-----------------------------------------------------------------------------
(* The environment *)

StoreLate(z) ==
    /\ PutPart(z.upload, z.part, z.bytes)
    /\ late' = late \ {z}
    /\ UNCHANGED <<dest, nextId, storeVars, phase, job, part, callVars, envVars, faults>>

\* The object store forgets an upload nobody completed.
ExpireUpload(u) ==
    /\ uploads[u].status = "open"
    /\ Fault
    /\ uploads' = [uploads EXCEPT ![u].status = "expired"]
    /\ UNCHANGED <<dest, nextId, late, storeVars, phase, job, part, callVars, envVars>>

Change == changes < MaxChanges /\ changes' = changes + 1

\* Somebody writes the source file, maybe so that stat shows no difference.
EditSource ==
    /\ Change
    /\ \E k \in Parts, b \in Bytes, s \in Stamps :
         source' = [data |-> [source.data EXCEPT ![k] = b], stamp |-> s]
    /\ seen' = [p \in Procs |-> IF phase[p] \in Outside THEN seen[p]
                  ELSE [k \in Parts |-> seen[p][k] \union {source'.data[k]}]]
    /\ UNCHANGED <<serviceVars, storeVars, phase, job, part, chunk, sent, halted,
                   faults>>

\* Another client writes or deletes the destination.
ForeignWrite ==
    /\ Change
    /\ nextId \in Ids
    /\ dest' = [rev |-> nextId, data |-> NoData]
    /\ nextId' = nextId + 1
    /\ UNCHANGED <<uploads, late, storeVars, source, phase, job, part,
                   callVars, faults>>

ForeignDelete ==
    /\ Change
    /\ dest.rev # 0
    /\ dest' = [rev |-> 0, data |-> NoData]
    /\ UNCHANGED <<uploads, nextId, late, storeVars, source, phase, job, part,
                   callVars, faults>>

\* Every process is done: the system may stop.
Terminated ==
    /\ \A p \in Procs : phase[p] \in {"finished", "refused"}
    /\ UNCHANGED vars

OpenChunkWriter(p) ==
    \/ OpenStore(p) \/ Lookup(p) \/ LoadState(p) \/ DropState(p) \/ InitUpload(p)
    \/ SaveInitial(p) \/ Sign(p) \/ Refresh(p)

WriteChunk(p, k) ==
    \/ BeginChunk(p, k) \/ VerifyPart(p, k) \/ DiscardState(p, k)
    \/ StorePart(p, k) \/ LosePart(p, k) \/ RecordPart(p, k)

Close(p) ==
    CloseBegin(p) \/ CompleteUpload(p) \/ EndUpload(p) \/ FetchMetadata(p)
    \/ FinishClose(p)

\* What process p does of itself.
Step(p) ==
    \/ Start(p) \/ OpenChunkWriter(p) \/ Close(p) \/ EngineAbort(p)
    \/ \E k \in Parts : WriteChunk(p, k)

Next ==
    \/ \E p \in Procs : Step(p) \/ SignalAbort(p) \/ Crash(p)
    \/ \E z \in late : StoreLate(z)
    \/ \E u \in Ids : ExpireUpload(u)
    \/ EditSource \/ ForeignWrite \/ ForeignDelete
    \/ Terminated

Spec == Init /\ [][Next]_vars

\* Each process goes on: its attempt proceeds, and the copy is retried until it
\* ends.  Nothing is assumed of the environment.
Fairness == \A p \in Procs : WF_vars(Step(p))

FairSpec == Spec /\ Fairness

-----------------------------------------------------------------------------
(* Properties *)

\* Step by which process p makes its upload the destination's new version.
Commits(p) == phase[p] = "ending" /\ phase'[p] # "ending" /\ dest' # dest

\* What an update puts in place is, part by part, what the source held at some
\* time during the committing attempt, although parts may come from earlier
\* attempts, other processes and older versions of the source: the digest
\* check of WriteChunk and the ETags listed at completion let no stale,
\* foreign or missing part through.  A source that was left alone during the
\* attempt is therefore copied exactly.
CommitsSource ==
    [][\A p \in Procs : Commits(p) =>
         \A k \in Parts : dest'.data[k] \in seen[p][k]]_vars

\* An update replaces the very revision OpenChunkWriter looked up, which is the
\* one its upload was begun for, in this attempt or in an earlier one, and the
\* one the caller expected, if it stated one: whatever other clients did since,
\* no version is overwritten unseen.
NoLostUpdate ==
    [][\A p \in Procs : Commits(p) =>
         /\ dest.rev = job[p].base
         /\ dest.rev = uploads[job[p].upload].base
         /\ job[p].expected \in {None, dest.rev}]_vars

\* A part is claimed complete, on disk or by a live writer, only if the upload
\* named with it holds that part: a resume never skips a part that is missing.
ClaimedPartsExist ==
    /\ disk # None =>
         \A k \in Parts : disk.completed[k] # None => uploads[disk.upload].parts[k] # None
    /\ \A p \in Procs, k \in Parts :
         part[p][k] # None => uploads[job[p].upload].parts[k] # None

\* Nothing recorded is forgotten while its upload is the one on disk: a writer
\* that lost the lock to a signal does not overwrite its successor's progress.
KeepsProgress ==
    [][disk # None /\ disk' # None /\ disk'.upload = disk.upload
         => \A k \in Parts : disk.completed[k] # None => disk'.completed[k] # None]_disk

\* Every copy ends: there is no loop in which a saved state makes each attempt
\* fail at the same point, and no wait for a lock that is never released.
EveryCopyEnds == \A p \in Procs : <>(phase[p] \in {"finished", "refused"})

\* README.md says of an interrupted upload: "an expired upload ID is refreshed
\* and restarted safely from part 1".
ExpiredUploadRestarts ==
    [][\A p \in Procs : phase[p] = "signing" /\ phase'[p] = "writing"
         => uploads[job[p].upload].status # "expired"]_vars
=============================================================================
