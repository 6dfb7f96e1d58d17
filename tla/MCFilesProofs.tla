--------------------------- MODULE MCFilesProofs ---------------------------
(***************************************************************************)
(* Theorems about the whole-file operations (FileOps), the directory       *)
(* operations over the directory cache (DirCache), the uploads into        *)
(* directories that move (UploadTarget) and their instance (MCFiles), for  *)
(* any callers and workers, directories, names and files, and all bounds.  *)
(***************************************************************************)
EXTENDS MCFiles, SequenceTheorems, TLAPS

-----------------------------------------------------------------------------
(* Calls on one file *)

\* The type invariant without the budgets.
DataTypeOK ==
    /\ file \in Handle
    /\ strays \subseteq Ids
    /\ nextId \in 1 .. MaxId + 1
    /\ obj \in [Callers -> Handle]
    /\ task \in [Callers -> Task]
    /\ looked \in [Callers -> SUBSET Handle]
    /\ edits \in Nat

BudgetsOK ==
    begun \in 0 .. MaxBegun /\ lost \in 0 .. MaxLost /\ others \in 0 .. MaxOthers

LEMMA TypeSplit == FileTypeOK <=> DataTypeOK /\ BudgetsOK
  BY DEF FileTypeOK, DataTypeOK, BudgetsOK

LEMMA NewVersionType ==
    ASSUME nextId \in Ids, NEW f \in Handle
    PROVE  NewVersion(f) \in File
<1>1. CASE f = NoFile
  BY <1>1 DEF NewVersion, File
<1>2. CASE f # NoFile
  <2>1. f \in File
    BY <1>2 DEF Handle
  <2> QED
    BY <1>2, <2>1 DEF NewVersion, File
<1> QED
  BY <1>1, <1>2

LEMMA ZeroIsNoFile ==
    ASSUME NEW f \in Handle, f.id = 0
    PROVE  f = NoFile
  BY DEF Handle, File, Ids

Steps == {"idle", "lookup", "start", "transfer", "end", "metadata", "exists",
          "copy", "rename", "cleanup", "check", "delete"}

\* What the steps after BeginCall make of a call is a call.
LEMMA CallUpdates ==
    ASSUME NEW x \in Task, NEW s \in Steps, NEW h \in Handle, NEW n \in Nat
    PROVE  /\ [x EXCEPT !.at = s] \in Task
           /\ [x EXCEPT !.over = h, !.at = s] \in Task
           /\ [x EXCEPT !.new = h, !.at = s] \in Task
           /\ [x EXCEPT !.at = s, !.since = n] \in Task
<1>1. [x EXCEPT !.at = s] \in Task
  BY DEF Task, Steps
<1>2. [x EXCEPT !.over = h, !.at = s] \in Task
  BY DEF Task, Steps
<1>3. [x EXCEPT !.new = h, !.at = s] \in Task
  BY DEF Task, Steps
<1>4. [x EXCEPT !.at = s, !.since = n] \in Task
  BY DEF Task, Steps
<1> QED
  BY <1>1, <1>2, <1>3, <1>4

LEMMA NoCallType == NoCall \in Task
<1>1. NoFile \in Handle
  BY DEF Handle
<1> QED
  BY <1>1 DEF NoCall, Task

\* The same for the table of calls.
LEMMA CallTable ==
    ASSUME task \in [Callers -> Task], NEW c \in Callers,
           NEW s \in Steps, NEW h \in Handle, NEW n \in Nat
    PROVE  /\ [task EXCEPT ![c].at = s] \in [Callers -> Task]
           /\ [task EXCEPT ![c].over = h, ![c].at = s] \in [Callers -> Task]
           /\ [task EXCEPT ![c].new = h, ![c].at = s] \in [Callers -> Task]
           /\ [task EXCEPT ![c].at = s, ![c].since = n] \in [Callers -> Task]
           /\ [task EXCEPT ![c] = NoCall] \in [Callers -> Task]
<1>1. task[c] \in Task
  OBVIOUS
<1>2. [task EXCEPT ![c] = NoCall] \in [Callers -> Task]
  BY NoCallType
<1>3. [task EXCEPT ![c].at = s] \in [Callers -> Task]
  BY <1>1, CallUpdates
<1>4. [task EXCEPT ![c].over = h, ![c].at = s] \in [Callers -> Task]
  BY <1>1, CallUpdates
<1>5. [task EXCEPT ![c].new = h, ![c].at = s] \in [Callers -> Task]
  BY <1>1, CallUpdates
<1>6. [task EXCEPT ![c].at = s, ![c].since = n] \in [Callers -> Task]
  BY <1>1, CallUpdates
<1> QED
  BY <1>2, <1>3, <1>4, <1>5, <1>6

LEMMA BudgetStep ==
    ASSUME FileTypeOK, [FileNext]_opVars
    PROVE  BudgetsOK'
<1>1. ASSUME NEW c \in Callers, FileStep(c) PROVE BudgetsOK'
  <2>1. CASE BeginCall(c)
    BY <2>1, BoundsAssumption DEF BeginCall, FileTypeOK, BudgetsOK
  <2>2. ASSUME ~ BeginCall(c)
        PROVE  /\ UNCHANGED <<begun, others>>
               /\ UNCHANGED lost \/ Failure
    <3>1. ASSUME NEW refused, Fails(c, refused) PROVE UNCHANGED lost \/ Failure
      BY <3>1 DEF Fails
    <3> QED
      BY <1>1, <2>2, <3>1 DEF FileStep, Find, PutLookup, StartUpload, Transfer,
         EndUpload, FetchMetadata, CheckAbsent, CopyFile, RenameCopy, CleanUp,
         CheckRevision, DeleteFile, Replied
  <2> QED
    BY <2>1, <2>2, BoundsAssumption DEF Failure, FileTypeOK, BudgetsOK
<1>2. CASE OtherClients
  BY <1>2, BoundsAssumption DEF OtherClients, FileTypeOK, BudgetsOK
<1>3. CASE UNCHANGED opVars
  BY <1>3 DEF opVars, FileTypeOK, BudgetsOK
<1> QED
  BY <1>1, <1>2, <1>3 DEF FileNext, FileTerminated

\* A request that fails without effect touches no data but the call.
LEMMA FailsTypes ==
    ASSUME DataTypeOK, NEW c \in Callers, NEW refused, Fails(c, refused),
           UNCHANGED <<obj, looked>>
    PROVE  DataTypeOK'
<1>1. task' \in [Callers -> Task]
  BY CallTable DEF Fails, EndCall, DataTypeOK, Steps
<1> QED
  BY <1>1 DEF Fails, service, DataTypeOK

LEMMA BeginTypes ==
    ASSUME DataTypeOK, NEW c \in Callers, BeginCall(c)
    PROVE  DataTypeOK'
<1>1. PICK op \in Operations, e \in {None, obj[c]}, r \in BOOLEAN :
        task' = [task EXCEPT ![c] =
              [NoCall EXCEPT !.op = op, !.expect = e, !.rename = r,
                 !.over = IF op \in {"update", "remove", "sync-delete"}
                          THEN obj[c] ELSE NoFile,
                 !.at = CASE op \in {"find", "put"} -> "lookup"
                          [] op = "update" -> "start"
                          [] op = "copy" -> "exists"
                          [] op = "remove" -> "delete"
                          [] op = "sync-delete" -> "check"]]
  BY ZenonT(30) DEF BeginCall
<1> DEFINE over == IF op \in {"update", "remove", "sync-delete"}
                   THEN obj[c] ELSE NoFile
           at   == CASE op \in {"find", "put"} -> "lookup"
                     [] op = "update" -> "start"
                     [] op = "copy" -> "exists"
                     [] op = "remove" -> "delete"
                     [] op = "sync-delete" -> "check"
<1>2. at \in Steps
  BY OperationsAssumption DEF FileOperations, Steps
<1>3. over \in Handle /\ e \in Handle \union {None}
  BY DEF Handle, DataTypeOK
<1> HIDE DEF over, at
<1>4. [NoCall EXCEPT !.op = op, !.expect = e, !.rename = r, !.over = over, !.at = at]
        \in Task
  BY <1>2, <1>3, OperationsAssumption DEF NoCall, Task, Steps, Handle
<1>5. task' \in [Callers -> Task]
  BY <1>1, <1>4 DEF DataTypeOK, over, at
<1> QED
  BY <1>5 DEF BeginCall, service, DataTypeOK

LEMMA LookupTypes ==
    ASSUME DataTypeOK, NEW c \in Callers, Find(c) \/ PutLookup(c)
    PROVE  DataTypeOK'
<1>1. ASSUME NEW refused, Fails(c, refused), UNCHANGED <<obj, looked>>
      PROVE  DataTypeOK'
  BY <1>1, FailsTypes
<1>2. ASSUME file # NoFile, Hold(c, file), Remember(c, file), EndCall(c), UNCHANGED service
      PROVE  DataTypeOK'
  <2>1. task' \in [Callers -> Task]
    BY <1>2, CallTable DEF EndCall, DataTypeOK, Steps
  <2> QED
    BY <1>2, <2>1 DEF Hold, Remember, service, DataTypeOK
<1>3. ASSUME task' = [task EXCEPT ![c].over = file, ![c].at = "start"],
             Remember(c, file), UNCHANGED service, UNCHANGED obj
      PROVE  DataTypeOK'
  <2>1. task' \in [Callers -> Task]
    BY <1>3, CallTable DEF DataTypeOK, Steps
  <2> QED
    BY <1>3, <2>1 DEF Remember, service, DataTypeOK
<1> QED
  BY <1>1, <1>2, <1>3 DEF Find, PutLookup

LEMMA UpdateTypes ==
    ASSUME DataTypeOK, NEW c \in Callers,
           StartUpload(c) \/ Transfer(c) \/ EndUpload(c) \/ FetchMetadata(c)
    PROVE  DataTypeOK'
<1> USE DEF DataTypeOK
<1>1. task[c] \in Task /\ task[c].over \in Handle /\ task[c].new \in Handle
  BY DEF Task
<1>2. ASSUME NEW refused, Fails(c, refused), UNCHANGED <<obj, looked>>
      PROVE  DataTypeOK'
  BY <1>2, FailsTypes
<1>3. CASE StartUpload(c)
  <2>1. SUFFICES ASSUME file = task[c].over, nextId \in Ids, nextId' = nextId + 1,
                        task' = [task EXCEPT ![c].new = NewVersion(task[c].over),
                                             ![c].at = "transfer"],
                        UNCHANGED <<file, edits, strays, obj, looked>>
                 PROVE  DataTypeOK'
    BY <1>2, <1>3 DEF StartUpload
  <2>2. NewVersion(task[c].over) \in Handle
    BY <1>1, <2>1, NewVersionType DEF Handle
  <2>3. task' \in [Callers -> Task]
    BY <2>1, <2>2, CallTable DEF Steps
  <2>4. nextId' \in 1 .. MaxId + 1
    BY <2>1, BoundsAssumption DEF Ids
  <2> QED
    BY <2>1, <2>3, <2>4
<1>4. CASE Transfer(c)
  <2>1. SUFFICES ASSUME Goto(c, "end"), UNCHANGED <<service, obj, looked>>
                 PROVE  DataTypeOK'
    BY <1>2, <1>4 DEF Transfer
  <2>2. task' \in [Callers -> Task]
    BY <2>1, CallTable DEF Goto, Steps
  <2> QED
    BY <2>1, <2>2 DEF service
<1>5. CASE EndUpload(c)
  <2>1. SUFFICES ASSUME Becomes(task[c].new), Replied(c, "metadata"), Remember(c, file'),
                        UNCHANGED <<strays, nextId, obj>>
                 PROVE  DataTypeOK'
    BY <1>2, <1>5 DEF EndUpload
  <2>2. task' \in [Callers -> Task]
    <3>1. CASE Goto(c, "metadata")
      BY <3>1, CallTable DEF Goto, Steps
    <3>2. CASE EndCall(c)
      BY <3>2, CallTable DEF EndCall, Steps
    <3> QED
      BY <2>1, <3>1, <3>2 DEF Replied
  <2>3. file' \in Handle /\ edits' \in Nat
    BY <1>1, <2>1 DEF Becomes
  <2>4. looked' \in [Callers -> SUBSET Handle]
    BY <2>1, <2>3 DEF Remember
  <2> QED
    BY <2>1, <2>2, <2>3, <2>4
<1>6. CASE FetchMetadata(c)
  <2>1. SUFFICES ASSUME Hold(c, file), EndCall(c), UNCHANGED <<service, looked>>
                 PROVE  DataTypeOK'
    BY <1>2, <1>6 DEF FetchMetadata
  <2>2. task' \in [Callers -> Task]
    BY <2>1, CallTable DEF EndCall, Steps
  <2>3. obj' \in [Callers -> Handle]
    BY <2>1 DEF Hold
  <2> QED
    BY <2>1, <2>2, <2>3 DEF service
<1> QED
  BY <1>3, <1>4, <1>5, <1>6

LEMMA CopyTypes ==
    ASSUME DataTypeOK, NEW c \in Callers,
           CheckAbsent(c) \/ CopyFile(c) \/ RenameCopy(c) \/ CleanUp(c)
    PROVE  DataTypeOK'
<1> USE DEF DataTypeOK
<1>1. task[c] \in Task /\ task[c].new \in Handle /\ NoFile \in Handle
  BY DEF Task, Handle
<1>2. ASSUME NEW refused, Fails(c, refused), UNCHANGED <<obj, looked>>
      PROVE  DataTypeOK'
  BY <1>2, FailsTypes
<1>3. CASE CheckAbsent(c)
  <2>1. SUFFICES ASSUME Goto(c, "copy"), UNCHANGED <<service, obj, looked>>
                 PROVE  DataTypeOK'
    BY <1>2, <1>3 DEF CheckAbsent
  <2>2. task' \in [Callers -> Task]
    BY <2>1, CallTable DEF Goto, Steps
  <2> QED
    BY <2>1, <2>2 DEF service
<1>4. CASE CopyFile(c)
  <2> DEFINE new == [id |-> nextId, rev |-> nextId]
  <2>1. SUFFICES ASSUME nextId \in Ids, nextId' = nextId + 1,
                        \/ \E step \in {"rename", "lookup"} :
                             task' = [task EXCEPT ![c].new = new, ![c].at = step]
                        \/ EndCall(c),
                        \/ strays' = strays \union {nextId} /\ UNCHANGED <<file, edits>>
                        \/ Becomes(new) /\ UNCHANGED strays,
                        UNCHANGED <<obj, looked>>
                 PROVE  DataTypeOK'
    BY <1>2, <1>4 DEF CopyFile
  <2>2. new \in Handle
    BY <2>1 DEF Handle, File
  <2> HIDE DEF new
  <2>3. task' \in [Callers -> Task]
    <3>1. CASE EndCall(c)
      BY <3>1, CallTable DEF EndCall, Steps
    <3>2. ASSUME NEW step \in {"rename", "lookup"},
                 task' = [task EXCEPT ![c].new = new, ![c].at = step]
          PROVE  task' \in [Callers -> Task]
      <4>1. step \in Steps
        BY DEF Steps
      <4> QED
        BY <2>2, <3>2, <4>1, CallTable
    <3> QED
      BY <2>1, <3>1, <3>2
  <2>4. nextId' \in 1 .. MaxId + 1 /\ strays' \subseteq Ids
    BY <2>1, BoundsAssumption DEF Ids
  <2>5. file' \in Handle /\ edits' \in Nat
    BY <2>1, <2>2 DEF Becomes
  <2> QED
    BY <2>1, <2>3, <2>4, <2>5
<1>5. CASE RenameCopy(c)
  <2>1. task' \in [Callers -> Task]
    <3>1. \E step \in {"lookup", "cleanup"} : task' = [task EXCEPT ![c].at = step]
      BY <1>5 DEF RenameCopy, Goto, AbandonCopy
    <3>2. PICK step \in {"lookup", "cleanup"} : task' = [task EXCEPT ![c].at = step]
      BY <3>1
    <3>3. step \in Steps
      BY DEF Steps
    <3> QED
      BY <3>2, <3>3, CallTable
  <2>2. file' \in Handle /\ edits' \in Nat /\ strays' \subseteq Ids
    BY <1>1, <1>5 DEF RenameCopy, Becomes, service
  <2> QED
    BY <1>5, <2>1, <2>2 DEF RenameCopy, service
<1>6. CASE CleanUp(c)
  <2>1. SUFFICES ASSUME strays' = strays \ {task[c].new.id},
                        Becomes(NoFile) \/ UNCHANGED <<file, edits>>,
                        EndCall(c), UNCHANGED <<nextId, obj, looked>>
                 PROVE  DataTypeOK'
    BY <1>2, <1>6 DEF CleanUp
  <2>2. task' \in [Callers -> Task]
    BY <2>1, CallTable DEF EndCall, Steps
  <2>3. file' \in Handle /\ edits' \in Nat
    BY <1>1, <2>1 DEF Becomes
  <2> QED
    BY <2>1, <2>2, <2>3
<1> QED
  BY <1>3, <1>4, <1>5, <1>6

LEMMA DeletionTypes ==
    ASSUME DataTypeOK, NEW c \in Callers, CheckRevision(c) \/ DeleteFile(c)
    PROVE  DataTypeOK'
<1> USE DEF DataTypeOK
<1>1. ASSUME NEW refused, Fails(c, refused), UNCHANGED <<obj, looked>>
      PROVE  DataTypeOK'
  BY <1>1, FailsTypes
<1>2. CASE CheckRevision(c)
  <2>1. SUFFICES ASSUME task' = [task EXCEPT ![c].at = "delete", ![c].since = edits],
                        UNCHANGED <<service, obj, looked>>
                 PROVE  DataTypeOK'
    BY <1>1, <1>2 DEF CheckRevision
  <2>2. task' \in [Callers -> Task]
    BY <2>1, CallTable DEF Steps
  <2> QED
    BY <2>1, <2>2 DEF service
<1>3. CASE DeleteFile(c)
  <2>1. SUFFICES ASSUME Becomes(NoFile), EndCall(c), UNCHANGED <<strays, nextId, obj, looked>>
                 PROVE  DataTypeOK'
    BY <1>1, <1>3 DEF DeleteFile
  <2>2. task' \in [Callers -> Task]
    BY <2>1, CallTable DEF EndCall, Steps
  <2>3. file' \in Handle /\ edits' \in Nat
    BY <2>1 DEF Becomes, Handle
  <2> QED
    BY <2>1, <2>2, <2>3
<1> QED
  BY <1>2, <1>3

LEMMA ForeignTypes ==
    ASSUME DataTypeOK, OtherClients
    PROVE  DataTypeOK'
<1>1. file' \in Handle /\ edits' \in Nat
  BY NewVersionType DEF OtherClients, Becomes, DataTypeOK, Handle
<1>2. nextId' \in 1 .. MaxId + 1
  BY BoundsAssumption DEF OtherClients, DataTypeOK, Ids
<1> QED
  BY <1>1, <1>2 DEF OtherClients, DataTypeOK

\* Calls, answers lost at any request and changes by other clients leave every
\* variable within its type: an Object carries an ID and a revision the service
\* gave out, or neither, and no call is lost between two requests.
THEOREM TypeCorrect == FileSpec => []FileTypeOK
<1>1. FileInit => FileTypeOK
  BY NoCallType, BoundsAssumption DEF FileInit, FileTypeOK, Handle
<1>2. FileTypeOK /\ [FileNext]_opVars => FileTypeOK'
  <2> SUFFICES ASSUME FileTypeOK, [FileNext]_opVars PROVE FileTypeOK'
    OBVIOUS
  <2>1. DataTypeOK
    BY TypeSplit
  <2>2. ASSUME NEW c \in Callers, FileStep(c) PROVE DataTypeOK'
    <3>1. BeginCall(c) => DataTypeOK'
      BY <2>1, BeginTypes
    <3>2. Find(c) \/ PutLookup(c) => DataTypeOK'
      BY <2>1, LookupTypes
    <3>3. StartUpload(c) \/ Transfer(c) \/ EndUpload(c) \/ FetchMetadata(c) => DataTypeOK'
      BY <2>1, UpdateTypes
    <3>4. CheckAbsent(c) \/ CopyFile(c) \/ RenameCopy(c) \/ CleanUp(c) => DataTypeOK'
      BY <2>1, CopyTypes
    <3>5. CheckRevision(c) \/ DeleteFile(c) => DataTypeOK'
      BY <2>1, DeletionTypes
    <3> QED
      BY <2>2, <3>1, <3>2, <3>3, <3>4, <3>5 DEF FileStep
  <2>3. OtherClients => DataTypeOK'
    BY <2>1, ForeignTypes
  <2>4. UNCHANGED opVars => DataTypeOK'
    BY <2>1 DEF opVars, DataTypeOK
  <2>5. DataTypeOK'
    BY <2>2, <2>3, <2>4 DEF FileNext, FileTerminated
  <2> QED
    BY <2>5, BudgetStep DEF FileTypeOK, DataTypeOK, BudgetsOK
<1> QED
  BY <1>1, <1>2, PTL DEF FileSpec

-----------------------------------------------------------------------------
(* Preconditions *)

\* Up to osendupload a precondition, if any, names the version worked on.
NamedBy(c) ==
    task[c].at \in {"start", "transfer", "end"} => task[c].expect \in {None, task[c].over}

Named == \A c \in Callers : NamedBy(c)

\* A step changes the call of the caller that takes it and no other.
LEMMA OwnCall ==
    ASSUME FileTypeOK, NEW c \in Callers, NEW d \in Callers, FileStep(d), task'[c] # task[c]
    PROVE  c = d
<1>1. SUFFICES ASSUME c # d PROVE task'[c] = task[c]
  OBVIOUS
<1>2. task \in [Callers -> Task]
  BY DEF FileTypeOK
<1>3. CASE BeginCall(d)
  BY <1>1, <1>2, <1>3 DEF BeginCall
<1>4. ASSUME NEW refused, Fails(d, refused) PROVE task'[c] = task[c]
  BY <1>1, <1>2, <1>4 DEF Fails, EndCall
<1>5. CASE Find(d) \/ PutLookup(d)
  BY <1>1, <1>2, <1>4, <1>5 DEF Find, PutLookup, EndCall
<1>6. CASE StartUpload(d) \/ Transfer(d) \/ EndUpload(d) \/ FetchMetadata(d)
  BY <1>1, <1>2, <1>4, <1>6
     DEF StartUpload, Transfer, EndUpload, FetchMetadata, Replied, Goto, EndCall
<1>7. CASE CheckAbsent(d) \/ CopyFile(d)
  BY <1>1, <1>2, <1>4, <1>7 DEF CheckAbsent, CopyFile, Goto, EndCall
<1>8. CASE RenameCopy(d) \/ CleanUp(d)
  BY <1>1, <1>2, <1>4, <1>8 DEF RenameCopy, CleanUp, AbandonCopy, Goto, EndCall
<1>9. CASE CheckRevision(d) \/ DeleteFile(d)
  BY <1>1, <1>2, <1>4, <1>9 DEF CheckRevision, DeleteFile, EndCall
<1> QED
  BY <1>3, <1>5, <1>6, <1>7, <1>8, <1>9 DEF FileStep

LEMMA NamedInit == FileInit => Named
  BY DEF FileInit, Named, NamedBy, NoCall

LEMMA NamedStep ==
    ASSUME FileTypeOK, Named, [FileNext]_opVars
    PROVE  Named'
<1>1. SUFFICES ASSUME NEW c \in Callers PROVE NamedBy(c)'
  BY DEF Named
<1>2. NamedBy(c) /\ task \in [Callers -> Task] /\ task[c] \in Task
  BY <1>1 DEF Named, FileTypeOK
<1>3. CASE task'[c] = task[c]
  BY <1>2, <1>3 DEF NamedBy
<1>4. CASE task'[c] # task[c]
  <2>1. FileStep(c)
    BY <1>4, OwnCall DEF FileNext, OtherClients, FileTerminated, opVars
  <2>2. ASSUME EndCall(c) PROVE NamedBy(c)'
    <3>1. task'[c] = NoCall
      BY <1>2, <2>2 DEF EndCall
    <3> QED
      BY <3>1 DEF NamedBy, NoCall
  <2>3. ASSUME NEW refused, Fails(c, refused) PROVE NamedBy(c)'
    BY <2>2, <2>3 DEF Fails
  <2>4. ASSUME task'[c].at \notin {"start", "transfer", "end"} PROVE NamedBy(c)'
    BY <2>4 DEF NamedBy
  <2>5. ASSUME task[c].at \in {"start", "transfer", "end"},
               task'[c].expect = task[c].expect, task'[c].over = task[c].over
        PROVE  NamedBy(c)'
    BY <1>2, <2>5 DEF NamedBy
  <2>6. ASSUME NEW s, s \notin {"start", "transfer", "end"}, Goto(c, s)
        PROVE  NamedBy(c)'
    BY <1>2, <2>4, <2>6 DEF Goto, Task
  <2>7. CASE BeginCall(c)
    <3>1. PICK op \in Operations, e \in {None, obj[c]} :
            /\ op \notin {"put", "update"} => e = None
            /\ task'[c].op = op /\ task'[c].expect = e
            /\ op = "update" => task'[c].over = obj[c]
            /\ op = "find" => task'[c].at = "lookup"
            /\ op = "put" => task'[c].at = "lookup"
            /\ op = "copy" => task'[c].at = "exists"
            /\ op = "remove" => task'[c].at = "delete"
            /\ op = "sync-delete" => task'[c].at = "check"
      BY <1>2, <2>7 DEF BeginCall, NoCall
    <3>2. CASE op = "update"
      BY <3>1, <3>2 DEF NamedBy
    <3>3. CASE op # "update"
      BY <2>4, <3>1, <3>3, OperationsAssumption DEF FileOperations
    <3> QED
      BY <3>2, <3>3
  <2>8. CASE Find(c)
    BY <2>2, <2>3, <2>8 DEF Find
  <2>9. CASE PutLookup(c)
    <3>1. ASSUME Meets(c, file), task' = [task EXCEPT ![c].over = file, ![c].at = "start"]
          PROVE  NamedBy(c)'
      <4>1. task'[c].over = file /\ task'[c].expect = task[c].expect
        BY <1>2, <3>1 DEF Task
      <4> QED
        BY <3>1, <4>1 DEF Meets, NamedBy
    <3> QED
      BY <2>3, <2>9, <3>1 DEF PutLookup
  <2>10. CASE StartUpload(c)
    <3>1. ASSUME task[c].at = "start",
                 task' = [task EXCEPT ![c].new = NewVersion(task[c].over), ![c].at = "transfer"]
          PROVE  NamedBy(c)'
      <4>1. task'[c].expect = task[c].expect /\ task'[c].over = task[c].over
        BY <1>2, <3>1 DEF Task
      <4> QED
        BY <2>5, <3>1, <4>1
    <3> QED
      BY <2>3, <2>10, <3>1 DEF StartUpload
  <2>11. CASE Transfer(c)
    BY <1>2, <2>3, <2>5, <2>11 DEF Transfer, Goto, Task
  <2>12. CASE EndUpload(c) \/ FetchMetadata(c)
    BY <2>2, <2>3, <2>6, <2>12 DEF EndUpload, FetchMetadata, Replied
  <2>13. CASE CheckAbsent(c)
    BY <2>3, <2>6, <2>13 DEF CheckAbsent
  <2>14. CASE CopyFile(c)
    <3>1. task'[c].at \in {"rename", "lookup"} \/ EndCall(c) \/ \E r : Fails(c, r)
      <4>1. ASSUME NEW n, NEW s \in {"rename", "lookup"},
                   task' = [task EXCEPT ![c].new = n, ![c].at = s]
            PROVE  task'[c].at = s
        BY <1>2, <4>1 DEF Task
      <4> QED
        BY <2>14, <4>1 DEF CopyFile
    <3> QED
      BY <2>2, <2>3, <2>4, <3>1
  <2>15. CASE RenameCopy(c) \/ CleanUp(c)
    BY <2>2, <2>3, <2>6, <2>15 DEF RenameCopy, CleanUp, AbandonCopy
  <2>16. CASE CheckRevision(c)
    <3>1. ASSUME task' = [task EXCEPT ![c].at = "delete", ![c].since = edits]
          PROVE  task'[c].at = "delete"
      BY <1>2, <3>1 DEF Task
    <3> QED
      BY <2>3, <2>4, <2>16, <3>1 DEF CheckRevision
  <2>17. CASE DeleteFile(c)
    BY <2>2, <2>3, <2>17 DEF DeleteFile
  <2> QED
    BY <2>1, <2>7, <2>8, <2>9, <2>10, <2>11, <2>12, <2>13, <2>14, <2>15, <2>16,
       <2>17 DEF FileStep
<1> QED
  BY <1>3, <1>4

\* osendupload accepts a request only for the version the call works on.
LEMMA AcceptsCurrent ==
    ASSUME FileTypeOK, NEW c \in Callers, Accepts(task[c].over, EditedRev(c))
    PROVE  file = task[c].over
<1>1. task[c].over \in Handle /\ file \in Handle
  BY DEF FileTypeOK, Task
<1>2. CASE EditedRev(c) # 0
  BY <1>2 DEF Accepts
<1>3. CASE EditedRev(c) = 0
  <2>1. task[c].over = NoFile
    BY <1>1, <1>3 DEF EditedRev, Handle, File, Ids
  <2>2. file.id = 0
    BY <1>3, <2>1 DEF Accepts, NoFile
  <2> QED
    BY <1>1, <2>1, <2>2, ZeroIsNoFile
<1> QED
  BY <1>2, <1>3

\* Object.Update ends with osendupload and the editedrev it was begun for: what
\* it replaces is the version the call looked up or was given and, when Put or
\* Update came with a precondition, the one the caller named.
THEOREM ReplacesOnlyNamed == FileSpec => ReplacesNamed
<1>1. ASSUME FileTypeOK, Named, [FileNext]_opVars, NEW c \in Callers, Commits(c)
      PROVE  file = task[c].over /\ task[c].expect \in {None, file}
  <2>1. FileStep(c)
    BY <1>1, OwnCall DEF Commits, FileNext, OtherClients, FileTerminated, opVars
  <2>2. EndUpload(c)
    BY <1>1, <2>1 DEF Commits, FileStep, BeginCall, Find, PutLookup, StartUpload, Transfer,
       FetchMetadata, CheckAbsent, CopyFile, RenameCopy, CleanUp, CheckRevision,
       DeleteFile, service
  <2>3. Accepts(task[c].over, EditedRev(c))
    BY <1>1, <2>2 DEF Commits, EndUpload, Fails, service
  <2>4. file = task[c].over
    BY <1>1, <2>3, AcceptsCurrent
  <2> QED
    BY <1>1, <2>4 DEF Commits, Named, NamedBy
<1>2. FileTypeOK /\ Named /\ [FileNext]_opVars =>
        [\A c \in Callers : Commits(c) =>
           /\ file = task[c].over
           /\ task[c].expect \in {None, file}]_opVars
  BY <1>1
<1>3. FileTypeOK /\ Named /\ [FileNext]_opVars => Named'
  BY NamedStep
<1> QED
  BY <1>2, <1>3, NamedInit, TypeCorrect, PTL DEF FileSpec, ReplacesNamed

\* Copy creates under its destination name only while there is no file: ondup
\* and the rename refuse a taken name, at whatever moment it was taken.
THEOREM CopyReplacesNoFile == FileSpec => CopyReplacesNothing
<1>1. ASSUME FileTypeOK, [FileNext]_opVars, NEW c \in Callers,
             task[c].at \in {"copy", "rename"}, task'[c] # task[c]
      PROVE  file \in {NoFile, file'}
  <2>1. FileStep(c)
    BY <1>1, OwnCall DEF FileNext, OtherClients, FileTerminated, opVars
  <2>2. BeginCall(c) \/ CopyFile(c) \/ RenameCopy(c)
    BY <1>1, <2>1 DEF FileStep, Find, PutLookup, StartUpload, Transfer, EndUpload,
       FetchMetadata, CheckAbsent, CleanUp, CheckRevision, DeleteFile
  <2>3. CASE BeginCall(c)
    BY <2>3 DEF BeginCall, service
  <2>4. CASE CopyFile(c)
    BY <2>4 DEF CopyFile, CopyRefused, Fails, service
  <2>5. CASE RenameCopy(c)
    BY <2>5 DEF RenameCopy, service
  <2> QED
    BY <2>2, <2>3, <2>4, <2>5
<1>2. FileTypeOK /\ [FileNext]_opVars =>
        [\A c \in Callers : task[c].at \in {"copy", "rename"} /\ task'[c] # task[c]
           => file \in {NoFile, file'}]_opVars
  BY <1>1
<1> QED
  BY <1>2, TypeCorrect, PTL DEF FileSpec, CopyReplacesNothing

-----------------------------------------------------------------------------
(* Copies under an automatic name *)

\* Copy alone takes the steps on a copy.
CopySteps ==
    \A c \in Callers :
        task[c].at \in {"exists", "copy", "rename", "cleanup"} => task[c].op = "copy"

Owns(c, s) == /\ task[c].op = "copy" /\ task[c].at \in {"rename", "cleanup"}
              /\ task[c].new.id = s

\* While no request failed of itself, a caller that is about to rename or to
\* remove it knows each copy that has an automatic name.
StraysOwned == lost = 0 => \A s \in strays : \E c \in Callers : Owns(c, s)

LEMMA CopyStepsStep ==
    ASSUME FileTypeOK, CopySteps, [FileNext]_opVars
    PROVE  CopySteps'
<1> DEFINE P(x) == x.at \in {"exists", "copy", "rename", "cleanup"} => x.op = "copy"
<1>1. SUFFICES ASSUME NEW c \in Callers PROVE P(task'[c])
  BY DEF CopySteps
<1>2. P(task[c]) /\ task \in [Callers -> Task] /\ task[c] \in Task
  BY <1>1 DEF CopySteps, FileTypeOK
<1>3. CASE task'[c] = task[c]
  BY <1>2, <1>3
<1>4. CASE task'[c] # task[c]
  <2>1. FileStep(c)
    BY <1>4, OwnCall DEF FileNext, OtherClients, FileTerminated, opVars
  <2>2. ASSUME EndCall(c) PROVE P(task'[c])
    BY <1>2, <2>2 DEF EndCall, NoCall
  <2>3. ASSUME NEW refused, Fails(c, refused) PROVE P(task'[c])
    BY <2>2, <2>3 DEF Fails
  <2>4. ASSUME task'[c].op = task[c].op,
               task'[c].at \in {"exists", "copy", "rename", "cleanup"}
                 => task[c].at \in {"exists", "copy", "rename", "cleanup"}
        PROVE  P(task'[c])
    BY <1>2, <2>4
  <2>5. ASSUME NEW s, Goto(c, s),
               s \in {"exists", "copy", "rename", "cleanup"}
                 => task[c].at \in {"exists", "copy", "rename", "cleanup"}
        PROVE  P(task'[c])
    <3>1. task'[c].op = task[c].op /\ task'[c].at = s
      BY <1>2, <2>5 DEF Goto, Task
    <3> QED
      BY <2>4, <2>5, <3>1
  <2>6. CASE BeginCall(c)
    <3>1. PICK op \in Operations :
            /\ task'[c].op = op
            /\ op = "find" => task'[c].at = "lookup"
            /\ op = "put" => task'[c].at = "lookup"
            /\ op = "update" => task'[c].at = "start"
            /\ op = "remove" => task'[c].at = "delete"
            /\ op = "sync-delete" => task'[c].at = "check"
      BY <1>2, <2>6 DEF BeginCall, NoCall
    <3> QED
      BY <3>1, OperationsAssumption DEF FileOperations
  <2>7. CASE Find(c) \/ FetchMetadata(c) \/ DeleteFile(c)
    BY <2>2, <2>3, <2>7 DEF Find, FetchMetadata, DeleteFile
  <2>8. CASE PutLookup(c)
    <3>1. ASSUME task' = [task EXCEPT ![c].over = file, ![c].at = "start"]
          PROVE  task'[c].op = task[c].op /\ task'[c].at = "start"
      BY <1>2, <3>1 DEF Task
    <3> QED
      BY <2>3, <2>4, <2>8, <3>1 DEF PutLookup
  <2>9. CASE StartUpload(c)
    <3>1. ASSUME NEW n, task' = [task EXCEPT ![c].new = n, ![c].at = "transfer"]
          PROVE  task'[c].op = task[c].op /\ task'[c].at = "transfer"
      BY <1>2, <3>1 DEF Task
    <3> QED
      BY <2>3, <2>4, <2>9, <3>1 DEF StartUpload
  <2>10. CASE Transfer(c) \/ EndUpload(c)
    BY <2>2, <2>3, <2>5, <2>10 DEF Transfer, EndUpload, Replied
  <2>11. CASE CheckAbsent(c)
    BY <2>3, <2>5, <2>11 DEF CheckAbsent
  <2>12. CASE CopyFile(c)
    <3>1. task[c].op = "copy"
      BY <1>2, <2>12 DEF CopyFile
    <3>2. ASSUME NEW n, NEW s, task' = [task EXCEPT ![c].new = n, ![c].at = s]
          PROVE  P(task'[c])
      <4>1. task'[c].op = task[c].op
        BY <1>2, <3>2 DEF Task
      <4> QED
        BY <3>1, <4>1
    <3> HIDE DEF P
    <3> QED
      BY <2>2, <2>3, <2>12, <3>2 DEF CopyFile
  <2>13. CASE RenameCopy(c) \/ CleanUp(c)
    BY <2>2, <2>3, <2>5, <2>13 DEF RenameCopy, CleanUp, AbandonCopy
  <2>14. CASE CheckRevision(c)
    <3>1. ASSUME task' = [task EXCEPT ![c].at = "delete", ![c].since = edits]
          PROVE  task'[c].op = task[c].op /\ task'[c].at = "delete"
      BY <1>2, <3>1 DEF Task
    <3> QED
      BY <2>3, <2>4, <2>14, <3>1 DEF CheckRevision
  <2> QED
    BY <2>1, <2>6, <2>7, <2>8, <2>9, <2>10, <2>11, <2>12, <2>13, <2>14 DEF FileStep
<1> QED
  BY <1>3, <1>4

LEMMA StraysOwnedStep ==
    ASSUME FileTypeOK, CopySteps, StraysOwned, [FileNext]_opVars
    PROVE  StraysOwned'
<1>1. SUFFICES ASSUME lost' = 0, NEW s \in strays'
              PROVE  \E c \in Callers : Owns(c, s)'
  BY DEF StraysOwned
<1>2. lost \in Nat /\ ~ Failure
  BY <1>1 DEF FileTypeOK, Failure
<1>3. task \in [Callers -> Task] /\ \A c \in Callers : task[c] \in Task
  BY DEF FileTypeOK
<1>4. ASSUME NEW c \in Callers, Owns(c, s), task'[c] = task[c]
      PROVE  \E x \in Callers : Owns(x, s)'
  BY <1>4 DEF Owns
<1>5. CASE task' = task /\ strays' = strays /\ lost' = lost
  BY <1>1, <1>4, <1>5 DEF StraysOwned
<1>6. ASSUME NEW d \in Callers, FileStep(d)
      PROVE  \E c \in Callers : Owns(c, s)'
  <2>1. \A c \in Callers \ {d} : task'[c] = task[c]
    BY <1>6, OwnCall
  <2>2. lost = 0
    <3>1. ASSUME NEW refused, Fails(d, refused) PROVE UNCHANGED lost
      BY <1>2, <3>1 DEF Fails
    <3>2. UNCHANGED lost
      BY <1>2, <1>6, <3>1 DEF FileStep, BeginCall, Find, PutLookup, StartUpload, Transfer,
         EndUpload, FetchMetadata, CheckAbsent, CopyFile, RenameCopy, CleanUp,
         CheckRevision, DeleteFile, Replied
    <3> QED
      BY <1>1, <3>2
  <2>3. ASSUME s \in strays, ~ Owns(d, s)
        PROVE  \E c \in Callers : Owns(c, s)'
    BY <1>4, <2>1, <2>2, <2>3 DEF StraysOwned
  <2>4. CASE CopyFile(d)
    <3>1. ~ Owns(d, s)
      BY <2>4 DEF CopyFile, Owns
    <3>2. CASE s \in strays
      BY <2>3, <3>1, <3>2
    <3>3. CASE s \notin strays
      <4>1. /\ s = nextId
            /\ task' = [task EXCEPT ![d].new = [id |-> nextId, rev |-> nextId],
                                    ![d].at = "rename"]
        BY <1>1, <1>2, <2>4, <3>3 DEF CopyFile, Fails, service
      <4>2. task[d].op = "copy"
        BY <2>4 DEF CopySteps, CopyFile
      <4>3. task'[d].op = "copy" /\ task'[d].at = "rename" /\ task'[d].new.id = s
        BY <1>3, <4>1, <4>2 DEF Task
      <4> QED
        BY <4>3 DEF Owns
    <3> QED
      BY <3>2, <3>3
  <2>5. CASE RenameCopy(d)
    <3>1. CASE strays' = strays \ {task[d].new.id}
      <4>1. s \in strays /\ ~ Owns(d, s)
        BY <1>1, <3>1 DEF Owns
      <4> QED
        BY <2>3, <4>1
    <3>2. CASE UNCHANGED strays /\ AbandonCopy(d)
      <4>1. CASE Owns(d, s)
        <5>1. task'[d].op = task[d].op /\ task'[d].at = "cleanup" /\ task'[d].new = task[d].new
          BY <1>3, <3>2 DEF AbandonCopy, Goto, Task
        <5> QED
          BY <4>1, <5>1 DEF Owns
      <4>2. CASE ~ Owns(d, s)
        BY <1>1, <2>3, <3>2, <4>2
      <4> QED
        BY <4>1, <4>2
    <3> QED
      BY <2>5, <3>1, <3>2 DEF RenameCopy, service
  <2>6. CASE CleanUp(d)
    <3>1. strays' = strays \ {task[d].new.id}
      BY <1>2, <2>6 DEF CleanUp, Fails
    <3>2. s \in strays /\ ~ Owns(d, s)
      BY <1>1, <3>1 DEF Owns
    <3> QED
      BY <2>3, <3>2
  <2>7. CASE ~ CopyFile(d) /\ ~ RenameCopy(d) /\ ~ CleanUp(d)
    <3>1. UNCHANGED strays
      <4>1. ASSUME NEW refused, Fails(d, refused) PROVE UNCHANGED strays
        BY <4>1 DEF Fails, service
      <4> QED
        BY <1>6, <2>7, <4>1 DEF FileStep, BeginCall, Find, PutLookup, StartUpload, Transfer,
           EndUpload, FetchMetadata, CheckAbsent, CheckRevision, DeleteFile, service
    <3>2. ~ Owns(d, s)
      BY <1>6, <2>7 DEF Owns, FileStep, BeginCall, Find, PutLookup, StartUpload, Transfer,
         EndUpload, FetchMetadata, CheckAbsent, CheckRevision, DeleteFile
    <3> QED
      BY <1>1, <2>3, <3>1, <3>2
  <2> QED
    BY <2>4, <2>5, <2>6, <2>7
<1>7. ASSUME OtherClients PROVE task' = task /\ strays' = strays /\ lost' = lost
  BY <1>7 DEF OtherClients
<1> QED
  BY <1>5, <1>6, <1>7 DEF FileNext, FileTerminated, opVars

\* Copy with a rename: unless a request failed of itself, the copy that could
\* not take the destination's name is removed, whatever the other callers and
\* clients did between the copy and the rename.
THEOREM NoCopyLeft == FileSpec => []NoStrayCopy
<1>1. FileInit => CopySteps /\ StraysOwned
  BY DEF FileInit, CopySteps, StraysOwned, NoCall
<1>2. FileTypeOK /\ CopySteps /\ StraysOwned /\ [FileNext]_opVars => CopySteps' /\ StraysOwned'
  BY CopyStepsStep, StraysOwnedStep
<1>3. StraysOwned => NoStrayCopy
  BY DEF StraysOwned, NoStrayCopy, Owns
<1> QED
  BY <1>1, <1>2, <1>3, TypeCorrect, PTL DEF FileSpec

-----------------------------------------------------------------------------
(* sync-delete *)

\* What sync-delete compared still holds while nobody has changed the file.
ComparedBy(c) ==
    task[c].op = "sync-delete" /\ task[c].at = "delete" =>
        /\ task[c].since <= edits
        /\ edits = task[c].since => file = task[c].over

Compared == \A c \in Callers : ComparedBy(c)

\* Every change of the file is counted.
LEMMA ChangesCounted ==
    ASSUME FileTypeOK, [FileNext]_opVars
    PROVE  UNCHANGED <<file, edits>> \/ edits' = edits + 1
<1>1. ASSUME NEW c \in Callers, FileStep(c) PROVE UNCHANGED <<file, edits>> \/ edits' = edits + 1
  <2>1. ASSUME NEW refused, Fails(c, refused) PROVE UNCHANGED <<file, edits>>
    BY <2>1 DEF Fails, service
  <2>2. CASE BeginCall(c) \/ Find(c) \/ PutLookup(c)
    BY <2>1, <2>2 DEF BeginCall, Find, PutLookup, service
  <2>3. CASE StartUpload(c) \/ Transfer(c) \/ FetchMetadata(c)
    BY <2>1, <2>3 DEF StartUpload, Transfer, FetchMetadata, service
  <2>4. CASE EndUpload(c)
    BY <2>1, <2>4 DEF EndUpload, Becomes
  <2>5. CASE CheckAbsent(c) \/ CopyFile(c)
    BY <2>1, <2>5 DEF CheckAbsent, CopyFile, Becomes, service
  <2>6. CASE RenameCopy(c)
    BY <2>6 DEF RenameCopy, Becomes, service
  <2>7. CASE CleanUp(c)
    BY <2>1, <2>7 DEF CleanUp, Becomes
  <2>8. CASE CheckRevision(c)
    BY <2>1, <2>8 DEF CheckRevision, service
  <2>9. CASE DeleteFile(c)
    BY <2>1, <2>9 DEF DeleteFile, Becomes
  <2> QED
    BY <1>1, <2>2, <2>3, <2>4, <2>5, <2>6, <2>7, <2>8, <2>9 DEF FileStep
<1>2. CASE OtherClients
  BY <1>2 DEF OtherClients, Becomes
<1> QED
  BY <1>1, <1>2 DEF FileNext, FileTerminated, opVars

LEMMA ComparedStep ==
    ASSUME FileTypeOK, Compared, [FileNext]_opVars
    PROVE  Compared'
<1>1. SUFFICES ASSUME NEW c \in Callers PROVE ComparedBy(c)'
  BY DEF Compared
<1>2. /\ ComparedBy(c) /\ task \in [Callers -> Task] /\ task[c] \in Task
      /\ edits \in Nat /\ task[c].since \in Nat
  BY <1>1 DEF Compared, FileTypeOK, Task
<1>3. CASE task'[c] = task[c]
  BY <1>2, <1>3, ChangesCounted DEF ComparedBy
<1>4. CASE task'[c] # task[c]
  <2>1. FileStep(c)
    BY <1>4, OwnCall DEF FileNext, OtherClients, FileTerminated, opVars
  <2>2. ASSUME task'[c].at # "delete" PROVE ComparedBy(c)'
    BY <2>2 DEF ComparedBy
  <2>3. ASSUME EndCall(c) PROVE ComparedBy(c)'
    BY <1>2, <2>2, <2>3 DEF EndCall, NoCall
  <2>4. ASSUME NEW refused, Fails(c, refused) PROVE ComparedBy(c)'
    BY <2>3, <2>4 DEF Fails
  <2>5. ASSUME NEW s, s # "delete", Goto(c, s) PROVE ComparedBy(c)'
    BY <1>2, <2>2, <2>5 DEF Goto, Task
  <2>6. CASE BeginCall(c)
    <3>1. PICK op \in Operations : /\ task'[c].op = op
                                   /\ op = "sync-delete" => task'[c].at = "check"
      BY <1>2, <2>6 DEF BeginCall, NoCall
    <3> QED
      BY <3>1 DEF ComparedBy
  <2>7. CASE Find(c) \/ FetchMetadata(c) \/ DeleteFile(c)
    BY <2>3, <2>4, <2>7 DEF Find, FetchMetadata, DeleteFile
  <2>8. CASE PutLookup(c)
    <3>1. ASSUME task' = [task EXCEPT ![c].over = file, ![c].at = "start"]
          PROVE  task'[c].at = "start"
      BY <1>2, <3>1 DEF Task
    <3> QED
      BY <2>2, <2>4, <2>8, <3>1 DEF PutLookup
  <2>9. CASE StartUpload(c)
    <3>1. ASSUME NEW n, task' = [task EXCEPT ![c].new = n, ![c].at = "transfer"]
          PROVE  task'[c].at = "transfer"
      BY <1>2, <3>1 DEF Task
    <3> QED
      BY <2>2, <2>4, <2>9, <3>1 DEF StartUpload
  <2>10. CASE Transfer(c) \/ EndUpload(c) \/ CheckAbsent(c)
    BY <2>3, <2>4, <2>5, <2>10 DEF Transfer, EndUpload, CheckAbsent, Replied
  <2>11. CASE CopyFile(c)
    <3>1. ASSUME NEW n, NEW s \in {"rename", "lookup"},
                 task' = [task EXCEPT ![c].new = n, ![c].at = s]
          PROVE  task'[c].at = s
      BY <1>2, <3>1 DEF Task
    <3> QED
      BY <2>2, <2>3, <2>4, <2>11, <3>1 DEF CopyFile
  <2>12. CASE RenameCopy(c) \/ CleanUp(c)
    BY <2>3, <2>4, <2>5, <2>12 DEF RenameCopy, CleanUp, AbandonCopy
  <2>13. CASE CheckRevision(c)
    <3>1. CASE \E r : Fails(c, r)
      BY <2>4, <3>1
    <3>2. CASE /\ AsExpected(c) /\ UNCHANGED service
               /\ task' = [task EXCEPT ![c].at = "delete", ![c].since = edits]
      <4>1. task'[c].since = edits /\ task'[c].over = task[c].over
        BY <1>2, <3>2 DEF Task
      <4> QED
        BY <1>2, <3>2, <4>1 DEF AsExpected, ComparedBy, service
    <3> QED
      BY <2>13, <3>1, <3>2 DEF CheckRevision
  <2> QED
    BY <2>1, <2>6, <2>7, <2>8, <2>9, <2>10, <2>11, <2>12, <2>13 DEF FileStep
<1> QED
  BY <1>3, <1>4

\* sync-delete: between the comparison of the revision and the request, which
\* names no revision, the only versions that can be lost are those somebody
\* wrote in that window.
THEOREM DeletesOnlyExpected == FileSpec => DeletesExpected
<1>1. FileInit => Compared
  BY DEF FileInit, Compared, ComparedBy, NoCall
<1>2. FileTypeOK /\ Compared /\ [FileNext]_opVars => Compared'
  BY ComparedStep
<1>3. Compared =>
        [\A c \in Callers :
           /\ task[c].op = "sync-delete" /\ task[c].at = "delete"
           /\ task'[c] # task[c] /\ file' # file
           /\ edits = task[c].since
           => file = task[c].over]_opVars
  BY DEF Compared, ComparedBy
<1> QED
  BY <1>1, <1>2, <1>3, TypeCorrect, PTL DEF FileSpec, DeletesExpected

-----------------------------------------------------------------------------
(* Calls and their lookups *)

\* The lookup in progress, or to be begun.
NextLook(c) == Lookups(c)[Len(c.found) + 1]

Holding(c) == c.at \in {"ask", "create", "put"}

\* What the steps of a call keep, whatever becomes of the directories.
CallOK(c) ==
    /\ c.at = "idle" <=> c.op = "none"
    /\ c.op = "none" => c = Idle
    /\ c.op \in {"rmdir", "purge", "dirmove"} => c.path # <<>>
    /\ c.op \in {"dirmove", "sync-move"} => c.to # <<>>
    /\ c.op \in {"sync-move", "sync-delete-dir"} => c.id # <<>>
    /\ c.at = "list" => c.op = "list"
    /\ c.at = "delete" => c.op \in {"rmdir", "sync-delete-dir"}
    /\ c.at = "flush" => c.op \notin {"none", "list", "mkdir"}
    /\ Len(c.found) <= Len(Lookups(c))
    /\ \A i \in 1 .. Len(c.found) : c.found[i] = NoId <=> Lookups(c)[i].absent
    /\ c.at \in {"act", "list", "delete", "flush"} => Len(c.found) = Len(Lookups(c))
    /\ Holding(c) => /\ Len(c.found) < Len(Lookups(c))
                     /\ Len(c.have) < Len(NextLook(c).path)
                     /\ c.have = SubSeq(NextLook(c).path, 1, Len(c.have))
                     /\ c.got \in DocIds

\* The directories are a tree of depth two without ambiguous names.
TreeOK ==
    /\ \A x \in alive : place[x].up # Top =>
         place[x].up \in alive /\ place[place[x].up].up = Top
    /\ \A x, y \in alive : place[x] = place[y] => x = y

\* The ID d names the directory at path p.
IsAt(d, p) == Resolves(d) /\ p = IF d = <<>> THEN <<>> ELSE PathOf(Leaf(d))

\* The name a call in a lookup is looking for.
NameOf(c) == NextLook(c).path[Len(c.have) + 1]

KnowsFound(c) == \A i \in 1 .. Len(c.found) :
    c.found[i] # NoId => IsAt(c.found[i], Lookups(c)[i].path)

\* What a call knows of the directories is true.
KnowsCall(c) ==
    /\ c.at \in {"lookup", "ask", "create", "put", "act", "delete"} => KnowsFound(c)
    /\ c.at \in {"ask", "create"} => IsAt(c.got, c.have)
    /\ c.at = "put" => IsAt(c.got, Append(c.have, NameOf(c)))
    /\ c.at = "create" => NextLook(c).create /\ Leaves(c.got, NameOf(c)) = {}

KnowsDirs(w) ==
    /\ KnowsCall(call[w])
    /\ call[w].at = "list" => \A e \in entries[w] : IsAt(e[2], e[1])

-----------------------------------------------------------------------------
(* Uploads *)

Documents == FileIds \union {NoDocument}

Uploads == [kind : {"none", "put", "chunked"},
            at : {"none", "object", "parent", "start", "end"}, path : Paths,
            over : Documents, parent : DocIds, new : Documents]

States == [parent : DocIds, over : Documents, new : Documents]

\* Between its lookups an upload is in no call of the cache; in the lookup of
\* the parent, that call is the one that asks for its path.
UploadOK(u, c) ==
    /\ u.at \in {"object", "start", "end"} => c = Idle
    /\ u.at = "parent" =>
         /\ c.op \in {"mkdir", "none"}
         /\ c.op = "mkdir" => c.path = u.path

UploadInv ==
    /\ home \in [Files -> Nodes \union {Top, NoId}]
    /\ unused \subseteq Files
    /\ up \in [Workers -> Uploads]
    /\ store \in [Paths -> States]
    /\ steady \in BOOLEAN
    /\ \A w \in Workers : UploadOK(up[w], call[w])

MakesOf(new, parent, over) ==
    IF over = NoDocument THEN \E f \in Files : new = Append(parent, f) ELSE new = over

-----------------------------------------------------------------------------
(* Paths and document IDs *)

Tuples(S) == {<<>>} \union {<<x>> : x \in S} \union (S \X S)

LEMMA UpToTwo ==
  ASSUME NEW n \in Nat, n <= 2
  PROVE  n \in 0 .. 2 /\ (n = 0 \/ n = 1 \/ n = 2)
OBVIOUS

LEMMA TuplesAreShort ==
  ASSUME NEW S
  PROVE  \A s : s \in Tuples(S) <=> s \in Seq(S) /\ Len(s) <= 2
<1>1. ASSUME NEW s \in Tuples(S) PROVE s \in Seq(S) /\ Len(s) <= 2
  <2>1. CASE s = <<>>
    BY <2>1
  <2>2. CASE \E x \in S : s = <<x>>
    BY <2>2
  <2>3. CASE \E x, y \in S : s = <<x, y>>
    BY <2>3
  <2> QED
    BY <1>1, <2>1, <2>2, <2>3 DEF Tuples
<1>2. ASSUME NEW s \in Seq(S), Len(s) <= 2 PROVE s \in Tuples(S)
  <2>1. CASE Len(s) = 0
    BY <2>1 DEF Tuples
  <2>2. CASE Len(s) = 1
    <3>1. s[1] \in S /\ <<s[1]>> \in Seq(S)
      BY <1>2, <2>2
    <3>2. s = <<s[1]>>
      BY <1>2, <2>2, <3>1, SeqEqual
    <3> QED
      BY <3>1, <3>2 DEF Tuples
  <2>3. CASE Len(s) = 2
    <3>1. s[1] \in S /\ s[2] \in S /\ s = <<s[1], s[2]>>
      BY <2>3
    <3> QED
      BY <3>1 DEF Tuples
  <2>4. Len(s) \in Nat
    BY <1>2, LenProperties
  <2> QED
    BY <1>2, <2>1, <2>2, <2>3, <2>4, UpToTwo
<1> QED
  BY <1>1, <1>2

LEMMA PathsAre ==
  /\ \A p : p \in Paths <=> p \in Seq(Names) /\ Len(p) <= 2
  /\ \A d : d \in DocIds <=> d \in Seq(Nodes) /\ Len(d) <= 2
<1>1. Paths = Tuples(Names) /\ DocIds = Tuples(Nodes)
  BY DEF Paths, DocIds, Tuples
<1> QED
  BY <1>1, TuplesAreShort

LEMMA LastOfSeq ==
  ASSUME NEW S, NEW s \in Seq(S), s # <<>>
  PROVE  s[Len(s)] \in S
<1>1. Len(s) \in 1 .. Len(s)
  BY EmptySeq
<1> QED
  BY <1>1, ElementOfSeq

LEMMA PrefixIs ==
  ASSUME NEW S, NEW s \in Seq(S), NEW n \in 0 .. Len(s)
  PROVE  /\ SubSeq(s, 1, n) \in Seq(S) /\ Len(SubSeq(s, 1, n)) = n
         /\ \A i \in 1 .. n : SubSeq(s, 1, n)[i] = s[i]
<1>1. \A i \in 1 .. n : s[i] \in S
  <2>1. \A i \in 1 .. n : i \in 1 .. Len(s)
    BY LenProperties
  <2> QED
    BY <2>1, ElementOfSeq
<1>2. n \in Int /\ 1 \in Int /\ n - 1 + 1 = n /\ (IF 1 <= n THEN n - 1 + 1 ELSE 0) = n
  BY LenProperties
<1>3. \A i \in 1 .. n : 1 + i - 1 = i
  OBVIOUS
<1>4. /\ SubSeq(s, 1, n) \in Seq(S)
      /\ Len(SubSeq(s, 1, n)) = IF 1 <= n THEN n - 1 + 1 ELSE 0
      /\ \A i \in 1 .. n - 1 + 1 : SubSeq(s, 1, n)[i] = s[1 + i - 1]
  BY <1>1, <1>2, SubSeqProperties
<1> QED
  BY <1>2, <1>3, <1>4

LEMMA ParentIs ==
  ASSUME NEW S, NEW s \in Seq(S)
  PROVE  /\ Parent(s) \in Seq(S)
         /\ s # <<>> => /\ Leaf(s) \in S /\ Len(Parent(s)) = Len(s) - 1
                        /\ s = Append(Parent(s), Leaf(s))
         /\ s = <<>> => Parent(s) = <<>>
<1>1. CASE s = <<>>
  BY <1>1 DEF Parent
<1>2. CASE s # <<>>
  <2>0. Len(s) \in Nat \ {0}
    BY <1>2, EmptySeq
  <2>1. Leaf(s) \in S
    BY <1>2, LastOfSeq DEF Leaf
  <2>2. Parent(s) \in Seq(S) /\ Len(Parent(s)) = Len(s) - 1
    <3>1. Len(s) - 1 \in 0 .. Len(s)
      BY <2>0
    <3>2. SubSeq(s, 1, Len(s) - 1) \in Seq(S) /\ Len(SubSeq(s, 1, Len(s) - 1)) = Len(s) - 1
      BY <3>1, PrefixIs
    <3> QED
      BY <2>0, <3>2 DEF Parent
  <2>3. s = Append(Parent(s), Leaf(s))
    BY <2>0, <2>2 DEF Parent, Leaf
  <2> QED
    BY <1>2, <2>0, <2>1, <2>2, <2>3
<1> QED
  BY <1>1, <1>2

LEMMA AppendIs ==
  ASSUME NEW S, NEW s \in Seq(S), NEW x \in S
  PROVE  /\ Append(s, x) \in Seq(S) /\ Append(s, x) # <<>>
         /\ Len(Append(s, x)) = Len(s) + 1
         /\ Leaf(Append(s, x)) = x /\ Parent(Append(s, x)) = s
BY DEF Leaf, Parent

LEMMA PrefixAppend ==
  ASSUME NEW S, NEW s \in Seq(S), NEW n \in Nat, n < Len(s)
  PROVE  /\ Append(SubSeq(s, 1, n), s[n + 1]) = SubSeq(s, 1, n + 1)
         /\ Len(SubSeq(s, 1, n + 1)) = n + 1
         /\ n + 1 = Len(s) => SubSeq(s, 1, n + 1) = s
<1> DEFINE k == Len(s)
<1>0. k \in Nat
  BY LenProperties
<1>1. n \in 0 .. k /\ n + 1 \in 0 .. k /\ n + 1 \in 1 .. k
  <2> HIDE DEF k
  <2> QED
    BY <1>0 DEF k
<1>2. /\ SubSeq(s, 1, n) \in Seq(S) /\ Len(SubSeq(s, 1, n)) = n
      /\ SubSeq(s, 1, n + 1) \in Seq(S) /\ Len(SubSeq(s, 1, n + 1)) = n + 1
      /\ \A i \in 1 .. n : SubSeq(s, 1, n)[i] = s[i]
      /\ \A i \in 1 .. n + 1 : SubSeq(s, 1, n + 1)[i] = s[i]
  BY <1>1, PrefixIs
<1>3. s[n + 1] \in S
  BY <1>1, ElementOfSeq
<1> DEFINE t == SubSeq(s, 1, n)
           u == SubSeq(s, 1, n + 1)
           a == Append(t, s[n + 1])
<1>4. /\ a \in Seq(S) /\ Len(a) = n + 1
      /\ \A i \in 1 .. n : a[i] = t[i]
      /\ a[n + 1] = s[n + 1]
  BY <1>2, <1>3, AppendProperties
<1> HIDE DEF a, t, u
<1>5. \A i \in 1 .. n + 1 : i \in 1 .. n \/ i = n + 1
  OBVIOUS
<1>6. \A i \in 1 .. n + 1 : a[i] = u[i]
  <2>1. \A i \in 1 .. n : a[i] = u[i]
    <3>1. \A i \in 1 .. n : i \in 1 .. n + 1
      OBVIOUS
    <3> QED
      BY <1>2, <1>4, <3>1 DEF t, u
  <2>2. a[n + 1] = u[n + 1]
    BY <1>2, <1>4 DEF u
  <2> QED
    BY <1>5, <2>1, <2>2
<1>7. a = u
  BY <1>2, <1>4, <1>6, SeqEqual DEF u
<1> QED
  BY <1>2, <1>7, SubSeqFull DEF a, t, u

LEMMA PathTypes ==
  ASSUME NEW p \in Paths
  PROVE  /\ Len(p) \in 0 .. 2 /\ Parent(p) \in Paths
         /\ p # <<>> => Leaf(p) \in Names /\ p = Append(Parent(p), Leaf(p))
         /\ p # <<>> => Len(Parent(p)) = Len(p) - 1
         /\ Len(p) < 2 => \A n \in Names : Append(p, n) \in Paths
         /\ \A n \in 0 .. Len(p) : SubSeq(p, 1, n) \in Paths /\ Len(SubSeq(p, 1, n)) = n
         /\ \A n \in 1 .. Len(p) : p[n] \in Names
<1>0. p \in Seq(Names) /\ Len(p) <= 2
  BY PathsAre
<1>1. p \in Seq(Names) /\ Len(p) <= 2 /\ Len(p) \in 0 .. 2
  <2>1. Len(p) \in Nat
    BY <1>0, LenProperties
  <2> QED
    BY <1>0, <2>1, UpToTwo
<1>2. Parent(p) \in Seq(Names) /\ Len(Parent(p)) <= 2
  BY <1>1, ParentIs
<1>3. p # <<>> => /\ Leaf(p) \in Names /\ p = Append(Parent(p), Leaf(p))
                  /\ Len(Parent(p)) = Len(p) - 1
  BY <1>1, ParentIs
<1>4. ASSUME Len(p) < 2, NEW n \in Names PROVE Append(p, n) \in Paths
  <2>1. Append(p, n) \in Seq(Names) /\ Len(Append(p, n)) <= 2
    BY <1>1, <1>4
  <2> QED
    BY <2>1, PathsAre
<1>5. ASSUME NEW n \in 0 .. Len(p) PROVE SubSeq(p, 1, n) \in Paths /\ Len(SubSeq(p, 1, n)) = n
  <2>1. SubSeq(p, 1, n) \in Seq(Names) /\ Len(SubSeq(p, 1, n)) = n
    BY <1>1
  <2>2. Len(SubSeq(p, 1, n)) <= 2
    BY <1>1, <2>1
  <2> QED
    BY <2>1, <2>2, PathsAre
<1> QED
  BY <1>1, <1>2, <1>3, <1>4, <1>5, PathsAre

LEMMA IdTypes ==
  ASSUME NEW d \in DocIds
  PROVE  /\ Len(d) \in 0 .. 2 /\ Parent(d) \in DocIds
         /\ d # <<>> => Leaf(d) \in Nodes /\ d = Append(Parent(d), Leaf(d))
         /\ Len(d) < 2 => \A x \in Nodes : Append(d, x) \in DocIds
         /\ Dir(d) \in Nodes \union {Top}
<1>0. d \in Seq(Nodes) /\ Len(d) <= 2
  BY PathsAre
<1>1. d \in Seq(Nodes) /\ Len(d) <= 2 /\ Len(d) \in 0 .. 2
  <2>1. Len(d) \in Nat
    BY <1>0, LenProperties
  <2> QED
    BY <1>0, <2>1, UpToTwo
<1>2. Parent(d) \in Seq(Nodes) /\ Len(Parent(d)) <= 2
  BY <1>1, ParentIs
<1>3. d # <<>> => Leaf(d) \in Nodes /\ d = Append(Parent(d), Leaf(d))
  BY <1>1, ParentIs
<1>4. ASSUME Len(d) < 2, NEW x \in Nodes PROVE Append(d, x) \in DocIds
  <2>1. Append(d, x) \in Seq(Nodes) /\ Len(Append(d, x)) <= 2
    BY <1>1, <1>4
  <2> QED
    BY <2>1, PathsAre
<1>5. Dir(d) \in Nodes \union {Top}
  BY <1>3 DEF Dir
<1> QED
  BY <1>1, <1>2, <1>3, <1>4, <1>5, PathsAre

LEMMA PlaceTypes ==
  ASSUME NsTypeOK, NEW x \in Nodes
  PROVE  /\ PathOf(x) \in Paths /\ PathOf(x) # <<>> /\ DocId(x) \in DocIds /\ DocId(x) # <<>>
         /\ Leaf(DocId(x)) = x
         /\ place[x].up \in Nodes \union {Top} /\ place[x].name \in Names
<1>1. place[x] \in Place
  BY DEF NsTypeOK
<1>2. place[x].up \in Nodes \union {Top} /\ place[x].name \in Names
  BY <1>1 DEF Place
<1>3. CASE place[x].up = Top
  BY <1>2, <1>3 DEF PathOf, DocId, Paths, DocIds, Leaf
<1>4. CASE place[x].up # Top
  <2>1. place[x].up \in Nodes
    BY <1>2, <1>4
  <2>2. place[place[x].up].name \in Names
    BY <2>1 DEF NsTypeOK, Place
  <2> QED
    BY <1>2, <1>4, <2>1, <2>2 DEF PathOf, DocId, Paths, DocIds, Leaf
<1> QED
  BY <1>2, <1>3, <1>4

-----------------------------------------------------------------------------
(* Types and the mutex of the cache *)

Results == UNION {[1 .. n -> DocIds \union {NoId}] : n \in 0 .. 4}

LEMMA ResultsAre ==
  \A f : f \in Results <=> f \in Seq(DocIds \union {NoId}) /\ Len(f) <= 4
<1> DEFINE S == DocIds \union {NoId}
<1>1. ASSUME NEW f \in Results PROVE f \in Seq(S) /\ Len(f) <= 4
  <2>1. PICK n \in 0 .. 4 : f \in [1 .. n -> S]
    BY <1>1 DEF Results
  <2> HIDE DEF S
  <2> QED
    BY <2>1
<1>2. ASSUME NEW f \in Seq(S), Len(f) <= 4 PROVE f \in Results
  <2> DEFINE n == Len(f)
  <2>1. n \in Nat /\ f \in [1 .. n -> S] /\ n <= 4
    BY <1>2, LenProperties
  <2> HIDE DEF n, S
  <2>2. n \in 0 .. 4
    BY <2>1
  <2> QED
    BY <2>1, <2>2 DEF Results, S
<1> QED
  BY <1>1, <1>2

LEMMA ResultsAppend ==
  ASSUME NEW f \in Results, Len(f) < 4, NEW d \in DocIds \union {NoId}
  PROVE  Append(f, d) \in Results /\ Len(Append(f, d)) = Len(f) + 1
         /\ \A i \in 1 .. Len(f) : Append(f, d)[i] = f[i]
         /\ Append(f, d)[Len(f) + 1] = d
<1> DEFINE S == DocIds \union {NoId}
<1>1. f \in Seq(S)
  BY ResultsAre
<1> HIDE DEF S
<1>2. d \in S
  BY DEF S
<1>3. /\ Append(f, d) \in Seq(S) /\ Len(Append(f, d)) = Len(f) + 1
      /\ \A i \in 1 .. Len(f) : Append(f, d)[i] = f[i]
      /\ Append(f, d)[Len(f) + 1] = d
  BY <1>1, <1>2, AppendProperties
<1> DEFINE n == Len(f)
<1>4. n \in Nat /\ n < 4
  BY <1>1, LenProperties
<1>5. n + 1 <= 4
  <2> HIDE DEF n
  <2> QED
    BY <1>4
<1> QED
  BY <1>3, <1>5, ResultsAre DEF S

LEMMA OneItem ==
  ASSUME NEW S, NEW a \in S
  PROVE  <<a>> \in Seq(S) /\ Len(<<a>>) = 1 /\ Len(<<a>>) \in 0 .. 4
OBVIOUS

LEMMA TwoItems ==
  ASSUME NEW S, NEW a \in S, NEW b \in S
  PROVE  <<a, b>> \in Seq(S) /\ Len(<<a, b>>) = 2 /\ Len(<<a, b>>) \in 0 .. 4
OBVIOUS

LEMMA FourItems ==
  ASSUME NEW S, NEW a \in S, NEW b \in S, NEW c \in S, NEW d \in S
  PROVE  /\ <<a, b, c, d>> \in Seq(S) /\ Len(<<a, b, c, d>>) = 4
         /\ Len(<<a, b, c, d>>) \in 0 .. 4
OBVIOUS

LookTypes == [path : Paths, create : BOOLEAN, absent : BOOLEAN]

LEMMA LookupsAre ==
  ASSUME NEW c \in Call
  PROVE  /\ Lookups(c) \in Seq(LookTypes) /\ Len(Lookups(c)) \in 0 .. 4
         /\ c.op = "none" => Len(Lookups(c)) = 0
<1>1. c.path \in Paths /\ c.to \in Paths
  BY DEF Call
<1>2. Parent(c.path) \in Paths /\ Parent(c.to) \in Paths
  BY <1>1, PathTypes
<1>3. \A p \in Paths : /\ Look(p, TRUE) \in LookTypes /\ Look(p, FALSE) \in LookTypes
                       /\ Absent(p) \in LookTypes
  BY DEF Look, Absent, LookTypes
<1>5. <<>> \in Seq(LookTypes) /\ Len(<<>>) = 0
  OBVIOUS
<1>6. CASE c.op \in {"list", "rmdir", "mkdir"}
  <2>1. PICK l \in LookTypes : Lookups(c) = <<l>>
    BY <1>1, <1>3, <1>6 DEF Lookups
  <2> QED
    BY <1>6, <2>1, OneItem
<1>7. CASE c.op = "purge"
  <2>1. PICK k, l \in LookTypes : Lookups(c) = <<k, l>>
    BY <1>1, <1>2, <1>3, <1>7 DEF Lookups
  <2> QED
    BY <1>7, <2>1, TwoItems
<1>8. CASE c.op = "dirmove"
  <2>1. Lookups(c) = <<Look(Parent(c.to), TRUE), Absent(c.to),
                       Look(Parent(c.path), FALSE), Look(c.path, FALSE)>>
    BY <1>8 DEF Lookups
  <2>2. /\ Look(Parent(c.to), TRUE) \in LookTypes /\ Absent(c.to) \in LookTypes
        /\ Look(Parent(c.path), FALSE) \in LookTypes /\ Look(c.path, FALSE) \in LookTypes
    BY <1>1, <1>2, <1>3
  <2>3. Lookups(c) \in Seq(LookTypes) /\ Len(Lookups(c)) \in 0 .. 4
    BY <2>1, <2>2, FourItems, ZenonT(30)
  <2> QED
    BY <1>8, <2>3
<1>9. CASE c.op = "sync-move"
  <2>1. PICK l \in LookTypes : Lookups(c) = <<l>>
    BY <1>1, <1>2, <1>3, <1>9 DEF Lookups
  <2> QED
    BY <1>9, <2>1, OneItem
<1>10. CASE c.op \notin {"list", "rmdir", "mkdir", "purge", "dirmove", "sync-move"}
  <2>1. Lookups(c) = <<>>
    BY <1>10 DEF Lookups
  <2> QED
    BY <1>5, <2>1
<1> QED
  BY <1>6, <1>7, <1>8, <1>9, <1>10

LEMMA LookupsSame ==
  ASSUME NEW c, NEW d, c.op = d.op, c.path = d.path, c.to = d.to
  PROVE  Lookups(c) = Lookups(d)
BY DEF Lookups

LEMMA NextLookType ==
  ASSUME NEW c \in Call, Len(c.found) < Len(Lookups(c))
  PROVE  NextLook(c) \in LookTypes /\ NextLook(c).path \in Paths
         /\ Len(c.found) \in Nat /\ Len(c.found) < 4
<1>1. c.found \in Results
  BY DEF Call, Results
<1> DEFINE n == Len(c.found)
           m == Len(Lookups(c))
<1>2. n \in Nat
  BY <1>1, ResultsAre, LenProperties
<1>3. m \in 0 .. 4 /\ n < m
  BY LookupsAre
<1>4. n + 1 \in 1 .. m /\ n < 4
  <2> HIDE DEF n, m
  <2> QED
    BY <1>2, <1>3
<1>5. Lookups(c)[n + 1] \in LookTypes
  BY <1>4, LookupsAre, ElementOfSeq
<1> QED
  BY <1>2, <1>4, <1>5 DEF NextLook, LookTypes

LEMMA IdleOK == Idle \in Call /\ CallOK(Idle) /\ ~ Holding(Idle) /\ Idle.at = "idle"
<1>0. <<>> \in Seq(DocIds \union {NoId}) /\ Len(<<>>) <= 4
  BY EmptySeq
<1>1. <<>> \in Paths /\ <<>> \in DocIds /\ <<>> \in Results /\ NoId \in DocIds \union {NoId}
  BY <1>0, ResultsAre DEF Paths, DocIds
<1>2. Idle \in Call
  BY <1>1 DEF Idle, Call, Results
<1>3. Len(Idle.found) = 0 /\ Len(Lookups(Idle)) = 0
  BY DEF Idle, Lookups
<1>4. 1 .. Len(Idle.found) = {}
  BY <1>3
<1> QED
  BY <1>2, <1>3, <1>4 DEF Idle, CallOK, Holding

MutexOK == mu \in Workers \union {NoId} /\ \A w \in Workers : mu = w <=> Holding(call[w])

CallsOK ==
    /\ call \in [Workers -> Call] /\ MutexOK
    /\ \A w \in Workers : CallOK(call[w])

CacheOK == cache \in [Paths -> DocIds \union {NoId}] /\ cache[<<>>] = <<>>

ListsOK ==
    /\ entries \in [Workers -> SUBSET (Paths \X DocIds)]
    /\ \A w \in Workers, e \in Paths \X DocIds : e \in entries[w] => e[1] # <<>>
    /\ retired \subseteq Paths \X Nodes \X Workers

CountersOK == calls \in 0 .. MaxCalls /\ faults \in 0 .. MaxFaults /\ foreign \in 0 .. MaxForeign

TypeInv == NsTypeOK /\ CallsOK /\ CacheOK /\ ListsOK /\ CountersOK

LEMMA InvIsTyped == TypeInv => TypeOK
BY DEF TypeInv, TypeOK, CallsOK, MutexOK, CacheOK, ListsOK, CountersOK, Holding

\* A worker goes on, and takes or leaves the mutex as the step says.
LEMMA CallStep ==
  ASSUME CallsOK, NEW w \in Workers, NEW c \in Call, CallOK(c), Set(w, c),
         \/ UNCHANGED mu /\ (Holding(c) <=> Holding(call[w]))
         \/ Unlocked /\ mu' = w /\ Holding(c)
         \/ Holding(call[w]) /\ Unlock /\ ~ Holding(c)
  PROVE  CallsOK'
<1>1. call' \in [Workers -> Call] /\ call'[w] = c /\ \A v \in Workers \ {w} : call'[v] = call[v]
  BY DEF CallsOK, Set
<1>2. \A v \in Workers : CallOK(call'[v])
  BY <1>1 DEF CallsOK
<1>3. MutexOK'
  <2>1. CASE UNCHANGED mu /\ (Holding(c) <=> Holding(call[w]))
    BY <1>1, <2>1 DEF CallsOK, MutexOK
  <2>2. CASE Unlocked /\ mu' = w /\ Holding(c)
    BY <1>1, <2>2, CallsAssumption DEF CallsOK, MutexOK, Unlocked
  <2>3. CASE Holding(call[w]) /\ Unlock /\ ~ Holding(c)
    BY <1>1, <2>3, CallsAssumption DEF CallsOK, MutexOK, Unlock
  <2> QED
    BY <2>1, <2>2, <2>3
<1> QED
  BY <1>1, <1>2, <1>3 DEF CallsOK

LEMMA CallsStay == CallsOK /\ UNCHANGED <<call, mu>> => CallsOK'
BY DEF CallsOK, MutexOK

LEMMA ReturnStep ==
  ASSUME CallsOK, NEW w \in Workers, Return(w),
         \/ UNCHANGED mu /\ ~ Holding(call[w])
         \/ Holding(call[w]) /\ Unlock
  PROVE  CallsOK'
BY CallStep, IdleOK DEF Return

\* Steps of a call that touch neither the mutex nor its lookups.
LEMMA AtStep ==
  ASSUME CallsOK, NEW w \in Workers, NEW s \in {"act", "list", "delete", "flush"}, At(w, s),
         UNCHANGED mu, ~ Holding(call[w]), call[w].op # "none",
         Len(call[w].found) = Len(Lookups(call[w])),
         s = "list" => call[w].op = "list",
         s = "delete" => call[w].op \in {"rmdir", "sync-delete-dir"},
         s = "flush" => call[w].op \notin {"none", "list", "mkdir"}
  PROVE  CallsOK'
<1> DEFINE c == [call[w] EXCEPT !.at = s]
<1>1. call[w] \in Call /\ CallOK(call[w])
  BY DEF CallsOK
<1>2. c \in Call /\ c.at = s
  BY <1>1 DEF Call
<1>3. /\ c.op = call[w].op /\ c.path = call[w].path /\ c.to = call[w].to /\ c.id = call[w].id
      /\ c.found = call[w].found
  BY <1>1 DEF Call
<1>4. Set(w, c)
  BY DEF At, Set, CallsOK
<1> HIDE DEF c
<1>5. Lookups(c) = Lookups(call[w])
  BY <1>3, LookupsSame
<1>6. CallOK(c) /\ ~ Holding(c)
  BY <1>1, <1>2, <1>3, <1>5 DEF CallOK, Holding
<1> QED
  BY <1>2, <1>4, <1>6, CallStep

\* The end of a lookup that holds the mutex, or of one that did not take it.
LEMMA FoundStep ==
  ASSUME CallsOK, NEW w \in Workers, NEW d \in DocIds \union {NoId}, Found(w, d),
         call[w].op # "none",
         Len(call[w].found) < Len(Lookups(call[w])),
         \/ UNCHANGED mu /\ ~ Holding(call[w])
         \/ Holding(call[w]) /\ Unlock
  PROVE  CallsOK'
<1> DEFINE l == Current(w)
<1>1. call[w] \in Call /\ CallOK(call[w]) /\ call[w].found \in Results
  BY DEF CallsOK, Call, Results
<1>2. CASE l.absent = (d = NoId)
  <2> DEFINE f == call[w].found
             c == [call[w] EXCEPT !.found = Append(@, d), !.have = <<>>, !.got = NoId,
                                  !.at = "lookup"]
  <2>1. Len(f) \in Nat /\ Len(f) < 4
    BY <1>1, NextLookType
  <2>2. /\ Append(f, d) \in Results /\ Len(Append(f, d)) = Len(f) + 1
        /\ \A i \in 1 .. Len(f) : Append(f, d)[i] = f[i]
        /\ Append(f, d)[Len(f) + 1] = d
    BY <1>1, <2>1, ResultsAppend
  <2>3. c \in Call
    BY <1>1, <2>2 DEF Call, Results, Paths
  <2>4. /\ c.op = call[w].op /\ c.path = call[w].path /\ c.to = call[w].to /\ c.id = call[w].id
        /\ c.found = Append(f, d) /\ c.at = "lookup"
    BY <1>1 DEF Call
  <2>5. Set(w, c)
    BY <1>2 DEF Found
  <2> HIDE DEF c
  <2>6. Lookups(c) = Lookups(call[w])
    BY <2>4, LookupsSame
  <2>7. Len(c.found) <= Len(Lookups(c))
    <3> DEFINE n == Len(f)
               m == Len(Lookups(call[w]))
    <3>1. n \in Nat /\ m \in Nat /\ n < m
      BY <1>1, <2>1, LookupsAre
    <3>2. n + 1 <= m
      <4> HIDE DEF n, m
      <4> QED
        BY <3>1
    <3> QED
      BY <2>2, <2>4, <2>6, <3>2
  <2>8. \A i \in 1 .. Len(c.found) : c.found[i] = NoId <=> Lookups(c)[i].absent
    <3> DEFINE n == Len(f)
    <3>1. \A i \in 1 .. n : f[i] = NoId <=> Lookups(c)[i].absent
      BY <1>1, <2>6 DEF CallOK
    <3>2. d = NoId <=> Lookups(c)[n + 1].absent
      <4>1. Lookups(c)[n + 1] \in LookTypes
        BY <1>1, <2>6, NextLookType DEF NextLook
      <4>2. Lookups(c)[n + 1].absent \in BOOLEAN
        BY <4>1 DEF LookTypes
      <4>3. Lookups(c)[n + 1].absent = (d = NoId)
        BY <1>2, <2>6 DEF Current
      <4> QED
        BY <4>2, <4>3
    <3>3. Len(c.found) = n + 1 /\ n \in Nat
      BY <2>1, <2>2, <2>4
    <3> HIDE DEF n
    <3>4. \A i \in 1 .. n + 1 : i \in 1 .. n \/ i = n + 1
      BY <3>3
    <3>5. \A i \in 1 .. n : c.found[i] = f[i]
      BY <2>2, <2>4 DEF n
    <3>6. c.found[n + 1] = d
      BY <2>2, <2>4 DEF n
    <3> QED
      BY <3>1, <3>2, <3>3, <3>4, <3>5, <3>6
  <2>9. CallOK(c) /\ ~ Holding(c)
    BY <1>1, <2>4, <2>7, <2>8 DEF CallOK, Holding
  <2> QED
    BY <2>3, <2>5, <2>9, CallStep
<1>3. CASE ~ (l.absent = (d = NoId))
  BY <1>3, ReturnStep DEF Found
<1> QED
  BY <1>2, <1>3

\* What the requests make of the directories has their types.
LEMMA CreateTypes ==
  ASSUME NsTypeOK, NEW d \in DocIds, NEW n \in Names, NEW x \in Nodes, Create(d, n, x)
  PROVE  NsTypeOK'
<1>1. [up |-> Dir(d), name |-> n] \in Place
  BY IdTypes DEF Place
<1> QED
  BY <1>1 DEF Create, NsTypeOK

LEMMA DeleteTypes ==
  ASSUME NsTypeOK, NEW d \in DocIds, Delete(d)
  PROVE  NsTypeOK'
<1> DEFINE gone == {Leaf(d)} \union ChildrenOf(d)
<1>1. ASSUME NEW y \in Nodes PROVE NoPlace \in Place
  <2>1. place[y].name \in Names
    BY PlaceTypes
  <2>2. (CHOOSE m \in Names : TRUE) \in Names
    BY <2>1
  <2> QED
    BY <2>2 DEF NoPlace, Place
<1>2. place' = [y \in Nodes |-> IF y \in gone THEN NoPlace ELSE place[y]]
  BY DEF Delete
<1> HIDE DEF gone
<1>3. place' \in [Nodes -> Place]
  BY <1>1, <1>2 DEF NsTypeOK
<1> QED
  BY <1>3 DEF Delete, NsTypeOK

LEMMA RenameTypes ==
  ASSUME NsTypeOK, NEW d, NEW n \in Names, Rename(d, n)
  PROVE  NsTypeOK'
BY DEF Rename, NsTypeOK, Place

LEMMA MoveTypes ==
  ASSUME NsTypeOK, NEW d, NEW to \in DocIds, NEW n \in Names, Move(d, to, n)
  PROVE  NsTypeOK'
<1>1. [up |-> Dir(to), name |-> n] \in Place
  BY IdTypes DEF Place
<1> QED
  BY <1>1 DEF Move, NsTypeOK

LEMMA NsStays == NsTypeOK /\ UNCHANGED nsVars => NsTypeOK'
BY DEF NsTypeOK, nsVars

LEMMA CountersStay == CountersOK /\ UNCHANGED counters => CountersOK'
BY DEF CountersOK, counters

LEMMA FaultCounted ==
  CountersOK /\ (Fault \/ UNCHANGED faults) /\ UNCHANGED <<calls, foreign>> => CountersOK'
BY CallsAssumption DEF CountersOK, Fault

\* A call that is somewhere in its lookups.
LEMMA CurrentType ==
  ASSUME TypeInv, NEW w \in Workers, Len(call[w].found) < Len(Lookups(call[w]))
  PROVE  /\ call[w] \in Call /\ CallOK(call[w]) /\ call[w].found \in Results
         /\ Current(w) = NextLook(call[w]) /\ Current(w) \in LookTypes
         /\ Current(w).path \in Paths
<1>1. call[w] \in Call /\ CallOK(call[w])
  BY DEF TypeInv, CallsOK
<1> QED
  BY <1>1, NextLookType DEF Call, Results, Current, NextLook

\* Its next component.
LEMMA NextNameType ==
  ASSUME TypeInv, NEW w \in Workers, Holding(call[w])
  PROVE  /\ call[w] \in Call /\ CallOK(call[w]) /\ call[w].op # "none"
         /\ Len(call[w].found) < Len(Lookups(call[w])) /\ call[w].got \in DocIds
         /\ NextName(w) \in Names
         /\ call[w].have \in Paths /\ Len(call[w].have) < Len(Current(w).path)
         /\ Append(call[w].have, NextName(w)) \in Paths
         /\ Append(call[w].have, NextName(w)) # <<>>
<1>1. call[w] \in Call /\ CallOK(call[w]) /\ call[w].at # "idle"
  BY DEF TypeInv, CallsOK, Holding
<1>2. /\ Len(call[w].found) < Len(Lookups(call[w])) /\ call[w].got \in DocIds
      /\ Len(call[w].have) < Len(Current(w).path)
      /\ call[w].op # "none" /\ call[w].have \in Paths
  BY <1>1 DEF CallOK, Current, NextLook, Holding, Call
<1>3. Current(w).path \in Paths
  BY <1>2, CurrentType
<1> DEFINE n == Len(call[w].have)
           m == Len(Current(w).path)
<1>4. n \in 0 .. 2 /\ m \in 0 .. 2 /\ n < m
  BY <1>2, <1>3, PathTypes
<1>5. n + 1 \in 1 .. m /\ n < 2
  <2> HIDE DEF n, m
  <2> QED
    BY <1>4
<1>6. NextName(w) \in Names
  BY <1>3, <1>5, PathTypes DEF NextName
<1>7. Append(call[w].have, NextName(w)) \in Paths
  BY <1>2, <1>5, <1>6, PathTypes
<1>8. Append(call[w].have, NextName(w)) # <<>>
  <2>1. call[w].have \in Seq(Names)
    BY <1>2, PathsAre
  <2> QED
    BY <1>6, <2>1, AppendIs
<1> QED
  BY <1>1, <1>2, <1>6, <1>7, <1>8

LEMMA CachedPrefixIs ==
  ASSUME CacheOK, NEW p \in Paths
  PROVE  /\ CachedPrefix(p) \in Paths /\ cache[CachedPrefix(p)] \in DocIds
         /\ \E n \in 0 .. Len(p) : CachedPrefix(p) = SubSeq(p, 1, n)
         /\ CachedPrefix(p) # p => Len(CachedPrefix(p)) < Len(p)
<1> DEFINE pre(n) == SubSeq(p, 1, n)
           good(q) == /\ cache[q] # NoId
                      /\ \A n \in 0 .. Len(p) : cache[pre(n)] # NoId => n <= Len(q)
<1>1. Len(p) \in 0 .. 2 /\ \A n \in 0 .. Len(p) : pre(n) \in Paths /\ Len(pre(n)) = n
  BY PathTypes
<1>2. p \in Seq(Names) /\ pre(Len(p)) = p
  BY PathsAre, SubSeqFull
<1>3. pre(0) = <<>> /\ cache[pre(0)] # NoId
  <2>1. pre(0) = <<>>
    BY SubSeqEmpty
  <2>2. <<>> \in DocIds
    BY DEF DocIds
  <2> QED
    BY <2>1, <2>2, TopAssumption DEF CacheOK
<1>4. \E q \in {pre(n) : n \in 0 .. Len(p)} : good(q)
  <2> HIDE DEF pre
  <2> DEFINE k == Len(p)
             has(n) == cache[pre(n)] # NoId
  <2>1. \E n \in 0 .. k : has(n) /\ \A j \in 0 .. k : has(j) => j <= n
    <3>1. k \in 0 .. 2 /\ has(0)
      BY <1>1, <1>3
    <3> HIDE DEF has, k
    <3>2. k = 0 \/ k = 1 \/ k = 2
      BY <3>1
    <3>3. CASE k = 0
      BY <3>1, <3>3
    <3>4. CASE k = 1
      BY <3>1, <3>4
    <3>5. CASE k = 2
      BY <3>1, <3>5
    <3> QED
      BY <3>2, <3>3, <3>4, <3>5
  <2>2. PICK n \in 0 .. k : has(n) /\ \A j \in 0 .. k : has(j) => j <= n
    BY <2>1
  <2>3. Len(pre(n)) = n
    BY <1>1, <2>2
  <2> QED
    BY <2>2, <2>3
<1>5. CachedPrefix(p) \in {pre(n) : n \in 0 .. Len(p)} /\ good(CachedPrefix(p))
  BY <1>4 DEF CachedPrefix
<1>6. PICK n \in 0 .. Len(p) : CachedPrefix(p) = pre(n)
  BY <1>5
<1>7. cache[CachedPrefix(p)] \in DocIds /\ CachedPrefix(p) \in Paths
  BY <1>1, <1>5, <1>6 DEF CacheOK
<1>8. CachedPrefix(p) # p => Len(CachedPrefix(p)) < Len(p)
  <2>1. Len(pre(n)) = n /\ (n # Len(p) \/ pre(n) = p)
    BY <1>1, <1>2, <1>6
  <2> HIDE DEF pre
  <2> DEFINE k == Len(p)
  <2>2. k \in 0 .. 2 /\ n \in 0 .. k
    BY <1>1, <1>6
  <2>3. n # k => n < k
    <3> HIDE DEF k
    <3> QED
      BY <2>2
  <2> QED
    BY <1>6, <2>1, <2>3
<1> QED
  BY <1>6, <1>7, <1>8

LEMMA BeginStep == \A w \in Workers : TypeInv /\ Begin(w) => TypeInv'
<1> SUFFICES ASSUME NEW w \in Workers, TypeInv, Begin(w) PROVE TypeInv'
  OBVIOUS
<1>1. PICK op \in Ops : \E a \in Arguments(op) :
        Set(w, [Idle EXCEPT !.op = op, !.path = a.path, !.to = a.to, !.id = a.id,
                            !.at = "lookup", !.old = Retired])
  BY DEF Begin
<1>2. PICK a \in Arguments(op) :
        Set(w, [Idle EXCEPT !.op = op, !.path = a.path, !.to = a.to, !.id = a.id,
                            !.at = "lookup", !.old = Retired])
  BY <1>1
<1> DEFINE c == [Idle EXCEPT !.op = op, !.path = a.path, !.to = a.to, !.id = a.id,
                             !.at = "lookup", !.old = Retired]
<1>3. Retired \subseteq Paths \X Nodes
  BY DEF Retired, TypeInv, ListsOK
<1>4. op \in AllOps
  BY OpsAssumption
<1>5. \A x \in alive : DocId(x) \in DocIds /\ DocId(x) # <<>>
  BY PlaceTypes DEF TypeInv, NsTypeOK
<1>6. /\ a.path \in Paths /\ a.to \in Paths /\ a.id \in DocIds
      /\ op \in {"rmdir", "purge", "dirmove"} => a.path # <<>>
      /\ op \in {"dirmove", "sync-move"} => a.to # <<>>
      /\ op \in {"sync-move", "sync-delete-dir"} => a.id # <<>>
  <2> <<>> \in Paths /\ <<>> \in DocIds
    BY DEF Paths, DocIds
  <2>1. CASE op \in {"list", "mkdir", "rmdir", "purge", "dirmove"}
    BY <1>2, <2>1 DEF Arguments
  <2>2. CASE op \in {"sync-move", "sync-delete-dir"}
    BY <1>2, <1>5, <2>2 DEF Arguments
  <2> QED
    BY <1>4, <2>1, <2>2 DEF AllOps
<1>7. /\ c \in Call /\ c.at = "lookup" /\ c.op = op /\ c.path = a.path /\ c.to = a.to
      /\ c.id = a.id /\ c.found = <<>>
  BY <1>3, <1>4, <1>6, IdleOK DEF Idle, Call
<1>8. Set(w, c)
  BY <1>2
<1> HIDE DEF c
<1>9. Len(c.found) = 0 /\ 1 .. Len(c.found) = {} /\ 0 <= Len(Lookups(c))
  BY <1>7, LookupsAre
<1>10. CallOK(c) /\ ~ Holding(c)
  BY <1>4, <1>6, <1>7, <1>9 DEF CallOK, Holding, AllOps
<1>11. ~ Holding(call[w]) /\ UNCHANGED mu
  BY DEF Begin, TypeInv, CallsOK, CallOK, Holding
<1>12. CallsOK'
  BY <1>7, <1>8, <1>10, <1>11, CallStep DEF TypeInv
<1>13. CountersOK'
  BY CallsAssumption DEF Begin, TypeInv, CountersOK
<1> QED
  BY <1>12, <1>13, NsStays DEF Begin, TypeInv, CacheOK, ListsOK

LEMMA EndLookupsStep == \A w \in Workers : TypeInv /\ EndLookups(w) => TypeInv'
<1> SUFFICES ASSUME NEW w \in Workers, TypeInv, EndLookups(w) PROVE TypeInv'
  OBVIOUS
<1>1. CallOK(call[w]) /\ call[w].op # "none" /\ ~ Holding(call[w])
  BY DEF TypeInv, CallsOK, CallOK, EndLookups, Holding
<1>2. CallsOK'
  BY <1>1, AtStep DEF TypeInv, EndLookups
<1> QED
  BY <1>2, NsStays, CountersStay DEF EndLookups, TypeInv, CacheOK, ListsOK

LEMMA BeginLookupStep == \A w \in Workers : TypeInv /\ BeginLookup(w) => TypeInv'
<1> SUFFICES ASSUME NEW w \in Workers, TypeInv, BeginLookup(w) PROVE TypeInv'
  OBVIOUS
<1> DEFINE p == Current(w).path
           q == CachedPrefix(p)
<1>1. /\ call[w].at = "lookup" /\ Len(call[w].found) < Len(Lookups(call[w])) /\ Unlocked
      /\ IF q = p
         THEN Found(w, cache[p]) /\ UNCHANGED mu
         ELSE /\ Set(w, [call[w] EXCEPT !.have = q, !.got = cache[q], !.at = "ask"])
              /\ mu' = w
  BY DEF BeginLookup
<1>2. call[w] \in Call /\ CallOK(call[w]) /\ Current(w) = NextLook(call[w]) /\ p \in Paths
  BY <1>1, CurrentType
<1>3. ~ Holding(call[w]) /\ call[w].op # "none"
  BY <1>1, <1>2 DEF CallOK, Holding
<1>4. /\ q \in Paths /\ cache[q] \in DocIds /\ (q # p => Len(q) < Len(p))
      /\ q = SubSeq(p, 1, Len(q))
  <2>1. /\ q \in Paths /\ cache[q] \in DocIds /\ (q # p => Len(q) < Len(p))
        /\ \E n \in 0 .. Len(p) : q = SubSeq(p, 1, n)
    BY <1>2, CachedPrefixIs DEF TypeInv
  <2> QED
    BY <1>2, <2>1, PathTypes
<1> HIDE DEF q, p
<1>5. ASSUME q = p PROVE CallsOK'
  BY <1>1, <1>2, <1>3, <1>4, <1>5, FoundStep DEF TypeInv
<1>6. ASSUME q # p PROVE CallsOK'
  <2>0. NextLook(call[w]).path = p
    BY <1>2 DEF p
  <2> DEFINE c == [call[w] EXCEPT !.have = q, !.got = cache[q], !.at = "ask"]
  <2>1. /\ c \in Call /\ c.at = "ask" /\ c.op = call[w].op /\ c.path = call[w].path
        /\ c.to = call[w].to /\ c.id = call[w].id /\ c.found = call[w].found
        /\ c.have = q /\ c.got = cache[q]
    BY <1>2, <1>4 DEF Call
  <2>2. Set(w, c) /\ mu' = w
    BY <1>1, <1>6
  <2> HIDE DEF c
  <2>3. Lookups(c) = Lookups(call[w]) /\ NextLook(c) = NextLook(call[w])
    BY <2>1, LookupsSame DEF NextLook
  <2>4. CallOK(c) /\ Holding(c)
    BY <1>1, <1>2, <1>4, <1>6, <2>0, <2>1, <2>3 DEF CallOK, Holding
  <2> QED
    BY <1>1, <2>1, <2>2, <2>4, CallStep DEF TypeInv
<1>7. CallsOK'
  BY <1>5, <1>6
<1> QED
  BY <1>7, NsStays, CountersStay DEF BeginLookup, TypeInv, CacheOK, ListsOK

\* The steps of a lookup that holds the mutex.
LEMMA ResolvedStep ==
  ASSUME TypeInv, NEW w \in Workers, Holding(call[w]), NEW d \in DocIds, Resolved(w, d),
         UNCHANGED mu
  PROVE  CallsOK'
<1> DEFINE c == [call[w] EXCEPT !.got = d, !.at = "put"]
<1>1. call[w] \in Call /\ CallOK(call[w])
  BY DEF TypeInv, CallsOK
<1>2. /\ c \in Call /\ c.at = "put" /\ c.op = call[w].op /\ c.path = call[w].path
      /\ c.to = call[w].to /\ c.id = call[w].id /\ c.found = call[w].found
      /\ c.have = call[w].have /\ c.got = d
  BY <1>1 DEF Call
<1>3. Set(w, c)
  BY DEF Resolved
<1> HIDE DEF c
<1>4. Lookups(c) = Lookups(call[w]) /\ NextLook(c) = NextLook(call[w])
  BY <1>2, LookupsSame DEF NextLook
<1>5. CallOK(c) /\ Holding(c)
  BY <1>1, <1>2, <1>4 DEF CallOK, Holding
<1> QED
  BY <1>2, <1>3, <1>5, CallStep DEF TypeInv

LEMMA AskFailsStep ==
  ASSUME TypeInv, NEW w \in Workers, Holding(call[w]), NEW refused \in BOOLEAN,
         AskFails(w, refused), UNCHANGED <<calls, foreign>>
  PROVE  CallsOK' /\ CountersOK' /\ NsTypeOK'
<1>1. CallsOK'
  BY ReturnStep DEF AskFails, LookupFailed, TypeInv
<1>2. CountersOK'
  BY FaultCounted DEF AskFails, TypeInv
<1> QED
  BY <1>1, <1>2, NsStays DEF AskFails, TypeInv

LEMMA AskLeafStep == \A w \in Workers : TypeInv /\ AskLeaf(w) => TypeInv'
<1> SUFFICES ASSUME NEW w \in Workers, TypeInv, AskLeaf(w) PROVE TypeInv'
  OBVIOUS
<1> DEFINE d == call[w].got
           leaves == Leaves(d, NextName(w))
<1>1. call[w].at = "ask" /\ Holding(call[w])
  BY DEF AskLeaf, Holding
<1>2. /\ call[w] \in Call /\ CallOK(call[w]) /\ call[w].op # "none"
      /\ Len(call[w].found) < Len(Lookups(call[w]))
  BY <1>1, NextNameType
<1>3. UNCHANGED <<cache, entries, retired, calls, foreign>>
  BY DEF AskLeaf
<1>4. CASE /\ \E x \in leaves : Resolved(w, DocId(x))
           /\ UNCHANGED <<nsVars, mu, faults>>
  <2>1. PICK x \in leaves : Resolved(w, DocId(x))
    BY <1>4
  <2>2. x \in Nodes
    BY DEF Leaves, ChildrenOf, TypeInv, NsTypeOK
  <2>3. DocId(x) \in DocIds
    BY <2>2, PlaceTypes DEF TypeInv
  <2>4. CallsOK'
    BY <1>1, <1>4, <2>1, <2>3, ResolvedStep
  <2> QED
    BY <1>3, <1>4, <2>4, NsStays, CountersStay DEF TypeInv, CacheOK, ListsOK, counters
<1>5. CASE At(w, "create") /\ UNCHANGED <<nsVars, mu, faults>>
  <2> DEFINE c == [call[w] EXCEPT !.at = "create"]
  <2>1. /\ c \in Call /\ c.at = "create" /\ c.op = call[w].op /\ c.path = call[w].path
        /\ c.to = call[w].to /\ c.id = call[w].id /\ c.found = call[w].found
        /\ c.have = call[w].have /\ c.got = call[w].got
    BY <1>2 DEF Call
  <2>2. Set(w, c)
    BY <1>5 DEF At, Set, TypeInv, CallsOK
  <2> HIDE DEF c
  <2>3. Lookups(c) = Lookups(call[w]) /\ NextLook(c) = NextLook(call[w])
    BY <2>1, LookupsSame DEF NextLook
  <2>4. CallOK(c) /\ Holding(c)
    BY <1>1, <1>2, <2>1, <2>3 DEF CallOK, Holding
  <2>5. CallsOK'
    BY <1>1, <1>5, <2>1, <2>2, <2>4, CallStep DEF TypeInv
  <2> QED
    BY <1>3, <1>5, <2>5, NsStays, CountersStay DEF TypeInv, CacheOK, ListsOK, counters
<1>6. CASE Found(w, NoId) /\ Unlock /\ UNCHANGED <<nsVars, faults>>
  <2>1. CallsOK'
    BY <1>1, <1>2, <1>6, FoundStep DEF TypeInv
  <2> QED
    BY <1>3, <1>6, <2>1, NsStays, CountersStay DEF TypeInv, CacheOK, ListsOK, counters
<1>7. CASE AskFails(w, FALSE) \/ AskFails(w, TRUE)
  BY <1>1, <1>3, <1>7, AskFailsStep DEF TypeInv, CacheOK, ListsOK
<1> QED
  BY <1>4, <1>5, <1>6, <1>7 DEF AskLeaf

LEMMA CreateLeafStep == \A w \in Workers : TypeInv /\ CreateLeaf(w) => TypeInv'
<1> SUFFICES ASSUME NEW w \in Workers, TypeInv, CreateLeaf(w) PROVE TypeInv'
  OBVIOUS
<1> DEFINE d == call[w].got
           n == NextName(w)
<1>1. call[w].at = "create" /\ Holding(call[w])
  BY DEF CreateLeaf, Holding
<1>2. d \in DocIds /\ n \in Names
  BY <1>1, NextNameType
<1>3. UNCHANGED <<cache, entries, retired, calls, foreign>>
  BY DEF CreateLeaf
<1>4. CASE /\ CanCreate(d, n)
           /\ \E x \in fresh : Create(d, n, x) /\ Resolved(w, Append(d, x))
           /\ UNCHANGED <<mu, faults>>
  <2>1. PICK x \in fresh : Create(d, n, x) /\ Resolved(w, Append(d, x))
    BY <1>4
  <2>2. x \in Nodes
    BY DEF TypeInv, NsTypeOK
  <2>3. Append(d, x) \in DocIds
    BY <1>2, <1>4, <2>2, IdTypes DEF CanCreate
  <2>4. CallsOK'
    BY <1>1, <1>4, <2>1, <2>3, ResolvedStep
  <2>5. NsTypeOK'
    BY <1>2, <2>1, <2>2, CreateTypes DEF TypeInv
  <2> QED
    BY <1>3, <1>4, <2>4, <2>5, CountersStay DEF TypeInv, CacheOK, ListsOK, counters
<1>5. CASE AskFails(w, FALSE) \/ AskFails(w, TRUE)
  BY <1>1, <1>3, <1>5, AskFailsStep DEF TypeInv, CacheOK, ListsOK
<1>6. CASE /\ CanCreate(d, n)
           /\ \E x \in fresh : Create(d, n, x) /\ Fault /\ LookupFailed(w) /\ Unlock
  <2>1. PICK x \in fresh : Create(d, n, x)
    BY <1>6
  <2>2. x \in Nodes
    BY DEF TypeInv, NsTypeOK
  <2>3. NsTypeOK'
    BY <1>2, <2>1, <2>2, CreateTypes DEF TypeInv
  <2>4. Return(w) /\ Unlock /\ Fault
    BY <1>6 DEF LookupFailed
  <2>5. CallsOK'
    BY <1>1, <2>4, ReturnStep DEF TypeInv
  <2>6. CountersOK'
    BY <1>3, <2>4, FaultCounted DEF TypeInv
  <2> QED
    BY <1>3, <2>3, <2>5, <2>6 DEF TypeInv, CacheOK, ListsOK
<1> QED
  BY <1>4, <1>5, <1>6 DEF CreateLeaf

LEMMA PutLeafStep == \A w \in Workers : TypeInv /\ PutLeaf(w) => TypeInv'
<1> SUFFICES ASSUME NEW w \in Workers, TypeInv, PutLeaf(w) PROVE TypeInv'
  OBVIOUS
<1> DEFINE p == Append(call[w].have, NextName(w))
<1>1. /\ call[w].at = "put" /\ Holding(call[w]) /\ cache' = [cache EXCEPT ![p] = call[w].got]
      /\ IF p = Current(w).path
         THEN Found(w, call[w].got) /\ Unlock
         ELSE Set(w, [call[w] EXCEPT !.have = p, !.at = "ask"]) /\ UNCHANGED mu
      /\ UNCHANGED <<nsVars, entries, retired, counters>>
  BY DEF PutLeaf, Holding
<1>2. /\ call[w] \in Call /\ CallOK(call[w]) /\ call[w].op # "none"
      /\ Len(call[w].found) < Len(Lookups(call[w])) /\ call[w].got \in DocIds
      /\ p \in Paths /\ p # <<>>
      /\ NextName(w) \in Names /\ call[w].have \in Paths
      /\ Len(call[w].have) < Len(Current(w).path)
  BY <1>1, NextNameType
<1>3. CacheOK'
  BY <1>1, <1>2 DEF TypeInv, CacheOK
<1>4. CASE p = Current(w).path
  <2>1. CallsOK'
    BY <1>1, <1>2, <1>4, FoundStep DEF TypeInv
  <2> QED
    BY <1>1, <1>3, <2>1, NsStays, CountersStay DEF TypeInv, ListsOK
<1>5. CASE p # Current(w).path
  <2> DEFINE c == [call[w] EXCEPT !.have = p, !.at = "ask"]
  <2>1. /\ c \in Call /\ c.at = "ask" /\ c.op = call[w].op /\ c.path = call[w].path
        /\ c.to = call[w].to /\ c.id = call[w].id /\ c.found = call[w].found
        /\ c.have = p /\ c.got = call[w].got
    BY <1>2 DEF Call
  <2>2. Set(w, c) /\ UNCHANGED mu
    BY <1>1, <1>5
  <2> HIDE DEF c
  <2>3. /\ Lookups(c) = Lookups(call[w]) /\ NextLook(c) = NextLook(call[w])
        /\ Current(w) = NextLook(call[w])
    BY <2>1, LookupsSame DEF NextLook, Current
  <2>4. Len(p) < Len(Current(w).path) /\ p = SubSeq(Current(w).path, 1, Len(p))
    <3> DEFINE s == Current(w).path
               n == Len(call[w].have)
    <3>1. s \in Paths /\ call[w].have = SubSeq(s, 1, n)
      BY <1>1, <1>2, <2>3, CurrentType DEF CallOK
    <3>2. s \in Seq(Names) /\ n \in 0 .. 2 /\ Len(s) \in 0 .. 2 /\ n < Len(s)
      BY <1>2, <3>1, PathsAre, PathTypes
    <3>3. p = Append(SubSeq(s, 1, n), s[n + 1])
      BY <3>1 DEF NextName
    <3>4. p = SubSeq(s, 1, n + 1) /\ Len(p) = n + 1 /\ (n + 1 = Len(s) => p = s)
      <4>1. n \in Nat
        BY <3>2
      <4> QED
        BY <3>2, <3>3, <4>1, PrefixAppend
    <3> DEFINE m == Len(s)
    <3>5. n + 1 # m
      BY <1>5, <3>4
    <3>6. n + 1 < m
      <4>1. n \in 0 .. 2 /\ m \in 0 .. 2 /\ n < m
        BY <3>2
      <4> HIDE DEF n, m
      <4> QED
        BY <3>5, <4>1
    <3> QED
      BY <3>4, <3>6
  <2>5. CallOK(c) /\ Holding(c)
    BY <1>1, <1>2, <2>1, <2>3, <2>4 DEF CallOK, Holding
  <2>6. CallsOK'
    BY <1>1, <2>1, <2>2, <2>5, CallStep DEF TypeInv
  <2> QED
    BY <1>1, <1>3, <2>6, NsStays, CountersStay DEF TypeInv, ListsOK
<1> QED
  BY <1>4, <1>5

\* The steps of a call that is done with its lookups.
LEMMA ActingCall ==
  ASSUME TypeInv, NEW w \in Workers, call[w].at \in {"act", "list", "delete", "flush"}
  PROVE  /\ call[w] \in Call /\ CallOK(call[w]) /\ call[w].op # "none" /\ ~ Holding(call[w])
         /\ Len(call[w].found) = Len(Lookups(call[w]))
         /\ call[w].found \in Seq(DocIds \union {NoId})
BY ResultsAre DEF TypeInv, CallsOK, CallOK, Holding, Call, Results

LEMMA ReturnsStep ==
  ASSUME TypeInv, NEW w \in Workers, call[w].at \in {"act", "list", "delete", "flush"}, Return(w),
         UNCHANGED mu
  PROVE  CallsOK'
BY ActingCall, ReturnStep DEF TypeInv

\* What a call found where its lookups say so.
LEMMA ResultIs ==
  ASSUME TypeInv, NEW w \in Workers, call[w].at \in {"act", "list", "delete", "flush"},
         NEW i \in 1 .. Len(Lookups(call[w])), ~ Lookups(call[w])[i].absent
  PROVE  Result(w, i) \in DocIds /\ i \in 1 .. Len(call[w].found)
<1>1. /\ call[w].found \in Seq(DocIds \union {NoId}) /\ i \in 1 .. Len(call[w].found)
      /\ CallOK(call[w])
  BY ActingCall
<1>2. call[w].found[i] \in DocIds \union {NoId}
  BY <1>1, ElementOfSeq
<1>3. call[w].found[i] # NoId
  BY <1>1 DEF CallOK
<1> QED
  BY <1>1, <1>2, <1>3 DEF Result

LEMMA LookupsOf ==
  ASSUME NEW c
  PROVE  /\ c.op \in {"list", "rmdir"} => Lookups(c) = <<Look(c.path, FALSE)>>
         /\ c.op = "mkdir" => Lookups(c) = <<Look(c.path, TRUE)>>
         /\ c.op = "purge" => Lookups(c) = <<Look(c.path, FALSE), Look(Parent(c.path), FALSE)>>
         /\ c.op = "dirmove" => Lookups(c) = <<Look(Parent(c.to), TRUE), Absent(c.to),
                                   Look(Parent(c.path), FALSE), Look(c.path, FALSE)>>
         /\ c.op = "sync-move" => Lookups(c) = <<Look(Parent(c.to), FALSE)>>
BY DEF Lookups

LEMMA LooksAre ==
  ASSUME NEW p, NEW create
  PROVE  /\ ~ Look(p, create).absent /\ Look(p, create).path = p
         /\ Look(p, create).create = create
         /\ Absent(p).absent /\ Absent(p).path = p
BY DEF Look, Absent

\* The results the steps below use.
LEMMA ResultsUsed ==
  ASSUME TypeInv, NEW w \in Workers, call[w].at \in {"act", "list", "delete", "flush"}
  PROVE  /\ call[w].op \in {"list", "mkdir", "rmdir", "purge", "sync-move"} =>
              Result(w, 1) \in DocIds /\ 1 \in 1 .. Len(call[w].found)
         /\ call[w].op = "dirmove" => \A i \in {1, 3, 4} :
              Result(w, i) \in DocIds /\ i \in 1 .. Len(call[w].found)
         /\ call[w].op \in {"rmdir", "purge", "sync-delete-dir"} => Doomed(w) \in DocIds
<1> DEFINE c == call[w]
           L == Lookups(c)
<1>1. ASSUME c.op \in {"list", "mkdir", "rmdir", "purge", "sync-move"}
      PROVE  Result(w, 1) \in DocIds /\ 1 \in 1 .. Len(c.found)
  <2>1. 1 \in 1 .. Len(L) /\ \E p, b : L[1] = Look(p, b)
    <3>1. CASE c.op # "purge"
      <4>1. PICK p, b : L = <<Look(p, b)>>
        BY <1>1, <3>1, LookupsOf
      <4> HIDE DEF L
      <4> QED
        BY <4>1
    <3>2. CASE c.op = "purge"
      <4>1. PICK p, b, q, a : L = <<Look(p, b), Look(q, a)>>
        BY <3>2, LookupsOf, ZenonT(30)
      <4> HIDE DEF L
      <4> QED
        BY <4>1
    <3> QED
      BY <3>1, <3>2
  <2>2. ~ L[1].absent
    BY <2>1, LooksAre
  <2> QED
    BY <2>1, <2>2, ResultIs
<1>2. ASSUME c.op = "dirmove", NEW i \in {1, 3, 4}
      PROVE  Result(w, i) \in DocIds /\ i \in 1 .. Len(c.found)
  <2>1. L = <<Look(Parent(c.to), TRUE), Absent(c.to), Look(Parent(c.path), FALSE),
              Look(c.path, FALSE)>>
    BY <1>2, LookupsOf
  <2> HIDE DEF L
  <2>2. i \in 1 .. Len(L) /\ \E p, b : L[i] = Look(p, b)
    <3>1. Len(L) = 4
      BY <2>1
    <3>2. L[1] = Look(Parent(c.to), TRUE) /\ L[3] = Look(Parent(c.path), FALSE)
          /\ L[4] = Look(c.path, FALSE)
      BY <2>1
    <3>3. i \in 1 .. 4
      BY <1>2
    <3>4. \E p, b : L[i] = Look(p, b)
      <4>1. i = 1 \/ i = 3 \/ i = 4
        BY <1>2
      <4> QED
        BY <3>2, <4>1
    <3> QED
      BY <3>1, <3>3, <3>4
  <2>3. ~ L[i].absent
    BY <2>2, LooksAre
  <2> QED
    BY <2>2, <2>3, ResultIs DEF L
<1>3. ASSUME c.op \in {"rmdir", "purge", "sync-delete-dir"} PROVE Doomed(w) \in DocIds
  <2>1. c.id \in DocIds
    BY ActingCall DEF Call
  <2> QED
    BY <1>1, <1>3, <2>1 DEF Doomed
<1> QED
  BY <1>1, <1>2, <1>3

LEMMA SmallSteps ==
  \A w \in Workers : TypeInv /\ (FinishMkdir(w) \/ RequestFails(w) \/ FinishList(w)) => TypeInv'
<1> SUFFICES ASSUME NEW w \in Workers, TypeInv,
                    FinishMkdir(w) \/ RequestFails(w) \/ FinishList(w)
             PROVE  TypeInv'
  OBVIOUS
<1>1. /\ call[w].at \in {"act", "list", "delete", "flush"} /\ Return(w)
      /\ UNCHANGED <<nsVars, cache, mu, entries, retired, calls, foreign>>
      /\ Fault \/ UNCHANGED faults
  BY DEF FinishMkdir, RequestFails, FinishList, Acting, counters
<1>2. CallsOK'
  BY <1>1, ReturnsStep
<1>3. CountersOK'
  BY <1>1, FaultCounted DEF TypeInv
<1> QED
  BY <1>1, <1>2, <1>3, NsStays DEF TypeInv, CacheOK, ListsOK

LEMMA ListDirStep == \A w \in Workers : TypeInv /\ ListDir(w) => TypeInv'
<1> SUFFICES ASSUME NEW w \in Workers, TypeInv, ListDir(w) PROVE TypeInv'
  OBVIOUS
<1> DEFINE d == Result(w, 1)
           listed == {<<Append(call[w].path, place[x].name), DocId(x)>> :
                        x \in {y \in ChildrenOf(d) : Len(call[w].path) < 2}}
<1>1. /\ call[w].at = "act" /\ call[w].op = "list"
      /\ UNCHANGED <<nsVars, cache, mu, retired, counters>>
      /\ IF Resolves(d) THEN entries' = [entries EXCEPT ![w] = listed] /\ At(w, "list")
         ELSE Return(w) /\ UNCHANGED entries
  BY DEF ListDir, Acting
<1>2. CallsOK'
  <2>1. CASE Resolves(d)
    BY <1>1, <2>1, ActingCall, AtStep DEF TypeInv
  <2>2. CASE ~ Resolves(d)
    BY <1>1, <2>2, ReturnsStep
  <2> QED
    BY <2>1, <2>2
<1>3. listed \subseteq {e \in Paths \X DocIds : e[1] # <<>>}
  <2> SUFFICES ASSUME NEW x \in ChildrenOf(d), Len(call[w].path) < 2
               PROVE  /\ <<Append(call[w].path, place[x].name), DocId(x)>> \in Paths \X DocIds
                      /\ Append(call[w].path, place[x].name) # <<>>
    OBVIOUS
  <2>1. x \in Nodes /\ call[w].path \in Paths
    BY <1>1, ActingCall DEF ChildrenOf, TypeInv, NsTypeOK, Call
  <2>2. place[x].name \in Names /\ DocId(x) \in DocIds
    BY <2>1, PlaceTypes DEF TypeInv
  <2>3. Append(call[w].path, place[x].name) \in Paths
    BY <2>1, <2>2, PathTypes
  <2>4. Append(call[w].path, place[x].name) # <<>>
    BY <2>1, <2>2, PathsAre, AppendIs
  <2> QED
    BY <2>2, <2>3, <2>4
<1> HIDE DEF listed
<1>4. ListsOK'
  BY <1>1, <1>3 DEF TypeInv, ListsOK
<1> QED
  BY <1>1, <1>2, <1>4, NsStays, CountersStay DEF TypeInv, CacheOK

LEMMA PutEntryStep == \A w \in Workers : TypeInv /\ PutEntry(w) => TypeInv'
<1> SUFFICES ASSUME NEW w \in Workers, TypeInv, PutEntry(w) PROVE TypeInv'
  OBVIOUS
<1>1. PICK e \in entries[w] : /\ cache' = [cache EXCEPT ![e[1]] = e[2]]
                              /\ entries' = [entries EXCEPT ![w] = @ \ {e}]
  BY DEF PutEntry
<1>2. UNCHANGED <<nsVars, mu, call, retired, counters>>
  BY DEF PutEntry
<1>3. e[1] \in Paths /\ e[2] \in DocIds /\ e[1] # <<>>
  BY DEF TypeInv, ListsOK
<1>4. ListsOK'
  BY <1>1, <1>2 DEF TypeInv, ListsOK
<1> QED
  BY <1>1, <1>2, <1>3, <1>4, NsStays, CountersStay, CallsStay DEF TypeInv, CacheOK

LEMMA CheckEmptyStep == \A w \in Workers : TypeInv /\ CheckEmpty(w) => TypeInv'
<1> SUFFICES ASSUME NEW w \in Workers, TypeInv, CheckEmpty(w) PROVE TypeInv'
  OBVIOUS
<1>1. /\ call[w].at = "act" /\ call[w].op \in {"rmdir", "sync-delete-dir"}
      /\ At(w, "delete") \/ Return(w)
      /\ UNCHANGED <<nsVars, cache, mu, entries, retired, counters>>
  BY DEF CheckEmpty
<1>2. CallsOK'
  BY <1>1, ActingCall, AtStep, ReturnsStep DEF TypeInv
<1> QED
  BY <1>1, <1>2, NsStays, CountersStay DEF TypeInv, CacheOK, ListsOK

\* A request of a call that may flush the cache.
LEMMA AnsweredStep ==
  ASSUME TypeInv, NEW w \in Workers, call[w].at \in {"act", "delete"},
         call[w].op \notin {"list", "mkdir"},
         Answered(w) \/ Refused(w) \/ (At(w, "flush") /\ UNCHANGED faults),
         UNCHANGED <<mu, calls, foreign>>
  PROVE  CallsOK' /\ CountersOK'
<1>1. /\ At(w, "flush") \/ Return(w)
      /\ Fault \/ UNCHANGED faults
  BY DEF Answered, Refused
<1>2. CallsOK'
  BY <1>1, ActingCall, AtStep, ReturnsStep DEF TypeInv
<1> QED
  BY <1>1, <1>2, FaultCounted DEF TypeInv

LEMMA DeleteDirStep == \A w \in Workers : TypeInv /\ DeleteDir(w) => TypeInv'
<1> SUFFICES ASSUME NEW w \in Workers, TypeInv, DeleteDir(w) PROVE TypeInv'
  OBVIOUS
<1>1. /\ call[w].at = "delete" \/ (call[w].at = "act" /\ call[w].op = "purge")
      /\ IF Resolves(Doomed(w)) THEN Delete(Doomed(w)) /\ Answered(w) ELSE Refused(w)
      /\ UNCHANGED <<cache, mu, entries, retired, calls, foreign>>
  BY DEF DeleteDir, Acting
<1>2. call[w].op \in {"rmdir", "purge", "sync-delete-dir"}
  BY <1>1, ActingCall DEF CallOK
<1>3. CallsOK' /\ CountersOK'
  BY <1>1, <1>2, AnsweredStep
<1>4. NsTypeOK'
  <2>1. Doomed(w) \in DocIds
    BY <1>1, <1>2, ResultsUsed
  <2> QED
    BY <1>1, <2>1, DeleteTypes, NsStays DEF Refused, TypeInv
<1> QED
  BY <1>1, <1>3, <1>4 DEF TypeInv, CacheOK, ListsOK

LEMMA RelocateStep ==
  ASSUME TypeInv, NEW w \in Workers, call[w].at = "act", call[w].op \in {"dirmove", "sync-move"},
         NEW d, NEW from, NEW to \in DocIds, NEW n \in Names, Relocate(w, d, from, to, n),
         UNCHANGED <<mu, calls, foreign>>
  PROVE  CallsOK' /\ CountersOK' /\ NsTypeOK'
<1>1. /\ Answered(w) \/ Refused(w)
      /\ Rename(d, n) \/ Move(d, to, n) \/ UNCHANGED nsVars
  BY DEF Relocate, Refused
<1>2. CallsOK' /\ CountersOK'
  BY <1>1, AnsweredStep
<1> QED
  BY <1>1, <1>2, RenameTypes, MoveTypes, NsStays DEF TypeInv

LEMMA MoveDirStep == \A w \in Workers : TypeInv /\ MoveDir(w) => TypeInv'
<1> SUFFICES ASSUME NEW w \in Workers, TypeInv, MoveDir(w) PROVE TypeInv'
  OBVIOUS
<1> DEFINE c == call[w]
<1>1. /\ c.at = "act" /\ c.op = "dirmove"
      /\ \/ At(w, "flush") /\ UNCHANGED <<nsVars, faults>>
         \/ Relocate(w, Result(w, 4), Result(w, 3), Result(w, 1), Leaf(c.to))
      /\ UNCHANGED <<cache, mu, entries, retired, calls, foreign>>
  BY DEF MoveDir
<1>2. Result(w, 1) \in DocIds
  BY <1>1, ResultsUsed
<1>3. Leaf(c.to) \in Names
  BY <1>1, ActingCall, PathTypes DEF CallOK, Call
<1>4. CallsOK' /\ CountersOK' /\ NsTypeOK'
  <2>1. CASE At(w, "flush") /\ UNCHANGED <<nsVars, faults>>
    BY <1>1, <2>1, AnsweredStep, NsStays DEF TypeInv
  <2>2. CASE Relocate(w, Result(w, 4), Result(w, 3), Result(w, 1), Leaf(c.to))
    BY <1>1, <1>2, <1>3, <2>2, RelocateStep
  <2> QED
    BY <1>1, <2>1, <2>2
<1> QED
  BY <1>1, <1>4 DEF TypeInv, CacheOK, ListsOK

LEMMA SyncMoveStep == \A w \in Workers : TypeInv /\ SyncMove(w) => TypeInv'
<1> SUFFICES ASSUME NEW w \in Workers, TypeInv, SyncMove(w) PROVE TypeInv'
  OBVIOUS
<1> DEFINE c == call[w]
<1>1. /\ c.at = "act" /\ c.op = "sync-move"
      /\ Relocate(w, c.id, Parent(c.id), Result(w, 1), Leaf(c.to))
      /\ retired' \in {retired, retired \union {<<PathOf(Leaf(c.id)), Leaf(c.id), w>>}}
      /\ UNCHANGED <<cache, mu, entries, calls, foreign>>
  BY DEF SyncMove
<1>2. c.to # <<>>
  BY <1>1, ActingCall DEF CallOK
<1>3. TypeInv'
  <2>1. Result(w, 1) \in DocIds
    BY <1>1, ResultsUsed
  <2>2. Leaf(c.to) \in Names
    BY <1>1, <1>2, ActingCall, PathTypes DEF Call
  <2>3. CallsOK' /\ CountersOK' /\ NsTypeOK'
    BY <1>1, <2>1, <2>2, RelocateStep
  <2>4. <<PathOf(Leaf(c.id)), Leaf(c.id), w>> \in Paths \X Nodes \X Workers
    <3>1. c.id \in DocIds /\ c.id # <<>>
      BY <1>1, ActingCall DEF CallOK, Call
    <3>2. Leaf(c.id) \in Nodes
      BY <3>1, IdTypes
    <3> QED
      BY <3>2, PlaceTypes DEF TypeInv
  <2>5. ListsOK'
    BY <1>1, <2>4 DEF TypeInv, ListsOK
  <2> QED
    BY <1>1, <2>3, <2>5 DEF TypeInv, CacheOK
<1> QED
  BY <1>3

LEMMA FlushStaleStep == \A w \in Workers : TypeInv /\ FlushStale(w) => TypeInv'
<1> SUFFICES ASSUME NEW w \in Workers, TypeInv, FlushStale(w) PROVE TypeInv'
  OBVIOUS
<1>1. /\ call[w].at = "flush" /\ Flush(Stale(w)) /\ Return(w)
      /\ UNCHANGED <<nsVars, mu, entries, retired, counters>>
  BY DEF FlushStale
<1>2. CallsOK'
  BY <1>1, ReturnsStep
<1>3. <<>> \notin Stale(w)
  BY DEF Stale, Below
<1>4. <<>> \in Paths
  BY DEF Paths
<1>5. CacheOK'
  BY <1>1, <1>3, <1>4 DEF Flush, CacheOK, TypeInv
<1> QED
  BY <1>1, <1>2, <1>5, NsStays, CountersStay DEF TypeInv, ListsOK

LEMMA ForeignChangeStep == TypeInv /\ ForeignChange => TypeInv'
<1> SUFFICES ASSUME TypeInv, ForeignChange PROVE TypeInv'
  OBVIOUS
<1>1. NsTypeOK'
  <2>1. \A y \in alive : y \in Nodes /\ DocId(y) \in DocIds
    BY PlaceTypes DEF TypeInv, NsTypeOK
  <2>2. \A x \in fresh : x \in Nodes
    BY DEF TypeInv, NsTypeOK
  <2>3. \/ \E d \in DocIds, n \in Names, x \in fresh : Create(d, n, x)
        \/ \E y \in alive : Delete(DocId(y))
        \/ \E y \in alive, n \in Names : Rename(DocId(y), n)
        \/ \E y \in alive, d \in DocIds, n \in Names : Move(DocId(y), d, n)
    BY DEF ForeignChange
  <2> QED
    BY <2>1, <2>2, <2>3, CreateTypes, DeleteTypes, RenameTypes, MoveTypes DEF TypeInv
<1>2. UNCHANGED <<cache, mu, call, entries, retired, calls, faults>>
  BY DEF ForeignChange
<1>3. CountersOK'
  BY <1>2, CallsAssumption DEF ForeignChange, TypeInv, CountersOK
<1> QED
  BY <1>1, <1>2, <1>3, CallsStay DEF TypeInv, CacheOK, ListsOK

LEMMA StutterStep == TypeInv /\ UNCHANGED vars => TypeInv'
<1> SUFFICES ASSUME TypeInv, UNCHANGED vars PROVE TypeInv'
  OBVIOUS
<1>1. UNCHANGED <<nsVars, cache, mu, call, entries, retired, counters>>
  BY DEF vars, nsVars, counters
<1> QED
  BY <1>1, NsStays, CallsStay, CountersStay DEF TypeInv, CacheOK, ListsOK

LEMMA ProceedStep == \A w \in Workers : TypeInv /\ Proceed(w) => TypeInv'
BY BeginLookupStep, AskLeafStep, CreateLeafStep, PutLeafStep, EndLookupsStep, SmallSteps,
   ListDirStep, PutEntryStep, CheckEmptyStep, DeleteDirStep, MoveDirStep, SyncMoveStep,
   FlushStaleStep
   DEF Proceed

LEMMA CallsRest ==
  call = [w \in Workers |-> Idle] /\ mu = NoId => CallsOK
<1> SUFFICES ASSUME call = [w \in Workers |-> Idle], mu = NoId PROVE CallsOK
  OBVIOUS
<1>1. \A w \in Workers : call[w] = Idle
  OBVIOUS
<1> HIDE DEF Idle
<1> QED
  BY <1>1, IdleOK, CallsAssumption DEF CallsOK, MutexOK

LEMMA CacheEmpty ==
  cache = [p \in Paths |-> IF p = <<>> THEN <<>> ELSE NoId] => CacheOK
<1>1. <<>> \in Paths /\ <<>> \in DocIds
  BY DEF Paths, DocIds
<1> QED
  BY <1>1 DEF CacheOK

LEMMA InitialTypes == Init => TypeInv
<1> SUFFICES ASSUME Init PROVE TypeInv
  OBVIOUS
<1>1. CallsOK /\ CacheOK
  BY CallsRest, CacheEmpty DEF Init
<1>2. NsTypeOK
  BY DEF Init, NsInit, NsTypeOK
<1>3. ListsOK /\ CountersOK
  BY CallsAssumption DEF Init, ListsOK, CountersOK
<1> QED
  BY <1>1, <1>2, <1>3 DEF TypeInv

\* Every variable keeps its type, and the mutex of the cache is held by exactly
\* the call that is in a lookup: no path out of a lookup keeps or loses it.
LEMMA DirTypes == Spec => []TypeInv
<1>1. TypeInv /\ [Next]_vars => TypeInv'
  BY BeginStep, ProceedStep, ForeignChangeStep, StutterStep DEF Next, Terminated
<1> QED
  BY <1>1, InitialTypes, PTL DEF Spec

THEOREM DirsTyped == Spec => []TypeOK
BY DirTypes, InvIsTyped, PTL

-----------------------------------------------------------------------------
(* Types of the uploads *)

\* The steps of a worker leave the calls of the others alone, and a call keeps
\* its arguments.
LEMMA OthersStay ==
  ASSUME CallsOK, NEW w \in Workers, Begin(w) \/ Proceed(w)
  PROVE  /\ \A v \in Workers \ {w} : call'[v] = call[v]
         /\ Proceed(w) =>
              \/ call'[w] = Idle
              \/ /\ call'[w].op = call[w].op /\ call'[w].path = call[w].path
                 /\ call'[w].to = call[w].to /\ call'[w].id = call[w].id
<1>1. call \in [Workers -> Call] /\ call[w] \in Call
  BY DEF CallsOK
<1>2. ASSUME Begin(w) PROVE \A v \in Workers \ {w} : call'[v] = call[v]
  BY <1>1, <1>2 DEF Begin, Set
<1> DEFINE Keeps ==
      /\ \A v \in Workers \ {w} : call'[v] = call[v]
      /\ \/ call'[w] = Idle
         \/ /\ call'[w].op = call[w].op /\ call'[w].path = call[w].path
            /\ call'[w].to = call[w].to /\ call'[w].id = call[w].id
<1>3. ASSUME Return(w) PROVE Keeps
  BY <1>1, <1>3 DEF Return, Set
<1>4. ASSUME NEW s, At(w, s) PROVE Keeps
  BY <1>1, <1>4 DEF At, Call
<1>5. ASSUME NEW d, Found(w, d) PROVE Keeps
  <2>1. CASE Set(w, [call[w] EXCEPT !.found = Append(@, d), !.have = <<>>, !.got = NoId,
                                    !.at = "lookup"])
    BY <1>1, <2>1 DEF Set, Call
  <2> QED
    BY <1>3, <1>5, <2>1 DEF Found
<1>6. ASSUME NEW d, Resolved(w, d) PROVE Keeps
  BY <1>1, <1>6 DEF Resolved, Set, Call
<1>7. ASSUME UNCHANGED call PROVE Keeps
  BY <1>7
<1> HIDE DEF Keeps
<1>8. ASSUME BeginLookup(w) PROVE Keeps
  <2> DEFINE q == CachedPrefix(Current(w).path)
  <2>1. CASE Set(w, [call[w] EXCEPT !.have = q, !.got = cache[q], !.at = "ask"])
    BY <1>1, <2>1 DEF Set, Call, Keeps
  <2> QED
    BY <1>5, <1>8, <2>1 DEF BeginLookup
<1>9. ASSUME AskLeaf(w) \/ CreateLeaf(w) PROVE Keeps
  BY <1>3, <1>4, <1>5, <1>6, <1>9 DEF AskLeaf, CreateLeaf, AskFails, LookupFailed
<1>10. ASSUME PutLeaf(w) PROVE Keeps
  <2> DEFINE p == Append(call[w].have, NextName(w))
  <2>1. CASE Set(w, [call[w] EXCEPT !.have = p, !.at = "ask"])
    BY <1>1, <2>1 DEF Set, Call, Keeps
  <2> QED
    BY <1>5, <1>10, <2>1 DEF PutLeaf
<1>11. ASSUME EndLookups(w) \/ FinishMkdir(w) \/ RequestFails(w) \/ ListDir(w) \/ PutEntry(w)
              \/ FinishList(w) \/ CheckEmpty(w) \/ FlushStale(w)
       PROVE  Keeps
  BY <1>3, <1>4, <1>7, <1>11 DEF EndLookups, FinishMkdir, RequestFails, ListDir, PutEntry,
     FinishList, CheckEmpty, FlushStale
<1>12. ASSUME DeleteDir(w) \/ MoveDir(w) \/ SyncMove(w) PROVE Keeps
  BY <1>3, <1>4, <1>12 DEF DeleteDir, MoveDir, SyncMove, Relocate, Answered, Refused
<1>13. Proceed(w) => Keeps
  BY <1>8, <1>9, <1>10, <1>11, <1>12 DEF Proceed
<1> QED
  BY <1>2, <1>13 DEF Keeps

LEMMA FileIdTypes ==
  ASSUME NEW id \in Documents
  PROVE  /\ Parent(id) \in DocIds /\ Dir(Parent(id)) \in Nodes \union {Top}
         /\ id # NoDocument => Leaf(id) \in Files /\ id = Append(Parent(id), Leaf(id))
<1>1. CASE id = NoDocument
  <2>1. <<>> \in Seq(Files)
    OBVIOUS
  <2>2. Parent(id) = <<>> /\ <<>> \in DocIds
    BY <1>1, <2>1, ParentIs DEF NoDocument, DocIds
  <2> QED
    BY <1>1, <2>2, IdTypes
<1>2. CASE id # NoDocument
  <2>1. PICK d \in DocIds, f \in Files : id = Append(d, f)
    BY <1>2 DEF Documents, FileIds
  <2>2. d \in Seq(Nodes \union Files)
    <3>1. d \in Seq(Nodes) /\ \A S : d \in Seq(S) => d \in Seq(S \union Files)
      BY PathsAre
    <3> QED
      BY <3>1
  <2>3. Leaf(id) = f /\ Parent(id) = d
    BY <2>1, <2>2, AppendIs
  <2> QED
    BY <2>1, <2>3, IdTypes
<1> QED
  BY <1>1, <1>2

LEMMA NoUploadType == NoUpload \in Uploads /\ NoState \in States /\ NoDocument \in Documents
BY DEF NoUpload, NoState, Uploads, States, Documents, Paths, DocIds, NoDocument

TargetTypes == TypeInv /\ UploadInv

\* An upload goes on.
LEMMA UploadGoesOn ==
  ASSUME TargetTypes, NEW w \in Workers, NEW u \in Uploads, Put(w, u), CallsOK', UploadOK(u, call'[w]),
         \A v \in Workers \ {w} : call'[v] = call[v]
  PROVE  up' \in [Workers -> Uploads] /\ \A v \in Workers : UploadOK(up'[v], call'[v])
<1>1. /\ up' \in [Workers -> Uploads] /\ up'[w] = u
      /\ \A v \in Workers \ {w} : up'[v] = up[v]
  BY DEF TargetTypes, UploadInv, Put
<1> QED
  BY <1>1 DEF TargetTypes, UploadInv

LEMMA LookForParentStep ==
  ASSUME TypeInv, NEW w \in Workers, NEW p \in Paths, LookForParent(w, p), call[w].op = "none",
         UNCHANGED mu
  PROVE  /\ CallsOK' /\ call'[w].op = "mkdir" /\ call'[w].path = p
         /\ \A v \in Workers \ {w} : call'[v] = call[v]
<1> DEFINE c == [Idle EXCEPT !.op = "mkdir", !.path = p, !.at = "lookup", !.old = Retired]
<1>1. Retired \subseteq Paths \X Nodes
  BY DEF Retired, TypeInv, ListsOK
<1>2. /\ c \in Call /\ c.at = "lookup" /\ c.op = "mkdir" /\ c.path = p /\ c.found = <<>>
  BY <1>1, IdleOK DEF Idle, Call, AllOps
<1>3. Set(w, c)
  BY DEF LookForParent
<1> HIDE DEF c
<1>4. Len(c.found) = 0 /\ 1 .. Len(c.found) = {} /\ 0 <= Len(Lookups(c))
  BY <1>2, LookupsAre
<1>5. CallOK(c) /\ ~ Holding(c)
  BY <1>2, <1>4 DEF CallOK, Holding
<1>6. ~ Holding(call[w])
  BY DEF TypeInv, CallsOK, CallOK, Holding
<1>7. CallsOK'
  BY <1>2, <1>3, <1>5, <1>6, CallStep DEF TypeInv
<1> QED
  BY <1>2, <1>3, <1>7 DEF Set, TypeInv, CallsOK

LEMMA TypesStay ==
  TypeInv /\ CallsOK' /\ UNCHANGED <<nsVars, cache, entries, retired, faults, foreign>>
    /\ (UNCHANGED calls \/ (calls < MaxCalls /\ calls' = calls + 1)) => TypeInv'
<1> SUFFICES ASSUME TypeInv, CallsOK', UNCHANGED <<nsVars, cache, entries, retired, faults, foreign>>,
                    UNCHANGED calls \/ (calls < MaxCalls /\ calls' = calls + 1)
             PROVE  TypeInv'
  OBVIOUS
<1>1. CountersOK'
  BY CallsAssumption DEF TypeInv, CountersOK
<1> QED
  BY <1>1, NsStays DEF TypeInv, CacheOK, ListsOK

LEMMA DirectoryTypes == \A w \in Workers : TargetTypes /\ DirectoryStep(w) => TargetTypes'
<1> SUFFICES ASSUME NEW w \in Workers, TargetTypes, DirectoryStep(w) PROVE TargetTypes'
  OBVIOUS
<1>1. TypeInv'
  BY BeginStep, ProceedStep DEF DirectoryStep, TargetTypes
<1>2. /\ \A v \in Workers \ {w} : call'[v] = call[v]
      /\ up[w].at = "parent" =>
           \/ call'[w] = Idle
           \/ call'[w].op = call[w].op /\ call'[w].path = call[w].path
      /\ up[w].at \in {"none", "parent"}
  BY OthersStay DEF DirectoryStep, TargetTypes, TypeInv
<1>3. UNCHANGED fileVars
  BY DEF DirectoryStep
<1>4. \A v \in Workers : UploadOK(up[v], call[v])
  BY DEF TargetTypes, UploadInv
<1>5. UploadOK(up[w], call'[w])
  <2>1. Idle.op = "none"
    BY DEF Idle
  <2> QED
    BY <1>2, <1>4, <2>1 DEF UploadOK
<1>6. \A v \in Workers : UploadOK(up'[v], call'[v])
  BY <1>2, <1>3, <1>4, <1>5 DEF fileVars
<1> QED
  BY <1>1, <1>3, <1>6 DEF TargetTypes, UploadInv, fileVars

LEMMA BeginUploadTypes == \A w \in Workers : TargetTypes /\ BeginUpload(w) => TargetTypes'
<1> SUFFICES ASSUME NEW w \in Workers, TargetTypes, BeginUpload(w) PROVE TargetTypes'
  OBVIOUS
<1>1. /\ call[w].op = "none" /\ calls < MaxCalls /\ calls' = calls + 1
      /\ UNCHANGED <<nsVars, cache, mu, entries, retired, faults, foreign, home, unused, store,
                     steady>>
  BY DEF BeginUpload
<1>2. call[w] = Idle
  BY <1>1 DEF TargetTypes, TypeInv, CallsOK, CallOK
<1>3. PICK p \in Paths :
        \/ /\ Put(w, [NoUpload EXCEPT !.kind = "put", !.path = p, !.at = "object"])
           /\ UNCHANGED call
        \/ /\ Put(w, [NoUpload EXCEPT !.kind = "chunked", !.path = p, !.at = "parent"])
           /\ LookForParent(w, p)
  BY DEF BeginUpload
<1>4. CASE /\ Put(w, [NoUpload EXCEPT !.kind = "put", !.path = p, !.at = "object"])
           /\ UNCHANGED call
  <2> DEFINE u == [NoUpload EXCEPT !.kind = "put", !.path = p, !.at = "object"]
  <2>1. u \in Uploads /\ u.at = "object"
    BY NoUploadType DEF NoUpload, Uploads
  <2>2. CallsOK'
    BY <1>1, <1>4, CallsStay DEF TargetTypes, TypeInv
  <2>3. Put(w, u) /\ UploadOK(u, call'[w])
    BY <1>2, <1>4, <2>1 DEF UploadOK
  <2> HIDE DEF u
  <2>4. up' \in [Workers -> Uploads] /\ \A v \in Workers : UploadOK(up'[v], call'[v])
    BY <1>4, <2>1, <2>2, <2>3, UploadGoesOn
  <2> QED
    BY <1>1, <2>2, <2>4, TypesStay DEF TargetTypes, UploadInv
<1>5. CASE /\ Put(w, [NoUpload EXCEPT !.kind = "chunked", !.path = p, !.at = "parent"])
           /\ LookForParent(w, p)
  <2> DEFINE u == [NoUpload EXCEPT !.kind = "chunked", !.path = p, !.at = "parent"]
  <2>1. u \in Uploads /\ u.at = "parent" /\ u.path = p
    BY NoUploadType DEF NoUpload, Uploads
  <2>2. /\ CallsOK' /\ call'[w].op = "mkdir" /\ call'[w].path = p
        /\ \A v \in Workers \ {w} : call'[v] = call[v]
    BY <1>1, <1>5, LookForParentStep DEF TargetTypes
  <2>3. Put(w, u) /\ UploadOK(u, call'[w])
    BY <1>5, <2>1, <2>2 DEF UploadOK
  <2> HIDE DEF u
  <2>4. up' \in [Workers -> Uploads] /\ \A v \in Workers : UploadOK(up'[v], call'[v])
    BY <2>1, <2>2, <2>3, UploadGoesOn
  <2> QED
    BY <1>1, <2>2, <2>4, TypesStay DEF TargetTypes, UploadInv
<1> QED
  BY <1>3, <1>4, <1>5

\* What is found at a path has a document ID.
LEMMA FileIdOf ==
  ASSUME TargetTypes, NEW f \in Files, Live(f)
  PROVE  FileId(f) \in FileIds
<1>1. CASE home[f] = Top
  BY <1>1 DEF FileId, FileIds, DocIds
<1>2. CASE home[f] # Top
  <2>1. home[f] \in Nodes
    BY <1>2 DEF Live, TargetTypes, TypeInv, NsTypeOK
  <2>2. DocId(home[f]) \in DocIds
    BY <2>1, PlaceTypes DEF TargetTypes, TypeInv
  <2> QED
    BY <1>2, <2>2 DEF FileId, FileIds
<1> QED
  BY <1>1, <1>2

LEMMA FindObjectTypes == \A w \in Workers : TargetTypes /\ FindObject(w) => TargetTypes'
<1> SUFFICES ASSUME NEW w \in Workers, TargetTypes, FindObject(w) PROVE TargetTypes'
  OBVIOUS
<1>1. /\ up[w].at = "object"
      /\ UNCHANGED <<nsVars, cache, mu, entries, retired, counters, home, unused, store, steady>>
  BY DEF FindObject
<1>2. up[w] \in Uploads /\ call[w] = Idle
  BY <1>1 DEF TargetTypes, UploadInv, UploadOK
<1>3. PICK o \in Documents :
        IF up[w].kind = "put"
        THEN Put(w, [up[w] EXCEPT !.over = o, !.at = "parent"]) /\ LookForParent(w, up[w].path)
        ELSE Put(w, [up[w] EXCEPT !.over = o, !.at = "start"]) /\ UNCHANGED call
  <2> DEFINE found == FilesAt(up[w].path)
             S == IF found = {} THEN {NoDocument} ELSE {FileId(f) : f \in found}
  <2>1. \E o \in S :
          IF up[w].kind = "put"
          THEN Put(w, [up[w] EXCEPT !.over = o, !.at = "parent"]) /\ LookForParent(w, up[w].path)
          ELSE Put(w, [up[w] EXCEPT !.over = o, !.at = "start"]) /\ UNCHANGED call
    BY DEF FindObject
  <2>2. S \subseteq Documents
    BY FileIdOf DEF FilesAt, Documents
  <2> HIDE DEF S
  <2> QED
    BY <2>1, <2>2
<1>4. CASE up[w].kind = "put"
  <2> DEFINE u == [up[w] EXCEPT !.over = o, !.at = "parent"]
  <2>1. u \in Uploads /\ u.at = "parent" /\ u.path = up[w].path
    BY <1>2 DEF Uploads
  <2>2. /\ CallsOK' /\ call'[w].op = "mkdir" /\ call'[w].path = up[w].path
        /\ \A v \in Workers \ {w} : call'[v] = call[v]
    <3>1. call[w].op = "none" /\ up[w].path \in Paths
      BY <1>2 DEF Idle, Uploads
    <3> QED
      BY <1>1, <1>3, <1>4, <3>1, LookForParentStep DEF TargetTypes
  <2>3. Put(w, u) /\ UploadOK(u, call'[w])
    BY <1>3, <1>4, <2>1, <2>2 DEF UploadOK
  <2> HIDE DEF u
  <2>4. up' \in [Workers -> Uploads] /\ \A v \in Workers : UploadOK(up'[v], call'[v])
    BY <2>1, <2>2, <2>3, UploadGoesOn
  <2> QED
    BY <1>1, <2>2, <2>4, TypesStay DEF TargetTypes, UploadInv, counters
<1>5. CASE up[w].kind # "put"
  <2> DEFINE u == [up[w] EXCEPT !.over = o, !.at = "start"]
  <2>1. u \in Uploads /\ u.at = "start"
    BY <1>2 DEF Uploads
  <2>2. CallsOK' /\ UNCHANGED call
    BY <1>1, <1>3, <1>5, CallsStay DEF TargetTypes, TypeInv
  <2>3. Put(w, u) /\ UploadOK(u, call'[w])
    BY <1>2, <1>3, <1>5, <2>1, <2>2 DEF UploadOK
  <2> HIDE DEF u
  <2>4. up' \in [Workers -> Uploads] /\ \A v \in Workers : UploadOK(up'[v], call'[v])
    BY <2>1, <2>2, <2>3, UploadGoesOn
  <2> QED
    BY <1>1, <2>2, <2>4, TypesStay DEF TargetTypes, UploadInv, counters
<1> QED
  BY <1>4, <1>5

LEMMA TakeParentTypes == \A w \in Workers : TargetTypes /\ TakeParent(w) => TargetTypes'
<1> SUFFICES ASSUME NEW w \in Workers, TargetTypes, TakeParent(w) PROVE TargetTypes'
  OBVIOUS
<1> DEFINE u == [up[w] EXCEPT !.parent = Result(w, 1),
                              !.at = IF up[w].kind = "put" THEN "start" ELSE "object"]
<1>1. /\ up[w].at = "parent" /\ call[w].at = "act" /\ call[w].op = "mkdir"
      /\ Put(w, u) /\ Return(w)
      /\ UNCHANGED <<nsVars, cache, mu, entries, retired, counters, home, unused, store, steady>>
  BY DEF TakeParent, Acting
<1>2. Result(w, 1) \in DocIds
  BY <1>1, ResultsUsed DEF TargetTypes
<1>3. u \in Uploads /\ u.at \in {"start", "object"}
  BY <1>2 DEF Uploads, TargetTypes, UploadInv
<1> HIDE DEF u
<1>4. CallsOK'
  BY <1>1, ReturnsStep DEF TargetTypes
<1>5. call'[w] = Idle /\ \A v \in Workers \ {w} : call'[v] = call[v]
  BY <1>1 DEF Return, Set, TargetTypes, TypeInv, CallsOK
<1>6. UploadOK(u, call'[w])
  BY <1>3, <1>5 DEF UploadOK
<1>7. up' \in [Workers -> Uploads] /\ \A v \in Workers : UploadOK(up'[v], call'[v])
  BY <1>1, <1>3, <1>4, <1>5, <1>6, UploadGoesOn
<1> QED
  BY <1>1, <1>4, <1>7, TypesStay DEF TargetTypes, UploadInv, counters

\* The steps of an upload that no call takes part in.
LEMMA TransferTypes ==
  ASSUME TargetTypes, NEW w \in Workers, NEW u \in Uploads, Put(w, u), UNCHANGED vars,
         u.at = "none" \/ (u.at = "end" /\ up[w].at = "start"),
         home' \in [Files -> Nodes \union {Top, NoId}], unused' \subseteq Files,
         store' \in [Paths -> States], UNCHANGED steady
  PROVE  TargetTypes'
<1>1. TypeInv' /\ UNCHANGED call
  BY StutterStep DEF vars, TargetTypes
<1>2. UploadOK(u, call'[w])
  BY <1>1 DEF UploadOK, TargetTypes, UploadInv
<1>3. up' \in [Workers -> Uploads] /\ \A v \in Workers : UploadOK(up'[v], call'[v])
  BY <1>1, <1>2, UploadGoesOn DEF TypeInv
<1> QED
  BY <1>1, <1>3 DEF TargetTypes, UploadInv

LEMMA KeepTypes ==
  ASSUME store \in [Paths -> States], NEW p, NEW s \in States, Keep(p, s)
  PROVE  store' \in [Paths -> States]
BY DEF Keep

LEMMA TransferStep ==
  \A w \in Workers :
    TargetTypes /\ (NoParent(w) \/ Resume(w) \/ Abort(w) \/ Finish(w)) => TargetTypes'
<1> SUFFICES ASSUME NEW w \in Workers, TargetTypes,
                    NoParent(w) \/ Resume(w) \/ Abort(w) \/ Finish(w)
             PROVE  TargetTypes'
  OBVIOUS
<1>0. /\ home \in [Files -> Nodes \union {Top, NoId}] /\ unused \subseteq Files
      /\ store \in [Paths -> States] /\ up[w] \in Uploads /\ NoUpload.at = "none"
      /\ NoUpload \in Uploads
  BY NoUploadType DEF TargetTypes, UploadInv, NoUpload
<1>1. CASE NoParent(w) \/ Abort(w)
  BY <1>0, <1>1, TransferTypes DEF NoParent, Abort, Leave
<1>2. CASE Resume(w)
  <2> DEFINE u == [up[w] EXCEPT !.new = store[up[w].path].new, !.at = "end"]
  <2>1. store[up[w].path] \in States
    BY <1>0 DEF Uploads
  <2>2. u \in Uploads /\ u.at = "end"
    BY <1>0, <2>1 DEF Uploads, States
  <2>3. Put(w, u) /\ up[w].at = "start" /\ UNCHANGED <<vars, home, unused, store, steady>>
    BY <1>2 DEF Resume
  <2> HIDE DEF u
  <2> QED
    BY <1>0, <2>2, <2>3, TransferTypes
<1>3. CASE Finish(w)
  <2>1. up[w].new \in Documents
    BY <1>0 DEF Uploads
  <2>2. Dir(Parent(up[w].new)) \in Nodes \union {Top}
    BY <2>1, FileIdTypes
  <2>3. home' \in [Files -> Nodes \union {Top, NoId}]
    BY <1>0, <1>3, <2>2 DEF Finish
  <2>4. store' \in [Paths -> States]
    BY <1>0, <1>3, KeepTypes, NoUploadType DEF Finish
  <2> QED
    BY <1>0, <1>3, <2>3, <2>4, TransferTypes DEF Finish, Leave
<1> QED
  BY <1>1, <1>2, <1>3

LEMMA TransmitTypes == \A w \in Workers : TargetTypes /\ Transmit(w) => TargetTypes'
<1> SUFFICES ASSUME NEW w \in Workers, TargetTypes, Transmit(w) PROVE TargetTypes'
  OBVIOUS
<1>0. /\ home \in [Files -> Nodes \union {Top, NoId}] /\ unused \subseteq Files
      /\ store \in [Paths -> States] /\ up[w] \in Uploads /\ NoUpload.at = "none"
      /\ NoUpload \in Uploads
  BY NoUploadType DEF TargetTypes, UploadInv, NoUpload
<1>1. up[w].at = "start" /\ UNCHANGED <<vars, home, steady>>
  BY DEF Transmit
<1>2. ASSUME NEW id \in Targets(w),
             unused' = unused \ {Leaf(id)},
             Put(w, [up[w] EXCEPT !.new = id, !.at = "end"]),
             IF up[w].kind = "chunked"
             THEN Keep(up[w].path, [parent |-> up[w].parent, over |-> up[w].over, new |-> id])
             ELSE UNCHANGED store
      PROVE  TargetTypes'
  <2> DEFINE u == [up[w] EXCEPT !.new = id, !.at = "end"]
             s == [parent |-> up[w].parent, over |-> up[w].over, new |-> id]
  <2>1. id \in Documents
    <3>1. up[w].over \in Documents /\ up[w].parent \in DocIds
      BY <1>0 DEF Uploads
    <3>2. CASE up[w].over # NoDocument
      BY <1>2, <3>1, <3>2 DEF Targets
    <3>3. CASE up[w].over = NoDocument
      <4>1. PICK f \in unused : id = Append(up[w].parent, f)
        BY <1>2, <3>3 DEF Targets
      <4>2. f \in Files
        BY <1>0
      <4> QED
        BY <3>1, <4>1, <4>2 DEF Documents, FileIds
    <3> QED
      BY <3>2, <3>3
  <2>2. u \in Uploads /\ u.at = "end" /\ s \in States
    BY <1>0, <2>1 DEF Uploads, States
  <2>3. store' \in [Paths -> States]
    BY <1>0, <1>2, <2>2, KeepTypes
  <2>4. unused' \subseteq Files /\ Put(w, u)
    BY <1>0, <1>2
  <2> HIDE DEF u
  <2> QED
    BY <1>0, <1>1, <2>2, <2>3, <2>4, TransferTypes
<1>3. ASSUME Leave(w), UNCHANGED unused, UNCHANGED store \/ Keep(up[w].path, NoState)
      PROVE  TargetTypes'
  BY <1>0, <1>1, <1>3, KeepTypes, NoUploadType, TransferTypes DEF Leave
<1> QED
  BY <1>2, <1>3 DEF Transmit

LEMMA OtherClientTypes == TargetTypes /\ OtherClient => TargetTypes'
<1> SUFFICES ASSUME TargetTypes, OtherClient PROVE TargetTypes'
  OBVIOUS
<1>1. CASE ForeignChange /\ UNCHANGED <<home, unused, store, up>>
  <2>1. TypeInv' /\ UNCHANGED call
    BY <1>1, ForeignChangeStep DEF TargetTypes, ForeignChange
  <2> QED
    BY <1>1, <2>1 DEF OtherClient, TargetTypes, UploadInv
<1>2. CASE ForeignFile
  <2>1. UNCHANGED <<nsVars, fsVars, calls, faults, store, up>>
    BY <1>2 DEF ForeignFile
  <2>2. CallsOK' /\ CountersOK' /\ NsTypeOK'
    BY <1>2, <2>1, CallsAssumption, CallsStay, NsStays
       DEF ForeignFile, fsVars, TargetTypes, TypeInv, CountersOK
  <2>3. TypeInv'
    BY <2>1, <2>2 DEF fsVars, TargetTypes, TypeInv, CacheOK, ListsOK
  <2>4. home' \in [Files -> Nodes \union {Top, NoId}] /\ unused' \subseteq Files
    <3>1. home \in [Files -> Nodes \union {Top, NoId}] /\ unused \subseteq Files
      BY DEF TargetTypes, UploadInv
    <3>2. ASSUME NEW d \in DocIds, NEW f \in unused, home' = [home EXCEPT ![f] = Dir(d)]
          PROVE  home' \in [Files -> Nodes \union {Top, NoId}]
      BY <3>1, <3>2, IdTypes
    <3>3. ASSUME NEW f \in Files, home' = [home EXCEPT ![f] = NoId]
          PROVE  home' \in [Files -> Nodes \union {Top, NoId}]
      BY <3>1, <3>3
    <3> QED
      BY <1>2, <3>1, <3>2, <3>3 DEF ForeignFile
  <2> QED
    BY <2>1, <2>3, <2>4 DEF OtherClient, TargetTypes, UploadInv, fsVars
<1> QED
  BY <1>1, <1>2 DEF OtherClient

LEMMA RestartTypes == TargetTypes /\ Restart => TargetTypes'
<1> SUFFICES ASSUME TargetTypes, Restart PROVE TargetTypes'
  OBVIOUS
<1>1. CallsOK'
  <2>1. (call = [w \in Workers |-> Idle] /\ mu = NoId => CallsOK)'
    BY CallsRest, PTL
  <2> QED
    BY <2>1 DEF Restart
<1>2. CacheOK'
  <2>1. (cache = [p \in Paths |-> IF p = <<>> THEN <<>> ELSE NoId] => CacheOK)'
    BY CacheEmpty, PTL
  <2> QED
    BY <2>1 DEF Restart
<1>3. ListsOK'
  BY DEF Restart, ListsOK
<1>4. NsTypeOK' /\ CountersOK'
  BY NsStays, CountersStay DEF Restart, TargetTypes, TypeInv
<1>5. /\ up' \in [Workers -> Uploads]
      /\ \A w \in Workers : UploadOK(up'[w], call'[w])
  BY NoUploadType DEF Restart, UploadOK, NoUpload
<1> QED
  BY <1>1, <1>2, <1>3, <1>4, <1>5 DEF Restart, TargetTypes, TypeInv, UploadInv

LEMMA TargetTyped == TargetSpec => []TargetTypes
<1>1. TargetInit => TargetTypes
  <2> SUFFICES ASSUME TargetInit PROVE TargetTypes
    OBVIOUS
  <2>1. TypeInv
    BY InitialTypes DEF TargetInit
  <2>2. home \in [Files -> Nodes \union {Top, NoId}]
    BY <2>1 DEF TargetInit, TypeInv, NsTypeOK
  <2>3. up \in [Workers -> Uploads] /\ \A w \in Workers : UploadOK(up[w], call[w])
    BY NoUploadType DEF TargetInit, UploadOK, NoUpload
  <2> QED
    BY <2>1, <2>2, <2>3, NoUploadType DEF TargetInit, TargetTypes, UploadInv
<1>2. TargetTypes /\ [TargetNext]_allVars => TargetTypes'
  <2> SUFFICES ASSUME TargetTypes, [TargetNext]_allVars PROVE TargetTypes'
    OBVIOUS
  <2>1. CASE UNCHANGED vars /\ UNCHANGED fileVars
    BY <2>1, StutterStep DEF vars, fileVars, TargetTypes, UploadInv
  <2> QED
    BY <2>1, DirectoryTypes, BeginUploadTypes, FindObjectTypes, TakeParentTypes, TransferStep,
       TransmitTypes, OtherClientTypes, RestartTypes
       DEF TargetNext, UploadStep, Terminated, allVars
<1> QED
  BY <1>1, <1>2, PTL DEF TargetSpec

-----------------------------------------------------------------------------
(* The instance *)

\* A behaviour of the instance is one of each component, one of them at rest.
THEOREM FilesCompose == FilesSpec => FileSpec /\ TargetSpec
<1>1. FilesInit => FileInit /\ TargetInit
  BY DEF FilesInit, TargetRests
<1>2. [FilesNext]_filesVars => [FileNext]_opVars /\ [TargetNext]_allVars
  BY DEF FilesNext, filesVars
<1> QED
  BY <1>1, <1>2, PTL DEF FilesSpec, FileSpec, TargetSpec

-----------------------------------------------------------------------------
(* Where the directories are *)

\* An ID and the path of the directory it names, spelled out.
LEMMA IsAtForms ==
  ASSUME NsTypeOK, NEW d, NEW p
  PROVE  IsAt(d, p) <=>
           \/ d = <<>> /\ p = <<>>
           \/ \E x \in alive : /\ place[x].up = Top
                               /\ d = <<x>> /\ p = <<place[x].name>>
           \/ \E x \in alive : /\ place[x].up # Top
                               /\ d = <<place[x].up, x>>
                               /\ p = <<place[place[x].up].name, place[x].name>>
<1>1. CASE d = <<>>
  BY <1>1 DEF IsAt, Resolves
<1>2. CASE d # <<>>
  <2>1. ASSUME IsAt(d, p) PROVE \E x \in alive : d = DocId(x) /\ p = PathOf(x)
    BY <1>2, <2>1 DEF IsAt, Resolves
  <2>2. ASSUME NEW x \in alive, d = DocId(x), p = PathOf(x) PROVE IsAt(d, p)
    <3>1. Leaf(d) = x
      BY <2>2, PlaceTypes DEF NsTypeOK
    <3> QED
      BY <1>2, <2>2, <3>1 DEF IsAt, Resolves
  <2> QED
    BY <1>2, <2>1, <2>2 DEF DocId, PathOf
<1> QED
  BY <1>1, <1>2

LEMMA IsAtTypes ==
  ASSUME NsTypeOK, NEW d, NEW p, IsAt(d, p)
  PROVE  d \in DocIds /\ p \in Paths /\ (d = <<>> <=> p = <<>>)
<1>1. CASE d = <<>>
  BY <1>1 DEF IsAt, DocIds, Paths
<1>2. CASE d # <<>>
  <2>1. PICK x \in Nodes : d = DocId(x) /\ p = PathOf(x)
    BY <1>2 DEF IsAt, Resolves, NsTypeOK
  <2> QED
    BY <1>2, <2>1, PlaceTypes
<1> QED
  BY <1>1, <1>2

\* A name is unambiguous in its directory, so a path leads to one directory.
LEMMA OneIsAt ==
  ASSUME NsTypeOK, TreeOK, NEW d, NEW e, NEW p, IsAt(d, p), IsAt(e, p)
  PROVE  d = e
<1>1. ASSUME NEW x \in alive PROVE place[x] \in Place /\ x \in Nodes
  BY DEF NsTypeOK
<1>2. ASSUME NEW x \in alive, NEW y \in alive, place[x].up = place[y].up,
             place[x].name = place[y].name
      PROVE  x = y
  <2>1. place[x] = place[y]
    BY <1>1, <1>2 DEF Place
  <2> QED
    BY <2>1 DEF TreeOK
<1>3. CASE p = <<>>
  BY <1>3, IsAtTypes
<1>4. CASE \E n : p = <<n>>
  <2>1. PICK n : p = <<n>>
    BY <1>4
  <2>2. PICK x \in alive : place[x].up = Top /\ d = <<x>> /\ n = place[x].name
    BY <2>1, IsAtForms
  <2>3. PICK y \in alive : place[y].up = Top /\ e = <<y>> /\ n = place[y].name
    BY <2>1, IsAtForms
  <2> QED
    BY <1>2, <2>2, <2>3
<1>5. CASE \E m, n : p = <<m, n>>
  <2>1. PICK m, n : p = <<m, n>>
    BY <1>5
  <2>2. PICK x \in alive : /\ place[x].up # Top /\ d = <<place[x].up, x>>
                           /\ m = place[place[x].up].name /\ n = place[x].name
    BY <2>1, IsAtForms
  <2>3. PICK y \in alive : /\ place[y].up # Top /\ e = <<place[y].up, y>>
                           /\ m = place[place[y].up].name /\ n = place[y].name
    BY <2>1, IsAtForms
  <2>4. place[x].up = place[y].up
    BY <1>2, <2>2, <2>3 DEF TreeOK
  <2> QED
    BY <1>2, <2>2, <2>3, <2>4
<1> QED
  BY <1>3, <1>4, <1>5, IsAtForms

LEMMA Pairs ==
  ASSUME NEW x, NEW y
  PROVE  /\ Leaf(<<x>>) = x /\ Parent(<<x>>) = <<>> /\ Len(<<x>>) = 1
         /\ Leaf(<<y, x>>) = x /\ Parent(<<y, x>>) = <<y>> /\ Len(<<y, x>>) = 2
         /\ Append(<<y>>, x) = <<y, x>> /\ Append(<<>>, x) = <<x>>
<1> DEFINE S == {x, y}
<1>1. <<>> \in Seq(S) /\ <<y>> \in Seq(S) /\ x \in S /\ y \in S
  OBVIOUS
<1>2. Append(<<y>>, x) = <<y, x>>
  <2> DEFINE a == Append(<<y>>, x)
             b == <<y, x>>
  <2>1. a \in Seq(S) /\ b \in Seq(S) /\ Len(b) = 2 /\ b[1] = y /\ b[2] = x
    BY <1>1
  <2>2. Len(<<y>>) = 1 /\ <<y>>[1] = y
    OBVIOUS
  <2>3. /\ Len(a) = Len(<<y>>) + 1 /\ a[Len(<<y>>) + 1] = x
        /\ \A i \in 1 .. Len(<<y>>) : a[i] = <<y>>[i]
    BY <1>1, AppendProperties
  <2> HIDE DEF a, b
  <2>4. Len(a) = 2 /\ a[1] = y /\ a[2] = x
    BY <2>2, <2>3
  <2>5. \A i \in 1 .. 2 : i = 1 \/ i = 2
    OBVIOUS
  <2>6. a = b
    BY <2>1, <2>4, <2>5, SeqEqual
  <2> QED
    BY <2>6 DEF a, b
<1>4. Append(<<>>, x) = <<x>>
  <2> DEFINE a == Append(<<>>, x)
             b == <<x>>
  <2>1. a \in Seq(S) /\ b \in Seq(S) /\ Len(b) = 1 /\ b[1] = x
    BY <1>1
  <2>2. Len(a) = Len(<<>>) + 1 /\ a[Len(<<>>) + 1] = x
    BY <1>1, AppendProperties
  <2>3. Len(<<>>) = 0
    BY EmptySeq
  <2> HIDE DEF a, b
  <2>4. Len(a) = 1 /\ a[1] = x
    BY <2>2, <2>3
  <2>5. \A i \in 1 .. 1 : i = 1
    OBVIOUS
  <2>6. a = b
    BY <2>1, <2>4, <2>5, SeqEqual
  <2> QED
    BY <2>6 DEF a, b
<1> HIDE DEF S
<1>3. /\ Leaf(Append(<<>>, x)) = x /\ Parent(Append(<<>>, x)) = <<>>
      /\ Leaf(Append(<<y>>, x)) = x /\ Parent(Append(<<y>>, x)) = <<y>>
  BY <1>1, AppendIs
<1> QED
  BY <1>2, <1>3, <1>4

\* The directories in a directory, and the one above it.
LEMMA ChildIsAt ==
  ASSUME NsTypeOK, TreeOK, NEW d, NEW p, IsAt(d, p), NEW x \in ChildrenOf(d)
  PROVE  /\ DocId(x) = Append(d, x) /\ Len(d) < 2
         /\ IsAt(DocId(x), Append(p, place[x].name))
<1>1. x \in alive /\ place[x].up = Dir(d) /\ x \in Nodes
  BY DEF ChildrenOf, NsTypeOK
<1>2. CASE d = <<>>
  <2>1. p = <<>> /\ place[x].up = Top
    BY <1>1, <1>2 DEF IsAt, Dir
  <2>2. DocId(x) = <<x>>
    BY <2>1 DEF DocId
  <2> QED
    BY <1>1, <1>2, <2>1, <2>2, IsAtForms
<1>3. CASE d # <<>>
  <2>1. Leaf(d) \in alive /\ DocId(Leaf(d)) = d /\ place[x].up = Leaf(d)
    BY <1>1, <1>3 DEF IsAt, Resolves, Dir
  <2>2. Leaf(d) # Top
    BY <2>1, TopAssumption DEF NsTypeOK
  <2>3. place[Leaf(d)].up = Top
    BY <1>1, <2>1, <2>2 DEF TreeOK
  <2>4. d = <<Leaf(d)>> /\ p = <<place[Leaf(d)].name>>
    BY <1>3, <2>1, <2>3 DEF DocId, IsAt, PathOf
  <2>5. DocId(x) = <<Leaf(d), x>> /\ PathOf(x) = <<place[Leaf(d)].name, place[x].name>>
    BY <2>1, <2>2 DEF DocId, PathOf
  <2>6. DocId(x) = Append(d, x) /\ Append(p, place[x].name) = PathOf(x) /\ Len(d) < 2
    <3> DEFINE z == Leaf(d)
               m == place[z].name
               n == place[x].name
    <3>1. d = <<z>> /\ p = <<m>> /\ DocId(x) = <<z, x>> /\ PathOf(x) = <<m, n>>
      BY <2>4, <2>5
    <3> HIDE DEF z, m, n
    <3>2. Len(d) < 2 /\ Append(d, x) = <<z, x>> /\ Append(p, n) = <<m, n>>
      <4>1. Len(<<z>>) = 1
        OBVIOUS
      <4>2. Append(<<z>>, x) = <<z, x>> /\ Append(<<m>>, n) = <<m, n>>
        BY Pairs
      <4> QED
        BY <3>1, <4>1, <4>2
    <3> QED
      BY <3>1, <3>2 DEF n
  <2>7. IsAt(DocId(x), PathOf(x))
    BY <1>1, <2>1, <2>2, <2>5, IsAtForms
  <2> QED
    BY <2>6, <2>7
<1> QED
  BY <1>2, <1>3

LEMMA ParentIsAt ==
  ASSUME NsTypeOK, TreeOK, NEW d, NEW p, IsAt(d, p), d # <<>>
  PROVE  /\ IsAt(Parent(d), Parent(p)) /\ Leaf(d) \in ChildrenOf(Parent(d))
         /\ Leaf(d) \in alive /\ Leaf(d) \in Nodes
         /\ place[Leaf(d)].up = Dir(Parent(d)) /\ place[Leaf(d)].name = Leaf(p)
<1>1. Leaf(d) \in alive /\ Leaf(d) \in Nodes
  BY DEF IsAt, Resolves, NsTypeOK
<1>2. CASE \E x \in alive : place[x].up = Top /\ d = <<x>> /\ p = <<place[x].name>>
  <2>1. PICK x \in alive : place[x].up = Top /\ d = <<x>> /\ p = <<place[x].name>>
    BY <1>2
  <2>2. Leaf(d) = x /\ Leaf(p) = place[x].name /\ Parent(d) = <<>> /\ Parent(p) = <<>>
    BY <2>1 DEF Leaf, Parent
  <2>3. Dir(Parent(d)) = Top
    BY <2>2 DEF Dir
  <2> QED
    BY <1>1, <2>1, <2>2, <2>3, IsAtForms DEF ChildrenOf
<1>3. CASE \E x \in alive : /\ place[x].up # Top /\ d = <<place[x].up, x>>
                            /\ p = <<place[place[x].up].name, place[x].name>>
  <2>1. PICK x \in alive : /\ place[x].up # Top /\ d = <<place[x].up, x>>
                           /\ p = <<place[place[x].up].name, place[x].name>>
    BY <1>3
  <2> DEFINE y == place[x].up
             m == place[y].name
             n == place[x].name
  <2>2. y \in alive /\ place[y].up = Top
    BY <2>1 DEF TreeOK
  <2>3. d = <<y, x>> /\ p = <<m, n>>
    BY <2>1
  <2> HIDE DEF y, m, n
  <2>4. Leaf(d) = x /\ Leaf(p) = n /\ Parent(d) = <<y>> /\ Parent(p) = <<m>>
    BY <2>3, Pairs
  <2>5. Dir(Parent(d)) = y
    BY <2>4 DEF Dir, Leaf
  <2>6. IsAt(<<y>>, <<m>>)
    BY <2>2, IsAtForms DEF m
  <2> QED
    BY <1>1, <2>4, <2>5, <2>6 DEF ChildrenOf, y, n
<1> QED
  BY <1>2, <1>3, IsAtForms

\* What a step leaves in its place keeps its path.
Grows == \A d, p : IsAt(d, p) => IsAt(d, p)'

LEMMA SameTree == UNCHANGED nsVars => Grows /\ (TreeOK => TreeOK')
BY DEF Grows, IsAt, Resolves, PathOf, DocId, TreeOK, nsVars

\* A directory and the one above it, while neither is touched, stay at the path.
LEMMA PlacesStay ==
  ASSUME NsTypeOK, NsTypeOK', TreeOK, NEW d, NEW p, IsAt(d, p),
         d # <<>> => \A x \in alive : x = Leaf(d) \/ (Len(d) = 2 /\ x = place[Leaf(d)].up) =>
                       x \in alive' /\ place'[x] = place[x]
  PROVE  IsAt(d, p)'
<1>1. CASE d = <<>>
  BY <1>1 DEF IsAt, Resolves
<1>2. CASE \E x \in alive : place[x].up = Top /\ d = <<x>> /\ p = <<place[x].name>>
  <2>1. PICK x \in alive : place[x].up = Top /\ d = <<x>> /\ p = <<place[x].name>>
    BY <1>2
  <2>2. Leaf(d) = x /\ d # <<>>
    BY <2>1, Pairs
  <2>3. x \in alive' /\ place'[x] = place[x]
    BY <2>1, <2>2
  <2>4. DocId(x)' = d /\ PathOf(x)' = p
    BY <2>1, <2>3 DEF DocId, PathOf
  <2> QED
    BY <2>2, <2>3, <2>4 DEF IsAt, Resolves
<1>3. CASE \E x \in alive : /\ place[x].up # Top /\ d = <<place[x].up, x>>
                            /\ p = <<place[place[x].up].name, place[x].name>>
  <2>1. PICK x \in alive : /\ place[x].up # Top /\ d = <<place[x].up, x>>
                           /\ p = <<place[place[x].up].name, place[x].name>>
    BY <1>3
  <2> DEFINE y == place[x].up
  <2>2. Leaf(d) = x /\ d # <<>> /\ Len(d) = 2 /\ y \in alive
    BY <2>1, Pairs DEF TreeOK
  <2>3. x \in alive' /\ place'[x] = place[x] /\ place'[y] = place[y]
    BY <2>1, <2>2
  <2>4. DocId(x)' = d /\ PathOf(x)' = p
    BY <2>1, <2>3 DEF DocId, PathOf
  <2> QED
    BY <2>2, <2>3, <2>4 DEF IsAt, Resolves
<1> QED
  BY <1>1, <1>2, <1>3, IsAtForms

\* The same of the state after a step.
ChildrenPlaced == \A d, p, x :
    NsTypeOK /\ TreeOK /\ IsAt(d, p) /\ x \in ChildrenOf(d) =>
        DocId(x) = Append(d, x) /\ IsAt(DocId(x), Append(p, place[x].name))

LEMMA ChildrenPlacedNext == ChildrenPlaced'
<1>1. ChildrenPlaced
  BY ChildIsAt DEF ChildrenPlaced
<1> QED
  BY <1>1, PTL

\* The IDs that may be given to a new directory's parent.
LEMMA ParentAlive ==
  ASSUME NsTypeOK, TreeOK, NEW d, Resolves(d), Len(d) < 2
  PROVE  Dir(d) = Top \/ (Dir(d) \in alive /\ place[Dir(d)].up = Top)
<1>1. CASE d = <<>>
  BY <1>1 DEF Dir
<1>2. CASE d # <<>>
  <2>1. Leaf(d) \in alive /\ d = DocId(Leaf(d))
    BY <1>2 DEF Resolves
  <2>2. place[Leaf(d)].up = Top \/ Len(d) = 2
    BY <2>1, Pairs DEF DocId
  <2> QED
    BY <1>2, <2>1, <2>2 DEF Dir
<1> QED
  BY <1>1, <1>2

\* Creating a directory moves no other, and it is where it was asked for.
LEMMA CreateGrows ==
  ASSUME NsTypeOK, TreeOK, NEW d, NEW n \in Names, NEW x, CanCreate(d, n), Create(d, n, x)
  PROVE  /\ TreeOK' /\ Grows
         /\ \A p : IsAt(d, p) => IsAt(Append(d, x), Append(p, n))'
         /\ NsTypeOK'
<1>0. x \in fresh /\ x \in Nodes /\ x \notin alive /\ Resolves(d) /\ Len(d) < 2 /\ Free(d, n)
  BY DEF Create, CanCreate, NsTypeOK
<1>1. NsTypeOK'
  <2>1. d \in DocIds
    <3>1. CASE d = <<>>
      BY <3>1 DEF DocIds
    <3>2. CASE d # <<>>
      BY <1>0, <3>2, PlaceTypes DEF Resolves, NsTypeOK
    <3> QED
      BY <3>1, <3>2
  <2> QED
    BY <1>0, <2>1, CreateTypes
<1>2. /\ alive' = alive \union {x} /\ place'[x] = [up |-> Dir(d), name |-> n]
      /\ \A y \in alive : place'[y] = place[y]
  BY <1>0 DEF Create, NsTypeOK
<1>3. Dir(d) = Top \/ (Dir(d) \in alive /\ place[Dir(d)].up = Top)
  BY <1>0, ParentAlive
<1>4. Grows
  BY <1>1, <1>2, PlacesStay DEF Grows
<1>5. TreeOK'
  <2>1. ASSUME NEW y \in alive', place'[y].up # Top
        PROVE  place'[y].up \in alive' /\ place'[place'[y].up].up = Top
    <3>1. CASE y = x
      BY <1>2, <1>3, <2>1, <3>1
    <3>2. CASE y \in alive
      <4>1. place[y].up \in alive /\ place[place[y].up].up = Top
        BY <1>2, <2>1, <3>2 DEF TreeOK
      <4> QED
        BY <1>2, <3>2, <4>1
    <3> QED
      BY <1>2, <3>1, <3>2
  <2>2. ASSUME NEW y \in alive PROVE place[y] # [up |-> Dir(d), name |-> n]
    BY <1>0 DEF Free, ChildrenOf
  <2>3. ASSUME NEW y \in alive', NEW z \in alive', place'[y] = place'[z] PROVE y = z
    BY <1>2, <2>2, <2>3 DEF TreeOK
  <2> QED
    BY <2>1, <2>3 DEF TreeOK
<1>6. ASSUME NEW p, IsAt(d, p) PROVE IsAt(Append(d, x), Append(p, n))'
  <2>1. IsAt(d, p)'
    BY <1>4, <1>6 DEF Grows
  <2>2. x \in ChildrenOf(d)' /\ place'[x].name = n
    BY <1>2 DEF ChildrenOf
  <2>3. DocId(x)' = Append(d, x) /\ IsAt(DocId(x), Append(p, place[x].name))'
    BY <1>1, <1>5, <2>1, <2>2, ChildrenPlacedNext DEF ChildrenPlaced
  <2>4. IsAt(DocId(x), Append(p, place[x].name))' <=> IsAt(Append(d, x), Append(p, n))'
    BY <2>2, <2>3 DEF IsAt
  <2> QED
    BY <2>3, <2>4
<1> QED
  BY <1>1, <1>4, <1>5, <1>6

LEMMA BelowHas ==
  /\ \A p \in Paths : p # <<>> => p \in Below(p)
  /\ \A m, n \in Names : <<m, n>> \in Below(<<m>>)
<1>1. ASSUME NEW p \in Paths, p # <<>> PROVE p \in Below(p)
  <2>1. p \in Seq(Names) /\ Len(p) \in Nat
    BY PathsAre, LenProperties
  <2>2. SubSeq(p, 1, Len(p)) = p
    BY <2>1, SubSeqFull
  <2> DEFINE k == Len(p)
  <2>3. k >= k
    <3> HIDE DEF k
    <3> QED
      BY <2>1 DEF k
  <2> QED
    BY <1>1, <2>2, <2>3 DEF Below
<1>2. ASSUME NEW m \in Names, NEW n \in Names PROVE <<m, n>> \in Below(<<m>>)
  <2>1. Parent(<<m, n>>) = <<m>> /\ Len(<<m, n>>) = 2 /\ Len(<<m>>) = 1
    BY Pairs
  <2>2. SubSeq(<<m, n>>, 1, 1) = <<m>>
    BY <2>1 DEF Parent
  <2>3. <<m, n>> \in Paths /\ <<m, n>> # <<>>
    BY DEF Paths
  <2> QED
    BY <2>1, <2>2, <2>3 DEF Below
<1> QED
  BY <1>1, <1>2

\* What happens to a directory and to those in it is seen at its path and below.
LEMMA OthersPlaced ==
  ASSUME NsTypeOK, NsTypeOK', TreeOK, NEW d, NEW p, IsAt(d, p), d # <<>>,
         \A x \in alive : x = Leaf(d) \/ x \in ChildrenOf(d)
                          \/ (x \in alive' /\ place'[x] = place[x]),
         NEW e, NEW q, IsAt(e, q), q \notin Below(p)
  PROVE  IsAt(e, q)'
<1>1. Leaf(d) \in alive /\ d = DocId(Leaf(d)) /\ p \in Paths /\ p # <<>>
  BY IsAtTypes DEF IsAt, Resolves
<1> DEFINE z == Leaf(d)
<1>2. ASSUME NEW x \in alive, e # <<>>, x = Leaf(e) \/ (Len(e) = 2 /\ x = place[Leaf(e)].up)
      PROVE  x # z /\ x \notin ChildrenOf(d)
  <2>1. Leaf(e) \in alive /\ e = DocId(Leaf(e)) /\ q = PathOf(Leaf(e)) /\ q \in Paths
    BY <1>2, IsAtTypes DEF IsAt, Resolves
  <2>2. Leaf(e) # z
    <3>1. SUFFICES ASSUME Leaf(e) = z PROVE FALSE
      OBVIOUS
    <3>2. q = p
      BY <1>1, <2>1, <3>1 DEF IsAt
    <3> QED
      BY <1>1, <3>2, BelowHas
  <2>3. Leaf(e) \notin ChildrenOf(d)
    <3>1. SUFFICES ASSUME Leaf(e) \in ChildrenOf(d) PROVE FALSE
      OBVIOUS
    <3>2. place[Leaf(e)].up = z /\ z \in alive /\ z # Top
      BY <1>1, <3>1, TopAssumption DEF ChildrenOf, Dir, NsTypeOK
    <3>3. place[z].up = Top
      BY <2>1, <3>2 DEF TreeOK
    <3>4. p = <<place[z].name>> /\ q = <<place[z].name, place[Leaf(e)].name>>
      BY <1>1, <2>1, <3>2, <3>3 DEF IsAt, PathOf
    <3>5. place[z].name \in Names /\ place[Leaf(e)].name \in Names
      BY <2>1, <3>2 DEF NsTypeOK, Place
    <3> QED
      BY <3>4, <3>5, BelowHas
  <2>4. ASSUME Len(e) = 2, x = place[Leaf(e)].up PROVE x # z /\ x \notin ChildrenOf(d)
    <3>1. place[Leaf(e)].up # Top
      BY <2>1, <2>4, Pairs DEF DocId
    <3>2. place[x].up = Top
      BY <2>1, <2>4, <3>1 DEF TreeOK
    <3>3. x # z
      BY <1>1, <2>1, <2>3, <2>4 DEF ChildrenOf, Dir
    <3>4. x \notin ChildrenOf(d)
      BY <1>1, <3>2, TopAssumption DEF ChildrenOf, Dir, NsTypeOK
    <3> QED
      BY <3>3, <3>4
  <2> QED
    BY <1>2, <2>2, <2>3, <2>4
<1> QED
  BY <1>2, PlacesStay

\* What another directory keeps when the one at p is removed or relocated.
GoneOnly(p) == \A e, q : IsAt(e, q) /\ q \notin Below(p) => IsAt(e, q)'

LEMMA DeleteMoves ==
  ASSUME NsTypeOK, TreeOK, NEW d, d # <<>>, Resolves(d), Delete(d)
  PROVE  /\ TreeOK' /\ NsTypeOK'
         /\ \A p : IsAt(d, p) => GoneOnly(p)
<1>1. d \in DocIds /\ Leaf(d) \in alive /\ d = DocId(Leaf(d)) /\ Leaf(d) \in Nodes
  BY PlaceTypes DEF Resolves, NsTypeOK
<1>2. NsTypeOK'
  BY <1>1, DeleteTypes
<1> DEFINE gone == {Leaf(d)} \union ChildrenOf(d)
<1>3. /\ alive' = alive \ gone
      /\ \A x \in alive' : place'[x] = place[x]
  BY DEF Delete, NsTypeOK
<1>4. ASSUME NEW x \in alive', place'[x].up # Top
      PROVE  place'[x].up \in alive' /\ place'[place'[x].up].up = Top
  <2>1. x \in alive /\ x \notin gone /\ place'[x] = place[x]
    BY <1>3
  <2> DEFINE y == place[x].up
  <2>2. y \in alive /\ place[y].up = Top
    BY <1>4, <2>1 DEF TreeOK
  <2>3. y # Leaf(d) /\ Leaf(d) # Top
    BY <1>1, <2>1, TopAssumption DEF ChildrenOf, Dir
  <2>4. y \notin gone
    BY <2>2, <2>3 DEF ChildrenOf, Dir
  <2> QED
    BY <1>3, <2>1, <2>2, <2>4
<1>5. TreeOK'
  BY <1>3, <1>4 DEF TreeOK
<1>6. ASSUME NEW p, IsAt(d, p) PROVE GoneOnly(p)
  <2>1. \A x \in alive : x = Leaf(d) \/ x \in ChildrenOf(d)
                         \/ (x \in alive' /\ place'[x] = place[x])
    BY <1>3
  <2> QED
    BY <1>2, <1>6, <2>1, OthersPlaced DEF GoneOnly
<1> QED
  BY <1>2, <1>5, <1>6

\* A directory that is given a free name in another place takes along what is in
\* it, and nothing else moves.
LEMMA RelocateMoves ==
  ASSUME NsTypeOK, TreeOK, NEW d, d # <<>>, Resolves(d), NEW n \in Names,
         NEW to, Resolves(to), Free(to, n),
         to = <<>> \/ (Len(to) = 1 /\ Empty(d) /\ Leaf(to) # Leaf(d)),
         place' = [place EXCEPT ![Leaf(d)] = [up |-> Dir(to), name |-> n]],
         UNCHANGED <<alive, fresh>>
  PROVE  /\ TreeOK' /\ NsTypeOK'
         /\ \A p : IsAt(d, p) => GoneOnly(p)
         /\ \A q : IsAt(to, q) => PathOf(Leaf(d))' = Append(q, n)
<1> DEFINE z == Leaf(d)
           y == Leaf(to)
<1>1. z \in alive /\ d = DocId(z) /\ z \in Nodes /\ z # Top
  BY TopAssumption DEF Resolves, NsTypeOK
<1>2. \/ to = <<>> /\ Dir(to) = Top
      \/ /\ to = <<y>> /\ Dir(to) = y /\ y \in alive /\ y \in Nodes /\ y # z /\ y # Top
         /\ place[y].up = Top /\ Empty(d)
  <2>1. CASE to = <<>>
    BY <2>1 DEF Dir
  <2>2. CASE to # <<>>
    <3>1. y \in alive /\ to = DocId(y) /\ Dir(to) = y /\ y # z /\ Len(to) = 1 /\ Empty(d)
      BY <2>2 DEF Resolves, Dir
    <3>2. place[y].up = Top /\ to = <<y>>
      BY <3>1, Pairs DEF DocId
    <3> QED
      BY <3>1, <3>2, TopAssumption DEF NsTypeOK
  <2> QED
    BY <2>1, <2>2
<1>3. NsTypeOK'
  <2>1. [up |-> Dir(to), name |-> n] \in Place
    BY <1>2 DEF Place
  <2> QED
    BY <2>1 DEF NsTypeOK
<1>4. /\ place'[z] = [up |-> Dir(to), name |-> n]
      /\ \A x \in Nodes : x # z => place'[x] = place[x]
      /\ alive' = alive
  BY <1>1 DEF NsTypeOK
<1>5. ASSUME NEW x \in alive, place'[x].up # Top
      PROVE  place'[x].up \in alive /\ place'[place'[x].up].up = Top
  <2>1. CASE x = z
    BY <1>2, <1>4, <1>5, <2>1
  <2>2. CASE x # z
    <3>1. x \in Nodes /\ place'[x] = place[x]
      BY <1>4, <2>2 DEF NsTypeOK
    <3>2. place[x].up \in alive /\ place[place[x].up].up = Top /\ place[x].up \in Nodes
      BY <1>5, <3>1 DEF TreeOK, NsTypeOK
    <3>3. CASE place[x].up = z
      <4>1. x \in ChildrenOf(d)
        BY <3>3 DEF ChildrenOf, Dir
      <4>2. Dir(to) = Top
        BY <1>2, <4>1 DEF Empty
      <4> QED
        BY <1>1, <1>4, <3>1, <3>3, <4>2
    <3> QED
      BY <1>4, <3>1, <3>2, <3>3
  <2> QED
    BY <2>1, <2>2
<1>6. ASSUME NEW x \in alive, NEW v \in alive, place'[x] = place'[v], x # v PROVE FALSE
  <2>1. ASSUME NEW u \in alive, u # z PROVE place'[u] # [up |-> Dir(to), name |-> n]
    <3>1. place'[u] = place[u]
      BY <1>4, <2>1 DEF NsTypeOK
    <3> QED
      BY <3>1 DEF Free, ChildrenOf
  <2>2. x # z /\ v # z
    BY <1>4, <1>6, <2>1
  <2> QED
    BY <1>4, <1>6, <2>2 DEF TreeOK, NsTypeOK
<1>7. TreeOK'
  BY <1>4, <1>5, <1>6 DEF TreeOK
<1>8. ASSUME NEW p, IsAt(d, p) PROVE GoneOnly(p)
  <2>1. \A x \in alive : x = z \/ x \in ChildrenOf(d) \/ (x \in alive' /\ place'[x] = place[x])
    BY <1>4 DEF NsTypeOK
  <2> QED
    BY <1>3, <1>8, <2>1, OthersPlaced DEF GoneOnly
<1>9. ASSUME NEW q, IsAt(to, q) PROVE PathOf(z)' = Append(q, n)
  <2>1. CASE to = <<>> /\ Dir(to) = Top
    <3>1. q = <<>> /\ PathOf(z)' = <<n>>
      BY <1>4, <1>9, <2>1 DEF IsAt, PathOf
    <3> QED
      BY <3>1, Pairs
  <2>2. CASE /\ to = <<y>> /\ Dir(to) = y /\ y \in alive /\ y \in Nodes /\ y # z /\ y # Top
             /\ place[y].up = Top
    <3>1. q = <<place[y].name>>
      BY <1>9, <2>2 DEF IsAt, PathOf
    <3>2. PathOf(z)' = <<place[y].name, n>>
      BY <1>4, <2>2 DEF PathOf
    <3> QED
      BY <3>1, <3>2, Pairs
  <2> QED
    BY <1>2, <2>1, <2>2
<1> QED
  BY <1>3, <1>7, <1>8, <1>9

LEMMA MoveMoves ==
  ASSUME NsTypeOK, TreeOK, NEW d, d # <<>>, NEW to, NEW n \in Names,
         CanMove(d, to, n), Move(d, to, n)
  PROVE  /\ TreeOK' /\ NsTypeOK'
         /\ \A p : IsAt(d, p) => GoneOnly(p)
         /\ \A q : IsAt(to, q) => PathOf(Leaf(d))' = Append(q, n)
BY RelocateMoves DEF CanMove, Move

LEMMA RenameMoves ==
  ASSUME NsTypeOK, TreeOK, NEW d, d # <<>>, NEW n \in Names, CanRename(d, n), Rename(d, n)
  PROVE  /\ TreeOK' /\ NsTypeOK'
         /\ \A p : IsAt(d, p) => GoneOnly(p)
         /\ \A q : IsAt(Parent(d), q) => PathOf(Leaf(d))' = Append(q, n)
<1> DEFINE z == Leaf(d)
           to == Parent(d)
<1>1. IsAt(d, PathOf(z)) /\ Resolves(d) /\ Free(to, n)
  BY DEF CanRename, IsAt
<1>2. IsAt(to, Parent(PathOf(z))) /\ z \in alive /\ z \in Nodes /\ place[z].up = Dir(to)
  BY <1>1, ParentIsAt
<1>3. Resolves(to)
  BY <1>2 DEF IsAt
<1>4. to = <<>> \/ (Len(to) = 1 /\ Empty(d) /\ Leaf(to) # z)
  <2>1. SUFFICES ASSUME to # <<>> PROVE Len(to) = 1 /\ Empty(d) /\ Leaf(to) # z
    OBVIOUS
  <2>2. Dir(to) = Leaf(to) /\ Leaf(to) \in alive /\ Leaf(to) # Top /\ Leaf(to) \in Nodes
    BY <1>3, <2>1, TopAssumption DEF Dir, Resolves, NsTypeOK
  <2>3. place[Leaf(to)].up = Top /\ to = DocId(Leaf(to))
    BY <1>2, <1>3, <2>1, <2>2 DEF TreeOK, Resolves
  <2>4. Len(to) = 1
    BY <2>3, Pairs DEF DocId
  <2>5. Leaf(to) # z
    BY <1>2, <2>2, <2>3
  <2>6. Empty(d)
    <3>1. SUFFICES ASSUME NEW x \in ChildrenOf(d) PROVE FALSE
      BY DEF Empty
    <3>2. x \in alive /\ place[x].up = z /\ z # Top
      BY <1>2, TopAssumption DEF ChildrenOf, Dir
    <3> QED
      BY <1>2, <2>2, <3>2 DEF TreeOK
  <2> QED
    BY <2>4, <2>5, <2>6
<1>5. place' = [place EXCEPT ![z] = [up |-> Dir(to), name |-> n]]
  <2>1. place[z] \in Place
    BY <1>2 DEF NsTypeOK
  <2>2. [place[z] EXCEPT !.name = n] = [up |-> Dir(to), name |-> n]
    BY <1>2, <2>1 DEF Place
  <2> QED
    BY <2>2 DEF Rename
<1> QED
  BY <1>1, <1>3, <1>4, <1>5, RelocateMoves DEF Rename

-----------------------------------------------------------------------------
(* Steps of a call that take nothing away *)

CacheTrue == \A p \in Paths : cache[p] # NoId => IsAt(cache[p], p)

\* What such a step leaves behind.
Learned(w) ==
    /\ TreeOK' /\ Grows /\ KnowsDirs(w)' /\ CacheTrue'
    /\ call[w].at # "flush" /\ call'[w].at # "flush"

LEMMA KnowsNext ==
  ASSUME NEW w, NEW c, call'[w] = c, c.at # "list", KnowsCall(c)'
  PROVE  KnowsDirs(w)'
BY DEF KnowsDirs, KnowsCall, KnowsFound, IsAt, Leaves, ChildrenOf, Resolves, DocId, PathOf

LEMMA FoundGrows == ASSUME Grows, NEW c, KnowsFound(c) PROVE KnowsFound(c)'
BY DEF Grows, KnowsFound

LEMMA IdleKnows == KnowsCall(Idle)' /\ Idle.at = "idle"
BY DEF KnowsCall, Idle

LEMMA ReturnKnows ==
  ASSUME CallsOK, NEW w \in Workers, Return(w)
  PROVE  KnowsDirs(w)' /\ call'[w].at # "flush"
<1>1. call'[w] = Idle
  BY DEF CallsOK, Return, Set
<1> HIDE DEF Idle
<1> QED
  BY <1>1, IdleKnows, KnowsNext

LEMMA CacheGrows == CacheTrue /\ Grows /\ UNCHANGED cache => CacheTrue'
BY DEF CacheTrue, Grows

\* A lookup that ends hands over what it found.
LEMMA FoundKnows ==
  ASSUME TypeInv, NEW w \in Workers, NEW d \in DocIds \union {NoId}, Found(w, d), Grows,
         KnowsFound(call[w]), call[w].op # "none",
         Len(call[w].found) < Len(Lookups(call[w])),
         d # NoId => \E p : p = Current(w).path /\ IsAt(d, p)'
  PROVE  KnowsDirs(w)' /\ call'[w].at # "flush"
<1>1. call[w] \in Call /\ CallOK(call[w]) /\ call[w].found \in Results
  BY DEF TypeInv, CallsOK, Call, Results
<1>2. CASE Return(w)
  BY <1>2, ReturnKnows DEF TypeInv
<1>3. CASE Set(w, [call[w] EXCEPT !.found = Append(@, d), !.have = <<>>, !.got = NoId,
                                  !.at = "lookup"])
  <2> DEFINE k == Len(call[w].found)
  <2>1. k \in Nat /\ k < 4
    BY <1>1, NextLookType
  <2>2. PICK b, c : /\ b = call[w]
                    /\ c = [call[w] EXCEPT !.found = Append(@, d), !.have = <<>>, !.got = NoId,
                                           !.at = "lookup"]
    OBVIOUS
  <2>3. /\ Len(c.found) = k + 1 /\ c.found[k + 1] = d
        /\ \A i \in 1 .. k : c.found[i] = b.found[i]
        /\ c.at = "lookup"
    <3>1. c.found = Append(b.found, d) /\ c.at = "lookup"
      BY <1>1, <2>2 DEF Call
    <3> QED
      BY <1>1, <2>1, <2>2, <3>1, ResultsAppend
  <2>4. call'[w] = c
    BY <1>3, <2>2 DEF Set, TypeInv, CallsOK
  <2>5. Lookups(c) = Lookups(b)
    <3>1. c.op = b.op /\ c.path = b.path /\ c.to = b.to /\ c.id = b.id
      BY <1>1, <2>2 DEF Call
    <3> QED
      BY <3>1, LookupsSame
  <2>6. \A i \in 1 .. k + 1 : i \in 1 .. k \/ i = k + 1
    <3> HIDE DEF k
    <3> QED
      BY <2>1
  <2>7. \A i \in 1 .. k : b.found[i] # NoId => IsAt(b.found[i], Lookups(b)[i].path)'
    BY <2>2 DEF KnowsFound, Grows
  <2>8. PICK p : p = Current(w).path
    OBVIOUS
  <2>9. d # NoId => IsAt(d, p)'
    BY <2>8
  <2>10. Lookups(b)[k + 1].path = p
    BY <2>2, <2>8 DEF Current
  <2>11. \A i \in 1 .. k + 1 : c.found[i] # NoId => IsAt(c.found[i], Lookups(c)[i].path)'
    BY <2>3, <2>5, <2>6, <2>7, <2>9, <2>10
  <2>12. KnowsCall(c)'
    BY <2>3, <2>11 DEF KnowsCall, KnowsFound
  <2> QED
    BY <2>3, <2>4, <2>12, KnowsNext
<1> QED
  BY <1>2, <1>3 DEF Found

\* A call goes on with what it has found.
LEMMA GoesOn ==
  ASSUME TypeInv, NEW w \in Workers, NEW c, call'[w] = c, Grows, KnowsFound(call[w]),
         c.op = call[w].op, c.path = call[w].path, c.to = call[w].to, c.id = call[w].id,
         c.found = call[w].found, c.at \notin {"list", "flush"},
         c.at \in {"ask", "create"} => IsAt(c.got, c.have)',
         c.at = "put" => IsAt(c.got, Append(c.have, NameOf(c)))',
         c.at = "create" => NextLook(c).create /\ Leaves(c.got, NameOf(c))' = {}
  PROVE  KnowsDirs(w)' /\ call'[w].at # "flush"
<1>1. PICK b : b = call[w]
  OBVIOUS
<1>2. Lookups(c) = Lookups(b)
  BY <1>1, LookupsSame
<1>3. KnowsFound(c)
  BY <1>1, <1>2 DEF KnowsFound
<1>4. KnowsFound(c)'
  BY <1>3, FoundGrows
<1>5. KnowsCall(c)'
  BY <1>4 DEF KnowsCall, Leaves, ChildrenOf
<1> QED
  BY <1>5, KnowsNext

LEMMA FaultSeen == CountersOK /\ Fault => faults' # faults
BY CallsAssumption DEF CountersOK, Fault

LEMMA BeginKnows ==
  ASSUME TypeInv, TreeOK, CacheTrue, NEW w \in Workers, Begin(w)
  PROVE  Learned(w)
<1>1. UNCHANGED <<nsVars, cache>> /\ call[w].op = "none" /\ call[w].at = "idle"
  BY DEF Begin, TypeInv, CallsOK, CallOK
<1>2. TreeOK' /\ Grows /\ CacheTrue'
  BY <1>1, SameTree, CacheGrows
<1>3. PICK op, a :
        call'[w] = [Idle EXCEPT !.op = op, !.path = a.path, !.to = a.to, !.id = a.id,
                                !.at = "lookup", !.old = Retired]
  BY ZenonT(30) DEF Begin, Set, TypeInv, CallsOK
<1>4. PICK c : c = [Idle EXCEPT !.op = op, !.path = a.path, !.to = a.to, !.id = a.id,
                                !.at = "lookup", !.old = Retired]
  OBVIOUS
<1>5. c.at = "lookup" /\ c.found = <<>> /\ call'[w] = c
  BY <1>3, <1>4 DEF Idle
<1>6. \A i \in 1 .. Len(<<>>) : FALSE
  <2>1. Len(<<>>) = 0
    BY EmptySeq
  <2> QED
    BY <2>1
<1>7. KnowsCall(c)'
  BY <1>5, <1>6 DEF KnowsCall, KnowsFound
<1>8. KnowsDirs(w)' /\ call'[w].at # "flush"
  BY <1>5, <1>7, KnowsNext
<1> QED
  BY <1>1, <1>2, <1>8 DEF Learned

\* What a call in its lookups knows.
LEMMA LookingCall ==
  ASSUME TypeInv, NEW w \in Workers, KnowsDirs(w), call[w].at \in {"lookup", "ask", "create", "put"}
  PROVE  /\ KnowsFound(call[w]) /\ call[w] \in Call /\ CallOK(call[w]) /\ call[w].op # "none"
         /\ NextName(w) = NameOf(call[w]) /\ Current(w) = NextLook(call[w])
BY DEF KnowsDirs, KnowsCall, TypeInv, CallsOK, CallOK, NextName, NameOf, Current, NextLook

LEMMA EndLookupsKnows ==
  ASSUME TypeInv, TreeOK, CacheTrue, NEW w \in Workers, KnowsDirs(w), EndLookups(w)
  PROVE  Learned(w)
<1>1. UNCHANGED <<nsVars, cache>> /\ call[w].at = "lookup" /\ At(w, "act")
  BY DEF EndLookups
<1>2. TreeOK' /\ Grows /\ CacheTrue'
  BY <1>1, SameTree, CacheGrows
<1>3. KnowsFound(call[w]) /\ call[w] \in Call
  BY <1>1, LookingCall
<1>4. PICK c : c = [call[w] EXCEPT !.at = "act"]
  OBVIOUS
<1>5. /\ c.op = call[w].op /\ c.path = call[w].path /\ c.to = call[w].to /\ c.id = call[w].id
      /\ c.found = call[w].found /\ c.at = "act" /\ call'[w] = c
  BY <1>1, <1>3, <1>4 DEF At, Call, TypeInv, CallsOK
<1>6. KnowsDirs(w)' /\ call'[w].at # "flush"
  BY <1>2, <1>3, <1>5, GoesOn
<1> QED
  BY <1>1, <1>2, <1>6 DEF Learned

LEMMA BeginLookupKnows ==
  ASSUME TypeInv, TreeOK, CacheTrue, NEW w \in Workers, KnowsDirs(w), BeginLookup(w)
  PROVE  Learned(w)
<1> DEFINE p == Current(w).path
           q == CachedPrefix(p)
<1>1. /\ UNCHANGED <<nsVars, cache>> /\ call[w].at = "lookup"
      /\ Len(call[w].found) < Len(Lookups(call[w]))
      /\ IF q = p THEN Found(w, cache[p])
         ELSE Set(w, [call[w] EXCEPT !.have = q, !.got = cache[q], !.at = "ask"])
  BY DEF BeginLookup
<1>2. TreeOK' /\ Grows /\ CacheTrue'
  BY <1>1, SameTree, CacheGrows
<1>3. KnowsFound(call[w]) /\ call[w] \in Call /\ call[w].op # "none" /\ p \in Paths
  BY <1>1, LookingCall, CurrentType
<1>4. q \in Paths /\ cache[q] \in DocIds /\ cache[q] # NoId /\ IsAt(cache[q], q)
  BY <1>3, CachedPrefixIs, TopAssumption DEF TypeInv, CacheTrue
<1>5. PICK d, r : d = cache[q] /\ r = q
  OBVIOUS
<1>6. IsAt(d, r)' /\ d \in DocIds
  BY <1>2, <1>4, <1>5 DEF Grows
<1>7. ASSUME q = p PROVE KnowsDirs(w)' /\ call'[w].at # "flush"
  BY <1>1, <1>2, <1>3, <1>5, <1>6, <1>7, FoundKnows
<1>8. ASSUME q # p PROVE KnowsDirs(w)' /\ call'[w].at # "flush"
  <2>1. PICK c : c = [call[w] EXCEPT !.have = q, !.got = cache[q], !.at = "ask"]
    OBVIOUS
  <2>2. /\ c.op = call[w].op /\ c.path = call[w].path /\ c.to = call[w].to /\ c.id = call[w].id
        /\ c.found = call[w].found /\ c.at = "ask" /\ c.got = d /\ c.have = r /\ call'[w] = c
    BY <1>1, <1>3, <1>5, <1>8, <2>1 DEF Set, Call, TypeInv, CallsOK
  <2>3. IsAt(c.got, c.have)'
    BY <1>6, <2>2
  <2> QED
    BY <1>2, <1>3, <2>2, <2>3, GoesOn
<1>9. KnowsDirs(w)' /\ call'[w].at # "flush"
  BY <1>7, <1>8
<1> QED
  BY <1>1, <1>2, <1>9 DEF Learned

LEMMA NameSame ==
  ASSUME NEW b, NEW c, c.op = b.op, c.path = b.path, c.to = b.to, c.id = b.id, c.found = b.found,
         c.have = b.have
  PROVE  NextLook(c) = NextLook(b) /\ NameOf(c) = NameOf(b)
<1>1. Lookups(c) = Lookups(b)
  BY LookupsSame
<1> QED
  BY <1>1 DEF NextLook, NameOf

\* A lookup learns where the next component is.
LEMMA ResolvedKnows ==
  ASSUME TypeInv, NEW w \in Workers, KnowsFound(call[w]), Holding(call[w]), Grows,
         NEW d, Resolved(w, d),
         \E p : p = Append(call[w].have, NextName(w)) /\ IsAt(d, p)'
  PROVE  KnowsDirs(w)' /\ call'[w].at # "flush"
<1>1. call[w] \in Call
  BY DEF TypeInv, CallsOK
<1>2. PICK b, c : b = call[w] /\ c = [call[w] EXCEPT !.got = d, !.at = "put"]
  OBVIOUS
<1>3. /\ c.op = b.op /\ c.path = b.path /\ c.to = b.to /\ c.id = b.id
      /\ c.found = b.found /\ c.have = b.have /\ c.got = d /\ c.at = "put"
  BY <1>1, <1>2 DEF Call
<1>4. call'[w] = c
  BY <1>2 DEF Resolved, Set, TypeInv, CallsOK
<1>5. NameOf(c) = NameOf(b) /\ NameOf(b) = NextName(w)
  <2>1. NameOf(c) = NameOf(b)
    BY <1>3, NameSame
  <2>2. NameOf(b) = NextName(w)
    BY <1>2 DEF NameOf, NextLook, NextName, Current
  <2> QED
    BY <2>1, <2>2
<1>6. PICK p : p = Append(c.have, NameOf(c)) /\ IsAt(d, p)'
  BY <1>2, <1>3, <1>5
<1>7. IsAt(c.got, Append(c.have, NameOf(c)))'
  BY <1>3, <1>6
<1> QED
  BY <1>2, <1>3, <1>4, <1>7, GoesOn

LEMMA AskLeafKnows ==
  ASSUME TypeInv, TreeOK, CacheTrue, NEW w \in Workers, KnowsDirs(w), AskLeaf(w), UNCHANGED faults
  PROVE  Learned(w)
<1> DEFINE d == call[w].got
           n == NextName(w)
           leaves == Leaves(d, n)
<1>1. call[w].at = "ask" /\ UNCHANGED <<cache, nsVars>>
  BY DEF AskLeaf, AskFails
<1>2. TreeOK' /\ Grows /\ CacheTrue'
  BY <1>1, SameTree, CacheGrows
<1>3. /\ KnowsFound(call[w]) /\ call[w] \in Call /\ CallOK(call[w]) /\ call[w].op # "none"
      /\ n = NameOf(call[w]) /\ Current(w) = NextLook(call[w]) /\ Holding(call[w])
      /\ Len(call[w].found) < Len(Lookups(call[w]))
  BY <1>1, LookingCall DEF Holding, CallOK
<1>4. IsAt(d, call[w].have) /\ Resolves(d)
  BY <1>1 DEF KnowsDirs, KnowsCall, IsAt
<1>5. ~ AskFails(w, FALSE)
  BY FaultSeen DEF AskFails, TypeInv
<1>6. \/ \E x \in leaves : Resolved(w, DocId(x))
      \/ leaves = {} /\ Current(w).create /\ At(w, "create")
      \/ Found(w, NoId)
  BY <1>4, <1>5 DEF AskLeaf
<1>7. ASSUME NEW x \in leaves, Resolved(w, DocId(x))
      PROVE  KnowsDirs(w)' /\ call'[w].at # "flush"
  <2>1. x \in ChildrenOf(d) /\ place[x].name = n
    BY <1>7 DEF Leaves
  <2>2. IsAt(DocId(x), Append(call[w].have, n))
    BY <1>4, <2>1, ChildIsAt DEF TypeInv
  <2>3. PICK e, p : e = DocId(x) /\ p = Append(call[w].have, n)
    OBVIOUS
  <2>4. IsAt(e, p)'
    BY <1>2, <2>2, <2>3 DEF Grows
  <2> QED
    BY <1>2, <1>3, <1>7, <2>3, <2>4, ResolvedKnows
<1>8. ASSUME leaves = {}, Current(w).create, At(w, "create")
      PROVE  KnowsDirs(w)' /\ call'[w].at # "flush"
  <2>1. PICK b, c : b = call[w] /\ c = [call[w] EXCEPT !.at = "create"]
    OBVIOUS
  <2>2. /\ c.op = b.op /\ c.path = b.path /\ c.to = b.to /\ c.id = b.id
        /\ c.found = b.found /\ c.have = b.have /\ c.got = b.got /\ c.at = "create"
    BY <1>3, <2>1 DEF Call
  <2>3. call'[w] = c
    BY <1>8, <2>1 DEF At, TypeInv, CallsOK
  <2>4. NextLook(c) = NextLook(b) /\ NameOf(c) = NameOf(b)
    BY <2>2, NameSame
  <2>5. IsAt(c.got, c.have) /\ Leaves(c.got, NameOf(c)) = {}
    BY <1>3, <1>4, <1>8, <2>1, <2>2, <2>4
  <2>6. IsAt(c.got, c.have)' /\ Leaves(c.got, NameOf(c))' = {}
    <3>1. Leaves(c.got, NameOf(c))' = Leaves(c.got, NameOf(c))
      BY <1>1 DEF Leaves, ChildrenOf, nsVars
    <3> QED
      BY <1>2, <2>5, <3>1 DEF Grows
  <2>7. NextLook(c).create
    BY <1>3, <1>8, <2>1, <2>4
  <2> QED
    BY <1>2, <1>3, <2>1, <2>2, <2>3, <2>6, <2>7, GoesOn
<1>9. ASSUME Found(w, NoId) PROVE KnowsDirs(w)' /\ call'[w].at # "flush"
  BY <1>2, <1>3, <1>9, FoundKnows
<1>10. KnowsDirs(w)' /\ call'[w].at # "flush"
  BY <1>6, <1>7, <1>8, <1>9
<1> QED
  BY <1>1, <1>2, <1>10 DEF Learned

LEMMA CreateLeafKnows ==
  ASSUME TypeInv, TreeOK, CacheTrue, NEW w \in Workers, KnowsDirs(w), CreateLeaf(w),
         UNCHANGED faults
  PROVE  Learned(w)
<1> DEFINE d == call[w].got
           n == NextName(w)
<1>1. call[w].at = "create" /\ UNCHANGED cache
  BY DEF CreateLeaf
<1>2. /\ KnowsFound(call[w]) /\ call[w] \in Call /\ call[w].op # "none" /\ Holding(call[w])
      /\ n \in Names
  BY <1>1, LookingCall, NextNameType DEF Holding
<1>3. IsAt(d, call[w].have)
  BY <1>1 DEF KnowsDirs, KnowsCall
<1>4. ~ AskFails(w, FALSE) /\ ~ Fault
  BY FaultSeen DEF AskFails, TypeInv
<1>5. \/ \E x \in fresh : CanCreate(d, n) /\ Create(d, n, x) /\ Resolved(w, Append(d, x))
      \/ AskFails(w, TRUE)
  BY <1>4 DEF CreateLeaf
<1>6. ASSUME NEW x \in fresh, CanCreate(d, n), Create(d, n, x), Resolved(w, Append(d, x))
      PROVE  Learned(w)
  <2>2. PICK b, e, m : b = call[w].have /\ e = d /\ m = n
    OBVIOUS
  <2>1. TreeOK' /\ Grows /\ \A p : IsAt(e, p) => IsAt(Append(e, x), Append(p, m))'
    BY <1>2, <1>6, <2>2, CreateGrows DEF TypeInv
  <2>3. IsAt(Append(e, x), Append(b, m))'
    BY <1>3, <2>1, <2>2
  <2>4. KnowsDirs(w)' /\ call'[w].at # "flush"
    BY <1>2, <1>6, <2>1, <2>2, <2>3, ResolvedKnows
  <2> QED
    BY <1>1, <2>1, <2>4, CacheGrows DEF Learned
<1>7. ASSUME AskFails(w, TRUE) PROVE Learned(w)
  <2>1. UNCHANGED nsVars /\ Return(w)
    BY <1>7 DEF AskFails, LookupFailed
  <2> QED
    BY <1>1, <2>1, SameTree, CacheGrows, ReturnKnows DEF Learned, TypeInv
<1> QED
  BY <1>5, <1>6, <1>7

LEMMA PutLeafKnows ==
  ASSUME TypeInv, TreeOK, CacheTrue, NEW w \in Workers, KnowsDirs(w), PutLeaf(w)
  PROVE  Learned(w)
<1> DEFINE c == call[w]
           p == Append(c.have, NextName(w))
<1>1. /\ c.at = "put" /\ UNCHANGED nsVars /\ cache' = [cache EXCEPT ![p] = c.got]
      /\ \/ p = Current(w).path /\ Found(w, c.got)
         \/ Set(w, [c EXCEPT !.have = p, !.at = "ask"])
  BY DEF PutLeaf
<1>2. TreeOK' /\ Grows
  BY <1>1, SameTree
<1>3. /\ KnowsFound(c) /\ c \in Call /\ CallOK(c) /\ c.op # "none"
      /\ Len(c.found) < Len(Lookups(c)) /\ c.got \in DocIds
  BY <1>1, LookingCall DEF Holding, CallOK
<1>4. IsAt(c.got, p)
  BY <1>1, LookingCall DEF KnowsDirs, KnowsCall
<1>5. PICK d, q : d = c.got /\ q = p
  OBVIOUS
<1>6. IsAt(d, q)'
  BY <1>2, <1>4, <1>5 DEF Grows
<1>7. CacheTrue'
  <2>1. \A r \in Paths : cache'[r] = IF r = q THEN d ELSE cache[r]
    BY <1>1, <1>5 DEF TypeInv, CacheOK
  <2> QED
    BY <1>2, <1>6, <2>1 DEF CacheTrue, Grows
<1>8. ASSUME p = Current(w).path, Found(w, c.got)
      PROVE  KnowsDirs(w)' /\ call'[w].at # "flush"
  BY <1>2, <1>3, <1>5, <1>6, <1>8, FoundKnows
<1>9. ASSUME Set(w, [c EXCEPT !.have = p, !.at = "ask"])
      PROVE  KnowsDirs(w)' /\ call'[w].at # "flush"
  <2>1. PICK b : b = [c EXCEPT !.have = p, !.at = "ask"]
    OBVIOUS
  <2>2. /\ b.op = c.op /\ b.path = c.path /\ b.to = c.to /\ b.id = c.id
        /\ b.found = c.found /\ b.have = q /\ b.got = d /\ b.at = "ask" /\ call'[w] = b
    BY <1>3, <1>5, <1>9, <2>1 DEF Call, Set, TypeInv, CallsOK
  <2>3. IsAt(b.got, b.have)'
    BY <1>6, <2>2
  <2> QED
    BY <1>2, <1>3, <2>2, <2>3, GoesOn
<1>10. KnowsDirs(w)' /\ call'[w].at # "flush"
  BY <1>1, <1>8, <1>9
<1> QED
  BY <1>1, <1>2, <1>7, <1>10 DEF Learned

\* Where the directories are that a call found.
LEMMA FoundPlaces ==
  ASSUME TypeInv, NEW w \in Workers, KnowsDirs(w), call[w].at \in {"act", "delete"}
  PROVE  /\ call[w].op \in {"list", "mkdir", "rmdir", "purge"} => IsAt(Result(w, 1), call[w].path)
         /\ call[w].op = "sync-move" => IsAt(Result(w, 1), Parent(call[w].to))
         /\ call[w].op = "dirmove" => /\ IsAt(Result(w, 1), Parent(call[w].to))
                                      /\ IsAt(Result(w, 3), Parent(call[w].path))
                                      /\ IsAt(Result(w, 4), call[w].path)
<1> DEFINE c == call[w]
           L == Lookups(c)
<1>1. KnowsFound(c)
  BY DEF KnowsDirs, KnowsCall
<1>2. ASSUME NEW i \in 1 .. Len(c.found), Result(w, i) \in DocIds
      PROVE  IsAt(Result(w, i), L[i].path)
  BY <1>1, <1>2, TopAssumption DEF KnowsFound, Result
<1>3. ASSUME c.op \in {"list", "mkdir", "rmdir", "purge"} PROVE IsAt(Result(w, 1), c.path)
  <2>1. L[1].path = c.path
    <3>1. CASE c.op # "purge"
      <4>1. PICK b : L = <<Look(c.path, b)>>
        BY <1>3, <3>1, LookupsOf
      <4> QED
        BY <4>1, LooksAre
    <3>2. CASE c.op = "purge"
      <4>1. L = <<Look(c.path, FALSE), Look(Parent(c.path), FALSE)>>
        BY <3>2, LookupsOf
      <4> HIDE DEF L
      <4>2. \E b : L[1] = Look(c.path, b)
        BY <4>1
      <4> QED
        BY <4>2, LooksAre
    <3> QED
      BY <3>1, <3>2
  <2> QED
    BY <1>2, <1>3, <2>1, ResultsUsed
<1>4. ASSUME c.op = "sync-move" PROVE IsAt(Result(w, 1), Parent(c.to))
  <2>1. L[1].path = Parent(c.to)
    <3>1. L = <<Look(Parent(c.to), FALSE)>>
      BY <1>4, LookupsOf
    <3> HIDE DEF L
    <3>2. \E b : L[1] = Look(Parent(c.to), b)
      BY <3>1
    <3> QED
      BY <3>2, LooksAre
  <2> QED
    BY <1>2, <1>4, <2>1, ResultsUsed
<1>5. ASSUME c.op = "dirmove"
      PROVE  /\ IsAt(Result(w, 1), Parent(c.to)) /\ IsAt(Result(w, 3), Parent(c.path))
             /\ IsAt(Result(w, 4), c.path)
  <2>1. L = <<Look(Parent(c.to), TRUE), Absent(c.to), Look(Parent(c.path), FALSE),
              Look(c.path, FALSE)>>
    BY <1>5, LookupsOf
  <2>2. \A i \in {1, 3, 4} : Result(w, i) \in DocIds /\ i \in 1 .. Len(c.found)
    BY <1>5, ResultsUsed
  <2>3. L[1].path = Parent(c.to) /\ L[3].path = Parent(c.path) /\ L[4].path = c.path
    <3> HIDE DEF L
    <3>1. \E a, b : /\ L[1] = Look(Parent(c.to), a) /\ L[3] = Look(Parent(c.path), b)
                    /\ L[4] = Look(c.path, b)
      BY <2>1
    <3> QED
      BY <3>1, LooksAre
  <2> QED
    BY <1>2, <2>2, <2>3
<1> QED
  BY <1>3, <1>4, <1>5

LEMMA ListDirKnows ==
  ASSUME TypeInv, TreeOK, CacheTrue, NEW w \in Workers, KnowsDirs(w), ListDir(w)
  PROVE  Learned(w)
<1> DEFINE c == call[w]
           d == Result(w, 1)
           listed == {<<Append(c.path, place[x].name), DocId(x)>> :
                        x \in {y \in ChildrenOf(d) : Len(c.path) < 2}}
<1>1. /\ c.at = "act" /\ c.op = "list" /\ UNCHANGED <<nsVars, cache>>
      /\ IF Resolves(d) THEN entries' = [entries EXCEPT ![w] = listed] /\ At(w, "list")
         ELSE Return(w)
  BY DEF ListDir, Acting
<1>2. TreeOK' /\ Grows /\ CacheTrue'
  BY <1>1, SameTree, CacheGrows
<1>3. IsAt(d, c.path)
  BY <1>1, FoundPlaces
<1>4. ASSUME Return(w) PROVE KnowsDirs(w)' /\ call'[w].at # "flush"
  BY <1>4, ReturnKnows DEF TypeInv
<1>5. ASSUME entries' = [entries EXCEPT ![w] = listed], At(w, "list")
      PROVE  KnowsDirs(w)' /\ call'[w].at # "flush"
  <2>1. call'[w].at = "list" /\ entries'[w] = listed
    BY <1>5 DEF At, TypeInv, CallsOK, ListsOK, Call
  <2>2. ASSUME NEW e \in listed PROVE IsAt(e[2], e[1])
    <3>1. PICK x \in ChildrenOf(d) : e = <<Append(c.path, place[x].name), DocId(x)>>
      BY <2>2
    <3>2. IsAt(DocId(x), Append(c.path, place[x].name))
      BY <1>3, ChildIsAt DEF TypeInv
    <3> QED
      BY <3>1, <3>2
  <2>3. PICK l : l = listed
    OBVIOUS
  <2>4. \A e \in l : IsAt(e[2], e[1])'
    BY <1>2, <2>2, <2>3 DEF Grows
  <2>5. PICK b : b = call'[w]
    OBVIOUS
  <2>6. KnowsCall(b)' /\ b.at = "list"
    BY <2>1, <2>5 DEF KnowsCall
  <2>7. \A e \in entries'[w] : IsAt(e[2], e[1])'
    BY <2>1, <2>3, <2>4
  <2> QED
    BY <2>1, <2>5, <2>6, <2>7 DEF KnowsDirs, KnowsCall
<1>6. KnowsDirs(w)' /\ call'[w].at # "flush"
  BY <1>1, <1>4, <1>5
<1> QED
  BY <1>1, <1>2, <1>6 DEF Learned

LEMMA PutEntryKnows ==
  ASSUME TypeInv, TreeOK, CacheTrue, NEW w \in Workers, KnowsDirs(w), PutEntry(w)
  PROVE  Learned(w)
<1>1. PICK e \in entries[w] : /\ cache' = [cache EXCEPT ![e[1]] = e[2]]
                              /\ entries' = [entries EXCEPT ![w] = @ \ {e}]
  BY DEF PutEntry
<1>2. call[w].at = "list" /\ UNCHANGED <<nsVars, call>>
  BY DEF PutEntry
<1>3. TreeOK' /\ Grows
  BY <1>2, SameTree
<1>4. \A f \in entries[w] : IsAt(f[2], f[1])
  BY <1>2 DEF KnowsDirs
<1>5. entries'[w] \subseteq entries[w]
  BY <1>1 DEF TypeInv, ListsOK
<1>6. \A f \in entries'[w] : IsAt(f[2], f[1])'
  BY <1>3, <1>4, <1>5 DEF Grows
<1>7. KnowsDirs(w)' /\ call'[w].at # "flush"
  BY <1>2, <1>6 DEF KnowsDirs, KnowsCall
<1>8. CacheTrue'
  <2>1. \A r \in Paths : cache'[r] = IF r = e[1] THEN e[2] ELSE cache[r]
    BY <1>1 DEF TypeInv, CacheOK
  <2> QED
    BY <1>3, <1>4, <2>1 DEF CacheTrue, Grows
<1> QED
  BY <1>2, <1>3, <1>7, <1>8 DEF Learned

LEMMA ReturnLearns ==
  ASSUME TypeInv, TreeOK, CacheTrue, NEW w \in Workers, Return(w), UNCHANGED <<nsVars, cache>>,
         call[w].at # "flush"
  PROVE  Learned(w)
<1>1. TreeOK' /\ Grows /\ CacheTrue'
  BY SameTree, CacheGrows
<1>2. KnowsDirs(w)' /\ call'[w].at # "flush"
  BY ReturnKnows DEF TypeInv
<1> QED
  BY <1>1, <1>2 DEF Learned

LEMMA CheckEmptyKnows ==
  ASSUME TypeInv, TreeOK, CacheTrue, NEW w \in Workers, KnowsDirs(w), CheckEmpty(w)
  PROVE  Learned(w)
<1>1. call[w].at = "act" /\ UNCHANGED <<nsVars, cache>> /\ (At(w, "delete") \/ Return(w))
  BY DEF CheckEmpty
<1>2. TreeOK' /\ Grows /\ CacheTrue'
  BY <1>1, SameTree, CacheGrows
<1>3. KnowsFound(call[w]) /\ call[w] \in Call
  BY <1>1 DEF KnowsDirs, KnowsCall, TypeInv, CallsOK
<1>4. ASSUME At(w, "delete") PROVE Learned(w)
  <2>1. PICK c : c = [call[w] EXCEPT !.at = "delete"]
    OBVIOUS
  <2>2. /\ c.op = call[w].op /\ c.path = call[w].path /\ c.to = call[w].to /\ c.id = call[w].id
        /\ c.found = call[w].found /\ c.at = "delete" /\ call'[w] = c
    BY <1>3, <1>4, <2>1 DEF At, Call, TypeInv, CallsOK
  <2>3. KnowsDirs(w)' /\ call'[w].at # "flush"
    BY <1>2, <1>3, <2>2, GoesOn
  <2> QED
    BY <1>1, <1>2, <2>3 DEF Learned
<1> QED
  BY <1>1, <1>4, ReturnLearns

\* The steps that neither remove nor relocate a directory.
Keeping(w) ==
    \/ Begin(w) \/ BeginLookup(w) \/ AskLeaf(w) \/ CreateLeaf(w) \/ PutLeaf(w) \/ EndLookups(w)
    \/ FinishMkdir(w) \/ RequestFails(w)
    \/ ListDir(w) \/ PutEntry(w) \/ FinishList(w) \/ CheckEmpty(w)

LEMMA KeepingLearns ==
  ASSUME TypeInv, TreeOK, CacheTrue, NEW w \in Workers, KnowsDirs(w), Keeping(w), UNCHANGED faults
  PROVE  Learned(w)
<1>1. ASSUME FinishMkdir(w) \/ FinishList(w) PROVE Learned(w)
  BY <1>1, ReturnLearns DEF FinishMkdir, FinishList, Acting
<1>2. ~ RequestFails(w)
  BY FaultSeen DEF RequestFails, TypeInv
<1> QED
  BY <1>1, <1>2, BeginKnows, BeginLookupKnows, AskLeafKnows, CreateLeafKnows, PutLeafKnows,
     EndLookupsKnows, ListDirKnows, PutEntryKnows, CheckEmptyKnows DEF Keeping

-----------------------------------------------------------------------------
(* Steps of a call that remove or relocate a directory *)

\* The cache is right but for what the call of worker w is about to flush.
CacheTrueBut(w) == \A p \in Paths : cache[p] # NoId => IsAt(cache[p], p) \/ p \in Stale(w)

Changed(w) == TreeOK' /\ KnowsDirs(w)' /\ call'[w].at = "flush" /\ CacheTrueBut(w)'

LEMMA FlushKnows ==
  ASSUME CallsOK, NEW w \in Workers, At(w, "flush"), UNCHANGED <<cache, entries>>, TreeOK',
         \A p \in Paths : \A d : d = cache[p] /\ d # NoId => IsAt(d, p)' \/ p \in Stale(w)
  PROVE  Changed(w)
<1>1. /\ call'[w].at = "flush" /\ call'[w].op = call[w].op /\ call'[w].path = call[w].path
      /\ call'[w].to = call[w].to
  BY DEF At, CallsOK, Call
<1>2. Stale(w)' = Stale(w)
  BY <1>1 DEF Stale, Below
<1>3. KnowsDirs(w)'
  BY <1>1 DEF KnowsDirs, KnowsCall
<1>4. CacheTrueBut(w)'
  <2> SUFFICES ASSUME NEW p \in Paths, cache'[p] # NoId
               PROVE  IsAt(cache[p], p)' \/ p \in Stale(w)'
    BY DEF CacheTrueBut
  <2>1. PICK d : d = cache[p]
    OBVIOUS
  <2>2. IsAt(d, p)' \/ p \in Stale(w)'
    BY <1>2, <2>1
  <2>3. d = cache'[p]
    BY <2>1
  <2> QED
    BY <2>2, <2>3
<1> QED
  BY <1>1, <1>3, <1>4 DEF Changed

\* What is cached elsewhere than at and below p stays true.
LEMMA CacheElsewhere ==
  ASSUME CacheTrue, NEW p, GoneOnly(p), NEW q \in Paths, NEW d, d = cache[q], d # NoId
  PROVE  IsAt(d, q)' \/ q \in Below(p)
BY DEF CacheTrue, GoneOnly

\* The root is never wrong, and what is not the root is flushed by the commands
\* that name a directory by its ID.
LEMMA EverythingStale ==
  ASSUME NEW w \in Workers, call[w].op \in {"sync-move", "sync-delete-dir"}, TypeInv,
         NEW q \in Paths, NEW d, d = cache[q]
  PROVE  IsAt(d, q)' \/ q \in Stale(w)
<1>1. CASE q = <<>>
  <2>1. d = <<>>
    BY <1>1 DEF TypeInv, CacheOK
  <2> QED
    BY <1>1, <2>1 DEF IsAt, Resolves
<1>2. CASE q # <<>>
  BY <1>2 DEF Stale
<1> QED
  BY <1>1, <1>2

LEMMA DeleteDirKnows ==
  ASSUME TypeInv, TreeOK, CacheTrue, NEW w \in Workers, KnowsDirs(w), DeleteDir(w), UNCHANGED faults
  PROVE  \/ Learned(w)
         \/ Changed(w) /\ \E x \in Nodes : x \notin alive' \union fresh'
<1> DEFINE c == call[w]
<1>1. /\ c.at \in {"act", "delete"} /\ c.op \in {"rmdir", "purge", "sync-delete-dir"}
      /\ UNCHANGED <<cache, entries>> /\ CallsOK
      /\ c.op \in {"rmdir", "purge"} => c.path # <<>> /\ c.path \in Paths
      /\ c.op = "sync-delete-dir" => c.id # <<>>
  BY DEF DeleteDir, Acting, TypeInv, CallsOK, CallOK, Call
<1>2. CASE Resolves(Doomed(w))
  <2>1. PICK d : d = Doomed(w)
    OBVIOUS
  <2>2. Resolves(d) /\ Delete(d) /\ At(w, "flush")
    BY <1>2, <2>1, FaultSeen DEF DeleteDir, Answered, TypeInv
  <2>3. c.op \in {"rmdir", "purge"} => IsAt(d, c.path)
    BY <1>1, <2>1, FoundPlaces DEF Doomed
  <2>4. d # <<>>
    BY <1>1, <2>1, <2>3, IsAtTypes DEF TypeInv, Doomed
  <2>5. TreeOK' /\ \A p : IsAt(d, p) => GoneOnly(p)
    BY <2>2, <2>4, DeleteMoves DEF TypeInv
  <2>6. ASSUME NEW q \in Paths, NEW e, e = cache[q], e # NoId PROVE IsAt(e, q)' \/ q \in Stale(w)
    <3>1. CASE c.op = "sync-delete-dir"
      BY <2>6, <3>1, EverythingStale
    <3>2. CASE c.op \in {"rmdir", "purge"}
      <4>1. PICK p : p = c.path
        OBVIOUS
      <4>2. GoneOnly(p) /\ Stale(w) = Below(p)
        BY <2>3, <2>5, <3>2, <4>1 DEF Stale
      <4> QED
        BY <2>6, <4>2, CacheElsewhere
    <3> QED
      BY <1>1, <3>1, <3>2
  <2>7. Leaf(d) \in Nodes /\ Leaf(d) \notin alive' \union fresh'
    BY <2>2, <2>4 DEF Resolves, Delete, TypeInv, NsTypeOK
  <2> QED
    BY <1>1, <2>2, <2>5, <2>6, <2>7, FlushKnows
<1>3. CASE ~ Resolves(Doomed(w))
  BY <1>1, <1>3, ReturnLearns DEF DeleteDir, Refused
<1> QED
  BY <1>2, <1>3

\* A rename or a move of the directory at p to the name n in the directory at q.
LEMMA RelocatedTo ==
  ASSUME TypeInv, TreeOK, NEW w \in Workers, NEW d, d # <<>>, NEW from, NEW to, NEW n \in Names,
         Relocate(w, d, from, to, n), UNCHANGED faults, from = Parent(d)
  PROVE  \/ Return(w) /\ UNCHANGED nsVars
         \/ /\ At(w, "flush") /\ TreeOK' /\ \A p : IsAt(d, p) => GoneOnly(p)
            /\ \A q : IsAt(to, q) => PathOf(Leaf(d))' = Append(q, n)
<1>1. ~ Fault
  BY FaultSeen DEF TypeInv
<1>2. CASE from = to /\ CanRename(d, n) /\ Rename(d, n)
  BY <1>1, <1>2, RenameMoves DEF Relocate, Answered, TypeInv, CanRename, CanMove
<1>3. CASE from # to /\ CanMove(d, to, n) /\ Move(d, to, n)
  BY <1>1, <1>3, MoveMoves DEF Relocate, Answered, TypeInv
<1> QED
  BY <1>2, <1>3 DEF Relocate, Refused

LEMMA SyncMoveKnows ==
  ASSUME TypeInv, TreeOK, CacheTrue, NEW w \in Workers, KnowsDirs(w), SyncMove(w), UNCHANGED faults
  PROVE  Learned(w) \/ Changed(w)
<1> DEFINE c == call[w]
<1>1. /\ c.at = "act" /\ c.op = "sync-move" /\ c.to \in Paths /\ c.to # <<>> /\ c.id # <<>>
      /\ UNCHANGED <<cache, entries>> /\ CallsOK
      /\ Relocate(w, c.id, Parent(c.id), Result(w, 1), Leaf(c.to))
  BY DEF SyncMove, TypeInv, CallsOK, CallOK, Call
<1>2. PICK d, to, n : d = c.id /\ to = Result(w, 1) /\ n = Leaf(c.to)
  OBVIOUS
<1>3. n \in Names
  BY <1>1, <1>2, PathTypes
<1>4. \/ Return(w) /\ UNCHANGED nsVars
      \/ At(w, "flush") /\ TreeOK'
  BY <1>1, <1>2, <1>3, RelocatedTo
<1>5. \A q \in Paths : \A e : e = cache[q] /\ e # NoId => IsAt(e, q)' \/ q \in Stale(w)
  BY <1>1, EverythingStale
<1> QED
  BY <1>1, <1>4, <1>5, ReturnLearns, FlushKnows

\* DirMove, and that it leaves the directory at the destination it was given.
LEMMA MoveDirKnows ==
  ASSUME TypeInv, TreeOK, CacheTrue, NEW w \in Workers, KnowsDirs(w), MoveDir(w), UNCHANGED faults
  PROVE  /\ Learned(w) \/ Changed(w)
         /\ \/ UNCHANGED nsVars
            \/ At(w, "flush") /\ \E x : x = Leaf(Result(w, 4)) /\ PathOf(x)' = call[w].to
<1> DEFINE c == call[w]
<1>1. /\ c.at = "act" /\ c.op = "dirmove" /\ c.to \in Paths /\ c.to # <<>>
      /\ c.path \in Paths /\ c.path # <<>> /\ UNCHANGED <<cache, entries>> /\ CallsOK
      /\ \/ At(w, "flush") /\ UNCHANGED nsVars
         \/ Relocate(w, Result(w, 4), Result(w, 3), Result(w, 1), Leaf(c.to))
  BY DEF MoveDir, TypeInv, CallsOK, CallOK, Call
<1>2. PICK d, from, to, n, p, q : /\ d = Result(w, 4) /\ from = Result(w, 3) /\ to = Result(w, 1)
                                  /\ n = Leaf(c.to) /\ p = c.path /\ q = Parent(c.to)
  OBVIOUS
<1>3. n \in Names /\ c.to = Append(q, n) /\ p # <<>>
  BY <1>1, <1>2, PathTypes
<1>4. IsAt(d, p) /\ IsAt(from, Parent(p)) /\ IsAt(to, q)
  BY <1>1, <1>2, FoundPlaces
<1>5. d # <<>>
  BY <1>3, <1>4, IsAtTypes DEF TypeInv
<1>6. from = Parent(d)
  BY <1>4, <1>5, ParentIsAt, OneIsAt DEF TypeInv
<1>7. ASSUME At(w, "flush"), UNCHANGED nsVars PROVE Changed(w)
  <2>1. TreeOK' /\ Grows
    BY <1>7, SameTree
  <2>2. \A r \in Paths : \A e : e = cache[r] /\ e # NoId => IsAt(e, r)' \/ r \in Stale(w)
    BY <2>1 DEF CacheTrue, Grows
  <2> QED
    BY <1>1, <1>7, <2>1, <2>2, FlushKnows
<1>8. ASSUME Relocate(w, Result(w, 4), Result(w, 3), Result(w, 1), Leaf(c.to))
      PROVE  \/ Return(w) /\ UNCHANGED nsVars
             \/ At(w, "flush") /\ TreeOK' /\ GoneOnly(p) /\ PathOf(Leaf(d))' = c.to
  <2>1. \/ Return(w) /\ UNCHANGED nsVars
        \/ /\ At(w, "flush") /\ TreeOK' /\ \A r : IsAt(d, r) => GoneOnly(r)
           /\ \A r : IsAt(to, r) => PathOf(Leaf(d))' = Append(r, n)
    BY <1>2, <1>3, <1>5, <1>6, <1>8, RelocatedTo
  <2> QED
    BY <1>3, <1>4, <2>1
<1>9. ASSUME At(w, "flush"), TreeOK', GoneOnly(p) PROVE Changed(w)
  <2>1. Below(p) \subseteq Stale(w)
    BY <1>1, <1>2 DEF Stale
  <2>2. \A r \in Paths : \A e : e = cache[r] /\ e # NoId => IsAt(e, r)' \/ r \in Stale(w)
    BY <1>9, <2>1, CacheElsewhere
  <2> QED
    BY <1>1, <1>9, <2>2, FlushKnows
<1>10. Learned(w) \/ Changed(w)
  BY <1>1, <1>7, <1>8, <1>9, ReturnLearns
<1>11. \/ UNCHANGED nsVars
       \/ At(w, "flush") /\ \E x : x = Leaf(Result(w, 4)) /\ PathOf(x)' = c.to
  <2>1. PICK x, t : x = Leaf(d) /\ t = c.to
    OBVIOUS
  <2> QED
    BY <1>1, <1>2, <1>8, <2>1
<1> QED
  BY <1>10, <1>11

\* The flush takes out of the cache what the call made wrong.
LEMMA FlushStaleKnows ==
  ASSUME TypeInv, TreeOK, NEW w \in Workers, CacheTrueBut(w), FlushStale(w)
  PROVE  TreeOK' /\ KnowsDirs(w)' /\ CacheTrue' /\ call'[w].at # "flush"
<1>1. call[w].at = "flush" /\ Flush(Stale(w)) /\ Return(w) /\ UNCHANGED nsVars
  BY DEF FlushStale
<1>2. TreeOK' /\ Grows
  BY <1>1, SameTree
<1>3. KnowsDirs(w)' /\ call'[w].at # "flush"
  BY <1>1, ReturnKnows DEF TypeInv
<1>4. CacheTrue'
  <2>1. \A p \in Paths : cache'[p] # NoId => cache'[p] = cache[p] /\ p \notin Stale(w)
    BY <1>1 DEF Flush
  <2> QED
    BY <1>2, <2>1 DEF CacheTrue, CacheTrueBut, Grows
<1> QED
  BY <1>2, <1>3, <1>4

-----------------------------------------------------------------------------
(* The calls of a single goroutine *)

Alone == \A v, w \in Workers : v = w

\* One goroutine uses the Fs, no answer is lost, and nobody else changes the library.
Undisturbed == Alone /\ MaxFaults = 0 /\ MaxForeign = 0

DirInv ==
    /\ TreeOK
    /\ \A w \in Workers : KnowsDirs(w)
    /\ CacheTrue \/ \E w \in Workers : call[w].at = "flush" /\ CacheTrueBut(w)

\* Mkdir is never asked for the library itself.
MkdirNamed == \A w \in Workers : call[w].op = "mkdir" => call[w].path # <<>>

LEMMA StepOrKeep == \A w \in Workers : Begin(w) \/ Proceed(w) =>
                      Keeping(w) \/ DeleteDir(w) \/ MoveDir(w) \/ SyncMove(w) \/ FlushStale(w)
BY DEF Proceed, Keeping

LEMMA AloneStep ==
  ASSUME TypeInv, DirInv, Alone, NEW w \in Workers, Begin(w) \/ Proceed(w), UNCHANGED faults
  PROVE  DirInv'
<1>1. \A v \in Workers : v = w
  BY DEF Alone
<1>2. KnowsDirs(w) /\ TreeOK
  BY DEF DirInv
<1>3. CASE call[w].at = "flush"
  <2>1. FlushStale(w)
    BY <1>3 DEF Begin, Proceed, BeginLookup, AskLeaf, CreateLeaf, PutLeaf, EndLookups, FinishMkdir,
       RequestFails, ListDir, PutEntry, FinishList, CheckEmpty, DeleteDir, MoveDir, SyncMove, Acting,
       TypeInv, CallsOK, CallOK
  <2>2. CacheTrueBut(w)
    BY <1>1 DEF DirInv, CacheTrue, CacheTrueBut
  <2>3. TreeOK' /\ KnowsDirs(w)' /\ CacheTrue'
    BY <1>2, <2>1, <2>2, FlushStaleKnows
  <2> QED
    BY <1>1, <2>3 DEF DirInv
<1>4. CASE call[w].at # "flush"
  <2>1. CacheTrue /\ ~ FlushStale(w)
    BY <1>1, <1>4 DEF DirInv, FlushStale
  <2>2. Learned(w) \/ Changed(w)
    BY <1>2, <2>1, StepOrKeep, KeepingLearns, DeleteDirKnows, MoveDirKnows, SyncMoveKnows
  <2>3. CASE Learned(w)
    BY <1>1, <2>3 DEF Learned, DirInv
  <2>4. CASE Changed(w)
    BY <1>1, <2>4 DEF Changed, DirInv
  <2> QED
    BY <2>2, <2>3, <2>4
<1> QED
  BY <1>3, <1>4

LEMMA RestKnows ==
  ASSUME NEW w \in Workers, call[w] = Idle
  PROVE  KnowsDirs(w)
BY DEF KnowsDirs, KnowsCall, Idle

LEMMA CacheStarts ==
  cache = [p \in Paths |-> IF p = <<>> THEN <<>> ELSE NoId] => CacheTrue
BY DEF CacheTrue, IsAt, Resolves

LEMMA InitialKnown == Init => TreeOK /\ CacheTrue /\ \A w \in Workers : KnowsDirs(w)
<1> SUFFICES ASSUME Init PROVE TreeOK /\ CacheTrue /\ \A w \in Workers : KnowsDirs(w)
  OBVIOUS
<1>1. TreeOK /\ CacheTrue
  BY CacheStarts DEF Init, NsInit, TreeOK
<1>2. \A w \in Workers : call[w] = Idle
  BY DEF Init
<1> QED
  BY <1>1, <1>2, RestKnows

LEMMA KnowsOfNext == ASSUME NEW w, NEW c, call'[w] = c, KnowsCall(c)' PROVE KnowsCall(call[w])'
BY DEF KnowsCall, KnowsFound, IsAt, Leaves, ChildrenOf, Resolves, DocId, PathOf

\* What the other workers know stays true.
LEMMA OtherKnows ==
  ASSUME NEW v, KnowsDirs(v), Grows, call'[v] = call[v], entries'[v] = entries[v],
         call[v].at = "create" => UNCHANGED nsVars
  PROVE  KnowsDirs(v)'
<1>1. PICK c, E : c = call[v] /\ E = entries[v]
  OBVIOUS
<1>2. KnowsCall(c)
  BY <1>1 DEF KnowsDirs
<1>3. KnowsFound(c) => KnowsFound(c)'
  BY FoundGrows
<1>4. c.at = "create" => Leaves(c.got, NameOf(c))' = {}
  <2>1. SUFFICES ASSUME c.at = "create" PROVE Leaves(c.got, NameOf(c))' = {}
    OBVIOUS
  <2>2. Leaves(c.got, NameOf(c)) = {} /\ UNCHANGED nsVars
    BY <1>1, <1>2, <2>1 DEF KnowsCall
  <2> QED
    BY <2>2 DEF Leaves, ChildrenOf, nsVars
<1>5. KnowsCall(c)'
  BY <1>2, <1>3, <1>4 DEF KnowsCall, Grows
<1>6. c.at = "list" => \A e \in E : IsAt(e[2], e[1])'
  BY <1>1 DEF KnowsDirs, Grows
<1>7. call'[v] = c /\ entries'[v] = E
  BY <1>1
<1>8. KnowsCall(call[v])'
  BY <1>5, <1>7, KnowsOfNext
<1> QED
  BY <1>6, <1>7, <1>8 DEF KnowsDirs

LEMMA KnownStays ==
  ASSUME TypeInv, DirInv, UNCHANGED vars
  PROVE  DirInv'
<1>1. UNCHANGED <<nsVars, cache, call, entries>>
  BY DEF vars, nsVars
<1>2. TreeOK' /\ Grows
  BY <1>1, SameTree DEF DirInv
<1>3. \A w \in Workers : KnowsDirs(w)'
  BY <1>1, <1>2, OtherKnows DEF DirInv
<1>4. CacheTrue => CacheTrue'
  BY <1>1, <1>2, CacheGrows
<1>5. \A w \in Workers : CacheTrueBut(w) => CacheTrueBut(w)'
  BY <1>1, <1>2 DEF CacheTrueBut, Grows, Stale, Below
<1> QED
  BY <1>1, <1>2, <1>3, <1>4, <1>5 DEF DirInv

LEMMA MkdirNamedStep ==
  ASSUME TypeInv, MkdirNamed, [Next]_vars
  PROVE  MkdirNamed'
<1>1. CASE UNCHANGED call
  BY <1>1 DEF MkdirNamed
<1>2. ASSUME NEW w \in Workers, Begin(w) PROVE MkdirNamed'
  <2>1. CallsOK
    BY DEF TypeInv
  <2>2. PICK op \in Ops : \E a \in Arguments(op) :
          call'[w] = [Idle EXCEPT !.op = op, !.path = a.path, !.to = a.to, !.id = a.id,
                                  !.at = "lookup", !.old = Retired]
    BY <1>2, <2>1 DEF Begin, Set, CallsOK
  <2>3. PICK a \in Arguments(op) :
          call'[w] = [Idle EXCEPT !.op = op, !.path = a.path, !.to = a.to, !.id = a.id,
                                  !.at = "lookup", !.old = Retired]
    BY <2>2
  <2>4. call'[w].op = op /\ call'[w].path = a.path
    BY <2>3 DEF Idle
  <2>5. op = "mkdir" => a.path # <<>>
    BY <2>3 DEF Arguments
  <2> QED
    BY <1>2, <2>1, <2>4, <2>5, OthersStay DEF MkdirNamed
<1>3. ASSUME NEW w \in Workers, Proceed(w) PROVE MkdirNamed'
  <2>1. \A v \in Workers \ {w} : call'[v] = call[v]
    BY <1>3, OthersStay DEF TypeInv
  <2>2. call'[w] = Idle \/ (call'[w].op = call[w].op /\ call'[w].path = call[w].path)
    BY <1>3, OthersStay DEF TypeInv
  <2>3. Idle.op = "none"
    BY DEF Idle
  <2> HIDE DEF Idle
  <2> QED
    BY <2>1, <2>2, <2>3 DEF MkdirNamed
<1> QED
  BY <1>1, <1>2, <1>3 DEF Next, ForeignChange, Terminated, vars

\* Every step of an undisturbed goroutine is one of its calls, and none of its
\* requests fails.
LEMMA AloneNext ==
  ASSUME Undisturbed, TypeInv, TypeInv', DirInv, [Next]_vars
  PROVE  DirInv'
<1>1. UNCHANGED faults
  <2>1. faults \in 0 .. 0 /\ faults' \in 0 .. 0
    BY DEF TypeInv, CountersOK, Undisturbed
  <2> QED
    BY <2>1
<1>2. ~ ForeignChange
  BY DEF ForeignChange, TypeInv, CountersOK, Undisturbed
<1> QED
  BY <1>1, <1>2, AloneStep, KnownStays DEF Next, Terminated, Undisturbed

LEMMA AloneTypes == ASSUME Undisturbed PROVE Spec => [](TypeInv /\ DirInv /\ MkdirNamed)
<1>1. Init => TypeInv /\ DirInv /\ MkdirNamed
  <2>1. Init => MkdirNamed
    BY DEF Init, MkdirNamed, Idle
  <2> QED
    BY <2>1, InitialTypes, InitialKnown DEF DirInv
<1>2. TypeInv /\ DirInv /\ MkdirNamed /\ TypeInv' /\ [Next]_vars => DirInv' /\ MkdirNamed'
  BY AloneNext, MkdirNamedStep
<1> QED
  BY <1>1, <1>2, DirTypes, PTL DEF Spec

\* CacheCurrent: between the calls of a goroutine nobody disturbs, every cached
\* path leads to the directory that is there, whatever was created, listed,
\* renamed, moved and removed before: each call flushes all that it made stale.
THEOREM CacheIsCurrent == ASSUME Undisturbed PROVE Spec => []CacheCurrent
<1>1. TypeInv /\ DirInv => CacheCurrent
  <2> SUFFICES ASSUME TypeInv, DirInv, \A w \in Workers : call[w].op = "none",
                      NEW p \in Paths, p # <<>>, cache[p] # NoId
               PROVE  Resolves(cache[p]) /\ PathOf(Leaf(cache[p])) = p
    BY DEF CacheCurrent
  <2>1. \A w \in Workers : call[w].at = "idle"
    BY DEF TypeInv, CallsOK, CallOK
  <2>2. IsAt(cache[p], p)
    BY <2>1 DEF DirInv, CacheTrue
  <2>3. cache[p] # <<>>
    BY <2>2, IsAtTypes DEF TypeInv
  <2> QED
    BY <2>2, <2>3 DEF IsAt
<1> QED
  BY <1>1, AloneTypes, PTL

\* The step of a goroutine that changes a directory is about the one it named.
LEMMA NamedChange ==
  ASSUME Undisturbed, TypeInv, TypeInv', DirInv, NEW w \in Workers, Proceed(w), Changes(w)
  PROVE  /\ PathOf(Target(w)) = call[w].path
         /\ call[w].op = "dirmove" => PathOf(Target(w))' = call[w].to
<1>1. /\ call[w].op \in {"rmdir", "purge", "dirmove"} /\ call[w].at \in {"act", "delete"}
      /\ ~ UNCHANGED nsVars /\ TreeOK /\ KnowsDirs(w)
      /\ call[w].path \in Paths /\ call[w].path # <<>>
      /\ call[w].at = "delete" => call[w].op = "rmdir"
  BY DEF Changes, nsVars, DirInv, TypeInv, CallsOK, CallOK, Call
<1>2. UNCHANGED faults
  <2>1. faults \in 0 .. 0 /\ faults' \in 0 .. 0
    BY DEF TypeInv, CountersOK, Undisturbed
  <2> QED
    BY <2>1
<1>3. CacheTrue
  BY <1>1 DEF DirInv, Undisturbed, Alone
<1>4. DeleteDir(w) \/ MoveDir(w)
  BY <1>1 DEF Proceed, BeginLookup, AskLeaf, CreateLeaf, PutLeaf, EndLookups, FinishMkdir,
     RequestFails, ListDir, PutEntry, FinishList, CheckEmpty, SyncMove, FlushStale, Acting
<1>5. CASE DeleteDir(w)
  <2>1. call[w].op \in {"rmdir", "purge"}
    BY <1>1, <1>5 DEF DeleteDir, Acting
  <2>2. IsAt(Result(w, 1), call[w].path)
    BY <1>1, <2>1, FoundPlaces
  <2>3. Result(w, 1) # <<>>
    BY <1>1, <2>2, IsAtTypes DEF TypeInv
  <2>4. Target(w) = Leaf(Result(w, 1))
    BY <2>1 DEF Target, Doomed
  <2> QED
    BY <2>1, <2>2, <2>3, <2>4 DEF IsAt
<1>6. CASE MoveDir(w)
  <2>1. call[w].op = "dirmove" /\ Target(w) = Leaf(Result(w, 4))
    BY <1>6 DEF MoveDir, Target
  <2>2. IsAt(Result(w, 4), call[w].path)
    BY <1>1, <2>1, FoundPlaces
  <2>3. Result(w, 4) # <<>>
    BY <1>1, <2>2, IsAtTypes DEF TypeInv
  <2>4. At(w, "flush") /\ \E x : x = Leaf(Result(w, 4)) /\ PathOf(x)' = call[w].to
    BY <1>1, <1>2, <1>3, <1>6, MoveDirKnows
  <2>5. Target(w)' = Target(w)
    <3>1. call'[w].op = call[w].op /\ call'[w].found = call[w].found
      BY <2>4 DEF At, TypeInv, CallsOK, Call
    <3> QED
      BY <2>1, <3>1 DEF Target, Result
  <2>6. PICK x : x = Target(w) /\ PathOf(x)' = call[w].to
    BY <2>1, <2>4
  <2>7. PathOf(Target(w))' = PathOf(x)'
    BY <2>5, <2>6 DEF PathOf
  <2> QED
    BY <2>1, <2>2, <2>3, <2>6, <2>7 DEF IsAt
<1> QED
  BY <1>4, <1>5, <1>6

\* ActsOnPath: what a goroutine nobody disturbs removes or moves is the directory
\* at the path it named, a move leaves it at the destination it named, and a
\* Mkdir that succeeds has made the directory.
THEOREM ActsOnNamedPath == ASSUME Undisturbed PROVE Spec => ActsOnPath
<1>1. TypeInv /\ DirInv /\ MkdirNamed /\ TypeInv' /\ [Next]_vars =>
        [\A w \in Workers :
           /\ Changes(w) =>
                /\ PathOf(Target(w)) = call[w].path
                /\ call[w].op = "dirmove" => PathOf(Target(w))' = call[w].to
           /\ Acting(w, "mkdir") /\ call'[w] = Idle =>
                \E x \in alive : PathOf(x) = call[w].path]_vars
  <2> SUFFICES ASSUME TypeInv, DirInv, MkdirNamed, TypeInv', Next, NEW w \in Workers
               PROVE  /\ Changes(w) =>
                           /\ PathOf(Target(w)) = call[w].path
                           /\ call[w].op = "dirmove" => PathOf(Target(w))' = call[w].to
                      /\ Acting(w, "mkdir") /\ call'[w] = Idle =>
                           \E x \in alive : PathOf(x) = call[w].path
    OBVIOUS
  <2>1. ASSUME Changes(w)
        PROVE  /\ PathOf(Target(w)) = call[w].path
               /\ call[w].op = "dirmove" => PathOf(Target(w))' = call[w].to
    <3>1. Proceed(w)
      <4>1. ~ ForeignChange /\ ~ Terminated
        BY <2>1 DEF ForeignChange, TypeInv, CountersOK, Undisturbed, Terminated, Changes, vars
      <4>2. ~ Begin(w)
        BY <2>1 DEF Begin, Changes
      <4> QED
        BY <4>1, <4>2 DEF Next, Undisturbed, Alone
    <3> QED
      BY <2>1, <3>1, NamedChange
  <2>2. ASSUME Acting(w, "mkdir") PROVE \E x \in alive : PathOf(x) = call[w].path
    <3>1. IsAt(Result(w, 1), call[w].path) /\ call[w].path # <<>>
      BY <2>2, FoundPlaces DEF Acting, DirInv, MkdirNamed
    <3>2. Result(w, 1) # <<>>
      BY <3>1, IsAtTypes DEF TypeInv
    <3> QED
      BY <3>1, <3>2 DEF IsAt, Resolves
  <2> QED
    BY <2>1, <2>2
<1> QED
  BY <1>1, AloneTypes, DirTypes, PTL DEF Spec, ActsOnPath

-----------------------------------------------------------------------------
(* Calls of several goroutines that only create directories *)

\* No request failed of itself, nobody else changed the library, and no directory
\* was removed.
Calm == faults = 0 /\ foreign = 0 /\ alive \union fresh = Nodes

\* The calls that are made.
OpsUsed == \A w \in Workers : call[w].op \in Ops \union {"none"}

CalmInv ==
    /\ OpsUsed
    /\ Calm => /\ TreeOK /\ CacheTrue
               /\ \A w \in Workers : KnowsDirs(w) /\ call[w].at # "flush"

LEMMA OpsStep == ASSUME TypeInv, OpsUsed, [Next]_vars PROVE OpsUsed'
<1>1. CASE UNCHANGED call
  BY <1>1 DEF OpsUsed
<1>2. ASSUME NEW w \in Workers, Begin(w) PROVE OpsUsed'
  <2>1. PICK op \in Ops : \E a :
          call'[w] = [Idle EXCEPT !.op = op, !.path = a.path, !.to = a.to, !.id = a.id,
                                  !.at = "lookup", !.old = Retired]
    BY <1>2 DEF Begin, Set, TypeInv, CallsOK
  <2>2. call'[w].op = op
    BY <2>1 DEF Idle
  <2> QED
    BY <1>2, <2>2, OthersStay DEF OpsUsed, TypeInv
<1>3. ASSUME NEW w \in Workers, Proceed(w) PROVE OpsUsed'
  <2>1. /\ \A v \in Workers \ {w} : call'[v] = call[v]
        /\ call'[w] = Idle \/ call'[w].op = call[w].op
    BY <1>3, OthersStay DEF TypeInv
  <2>2. Idle.op = "none"
    BY DEF Idle
  <2> HIDE DEF Idle
  <2> QED
    BY <2>1, <2>2 DEF OpsUsed
<1> QED
  BY <1>1, <1>2, <1>3 DEF Next, ForeignChange, Terminated, vars

\* The counters and the directories only ever leave the calm.
LEMMA CalmBefore ==
  ASSUME TypeInv, TypeInv', [Next]_vars, Calm'
  PROVE  Calm /\ UNCHANGED <<faults, foreign>> /\ ~ ForeignChange
<1>1. /\ faults \in Nat /\ foreign \in Nat /\ faults' = 0 /\ foreign' = 0
      /\ alive \subseteq Nodes /\ fresh \subseteq Nodes
  BY CallsAssumption DEF TypeInv, CountersOK, NsTypeOK, Calm
<1>2. ~ ForeignChange
  BY <1>1 DEF ForeignChange
<1>3. CASE UNCHANGED <<nsVars, faults, foreign>>
  BY <1>2, <1>3 DEF Calm, nsVars
<1>4. ASSUME NEW w \in Workers, Begin(w) \/ Proceed(w) PROVE Calm /\ UNCHANGED <<faults, foreign>>
  <2>1. UNCHANGED foreign /\ (Fault \/ UNCHANGED faults)
    BY <1>4 DEF Begin, Proceed, BeginLookup, AskLeaf, CreateLeaf, PutLeaf, EndLookups, FinishMkdir,
       RequestFails, ListDir, PutEntry, FinishList, CheckEmpty, DeleteDir, MoveDir, SyncMove,
       FlushStale, AskFails, Answered, Refused, Relocate, counters
  <2>2. faults = 0
    BY <1>1, <2>1 DEF Fault
  <2>3. alive' \union fresh' \subseteq alive \union fresh
    <3>1. \/ UNCHANGED nsVars
          \/ \E d, n : \E x \in fresh : Create(d, n, x)
          \/ \E d : Delete(d)
          \/ \E d, n : Rename(d, n)
          \/ \E d, to, n : Move(d, to, n)
      BY <1>4 DEF Begin, Proceed, BeginLookup, AskLeaf, CreateLeaf, PutLeaf, EndLookups,
         FinishMkdir, RequestFails, ListDir, PutEntry, FinishList, CheckEmpty, DeleteDir, MoveDir,
         SyncMove, FlushStale, AskFails, Refused, Relocate
    <3> QED
      BY <3>1 DEF nsVars, Create, Delete, Rename, Move
  <2> QED
    BY <1>1, <2>1, <2>2, <2>3 DEF Calm
<1> QED
  BY <1>2, <1>3, <1>4 DEF Next, Terminated, vars, nsVars

\* A worker that does not act leaves the others what they know.
LEMMA OthersKnow ==
  ASSUME TypeInv, NEW w \in Workers, Begin(w) \/ Proceed(w), Grows, NEW v \in Workers, v # w,
         KnowsDirs(v), call[v].at = "create" => UNCHANGED nsVars
  PROVE  KnowsDirs(v)'
<1>1. call'[v] = call[v]
  BY OthersStay DEF TypeInv
<1>2. entries'[v] = entries[v]
  BY DEF TypeInv, ListsOK, Begin, Proceed, BeginLookup, AskLeaf, CreateLeaf, PutLeaf, EndLookups,
     FinishMkdir, RequestFails, ListDir, PutEntry, FinishList, CheckEmpty, DeleteDir, MoveDir,
     SyncMove, FlushStale, Acting
<1> QED
  BY <1>1, <1>2, OtherKnows

\* Only one lookup at a time creates.
LEMMA OneCreates ==
  ASSUME TypeInv, NEW w \in Workers, Keeping(w), NEW v \in Workers, v # w, call[v].at = "create"
  PROVE  UNCHANGED nsVars
<1>1. mu = v /\ call[w].at # "create"
  BY DEF TypeInv, CallsOK, MutexOK, Holding
<1> QED
  BY <1>1 DEF Keeping, Begin, BeginLookup, AskLeaf, CreateLeaf, PutLeaf, EndLookups, FinishMkdir,
     RequestFails, ListDir, PutEntry, FinishList, CheckEmpty, AskFails

LEMMA CalmStep ==
  ASSUME Ops \cap {"dirmove", "sync-move"} = {}, TypeInv, TypeInv', CalmInv, [Next]_vars
  PROVE  CalmInv'
<1>1. OpsUsed'
  BY OpsStep DEF CalmInv
<1>2. ASSUME Calm'
      PROVE  /\ TreeOK' /\ CacheTrue'
             /\ \A w \in Workers : KnowsDirs(w)' /\ call'[w].at # "flush"
  <2>1. Calm /\ UNCHANGED <<faults, foreign>> /\ ~ ForeignChange
    BY <1>2, CalmBefore
  <2>2. TreeOK /\ CacheTrue /\ \A w \in Workers : KnowsDirs(w) /\ call[w].at # "flush"
    BY <2>1 DEF CalmInv
  <2>3. CASE UNCHANGED vars
    <3>1. UNCHANGED <<nsVars, cache, call, entries>>
      BY <2>3 DEF vars, nsVars
    <3>2. TreeOK' /\ Grows /\ CacheTrue'
      BY <2>2, <3>1, SameTree, CacheGrows
    <3> QED
      BY <2>2, <3>1, <3>2, OtherKnows
  <2>4. ASSUME NEW w \in Workers, Begin(w) \/ Proceed(w)
        PROVE  /\ TreeOK' /\ CacheTrue'
               /\ \A v \in Workers : KnowsDirs(v)' /\ call'[v].at # "flush"
    <3>1. ~ MoveDir(w) /\ ~ SyncMove(w) /\ ~ FlushStale(w)
      BY <2>2 DEF MoveDir, SyncMove, FlushStale, CalmInv, OpsUsed
    <3>2. ASSUME DeleteDir(w) PROVE Learned(w) /\ UNCHANGED nsVars
      <4>1. Learned(w)
        BY <1>2, <2>1, <2>2, <3>2, DeleteDirKnows DEF Calm
      <4>2. ~ At(w, "flush")
        BY <4>1 DEF Learned, At, TypeInv, CallsOK, Call
      <4>3. ~ Fault
        BY <2>1, FaultSeen DEF TypeInv
      <4> QED
        BY <3>2, <4>1, <4>2, <4>3 DEF DeleteDir, Answered, Refused
    <3>3. Learned(w) /\ (Keeping(w) \/ UNCHANGED nsVars)
      BY <2>1, <2>2, <2>4, <3>1, <3>2, StepOrKeep, KeepingLearns
    <3>4. \A v \in Workers : v # w => call'[v] = call[v]
      BY <2>4, OthersStay DEF TypeInv
    <3>5. ASSUME NEW v \in Workers, v # w PROVE KnowsDirs(v)'
      <4>1. call[v].at = "create" => UNCHANGED nsVars
        BY <3>3, <3>5, OneCreates
      <4> QED
        BY <2>2, <2>4, <3>3, <3>5, <4>1, OthersKnow DEF Learned
    <3> QED
      BY <2>2, <3>3, <3>4, <3>5 DEF Learned
  <2> QED
    BY <2>1, <2>3, <2>4 DEF Next, Terminated
<1> QED
  BY <1>1, <1>2 DEF CalmInv

LEMMA IsAtLength ==
  ASSUME TypeInv, NEW d, NEW p, IsAt(d, p)
  PROVE  Len(d) = Len(p)
<1>1. CASE d = <<>> /\ p = <<>>
  BY <1>1
<1>2. CASE \E x, n : d = <<x>> /\ p = <<n>>
  BY <1>2, Pairs
<1>3. CASE \E x, y, m, n : d = <<y, x>> /\ p = <<m, n>>
  BY <1>3, Pairs
<1> QED
  BY <1>1, <1>2, <1>3, IsAtForms DEF TypeInv

\* The lookup of a Mkdir, and how it does not end.
LEMMA MkdirLook ==
  ASSUME TypeInv, NEW w \in Workers, call[w].op = "mkdir",
         Len(call[w].found) < Len(Lookups(call[w]))
  PROVE  Current(w).create /\ ~ Current(w).absent /\ Current(w).absent \in BOOLEAN
<1> DEFINE L == Lookups(call[w])
           k == Len(call[w].found)
<1>1. PICK b : b = TRUE /\ L = <<Look(call[w].path, b)>>
  BY LookupsOf
<1>2. Current(w) \in LookTypes /\ call[w].found \in Seq(DocIds \union {NoId})
  BY CurrentType, ResultsAre
<1>3. k \in Nat /\ k < Len(L)
  BY <1>2, LenProperties
<1>4. L[k + 1] = Look(call[w].path, b)
  <2> HIDE DEF k, L
  <2>1. Len(L) = 1
    BY <1>1 DEF L
  <2>2. k = 0
    BY <1>3, <2>1
  <2> QED
    BY <1>1, <2>2 DEF L
<1>5. Current(w) = Look(call[w].path, b)
  BY <1>4 DEF Current
<1>6. Current(w).absent \in BOOLEAN
  BY <1>2 DEF LookTypes
<1>7. Current(w).create = b /\ ~ Current(w).absent
  BY <1>5, LooksAre
<1>8. Current(w).create
  BY <1>1, <1>7
<1> QED
  BY <1>6, <1>7, <1>8

LEMMA FoundGoesOn ==
  ASSUME TypeInv, NEW w \in Workers, NEW d \in DocIds, Found(w, d), ~ Current(w).absent,
         Current(w).absent \in BOOLEAN
  PROVE  call'[w].at = "lookup"
<1>1. d # NoId
  BY TopAssumption
<1>2. Set(w, [call[w] EXCEPT !.found = Append(@, d), !.have = <<>>, !.got = NoId, !.at = "lookup"])
  BY <1>1 DEF Found
<1> QED
  BY <1>2 DEF Set, TypeInv, CallsOK, Call

\* A Mkdir that stops in its lookup has found no directory left to create.
LEMMA MkdirStops ==
  ASSUME TypeInv, TreeOK, CacheTrue, NEW w \in Workers, KnowsDirs(w), Proceed(w), ~ Fault,
         call[w].op = "mkdir", call'[w] = Idle
  PROVE  call[w].at = "act" \/ fresh = {}
<1> DEFINE c == call[w]
           d == c.got
           n == NextName(w)
<1>1. c \in Call /\ CallOK(c) /\ call \in [Workers -> Call]
  BY DEF TypeInv, CallsOK
<1>2. call'[w].at = "idle" /\ call'[w].op = "none"
  BY DEF Idle
<1>3. SUFFICES ASSUME c.at # "act" PROVE fresh = {}
  OBVIOUS
<1>4. ~ BeginLookup(w)
  <2> SUFFICES ASSUME BeginLookup(w) PROVE FALSE
    OBVIOUS
  <2> DEFINE p == Current(w).path
             q == CachedPrefix(p)
  <2>1. /\ Len(c.found) < Len(Lookups(c))
        /\ IF q = p THEN Found(w, cache[p])
           ELSE Set(w, [c EXCEPT !.have = q, !.got = cache[q], !.at = "ask"])
    BY DEF BeginLookup
  <2>2. cache[q] \in DocIds
    BY <2>1, CurrentType, CachedPrefixIs DEF TypeInv
  <2>3. CASE q = p
    BY <1>2, <2>1, <2>2, <2>3, MkdirLook, FoundGoesOn
  <2>4. CASE q # p
    BY <1>1, <1>2, <2>1, <2>4 DEF Set, Call
  <2> QED
    BY <2>3, <2>4
<1>5. ~ Resolved(w, d) /\ \A e : ~ Resolved(w, e)
  BY <1>1, <1>2, ZenonT(30) DEF Resolved, Set, Call
<1>6. ~ AskLeaf(w)
  <2> SUFFICES ASSUME AskLeaf(w) PROVE FALSE
    OBVIOUS
  <2>1. c.at = "ask" /\ Len(c.found) < Len(Lookups(c))
    BY <1>1 DEF AskLeaf, CallOK, Holding
  <2>2. IsAt(d, c.have) /\ Resolves(d)
    BY <2>1 DEF KnowsDirs, KnowsCall, IsAt
  <2>3. Current(w).create
    BY <2>1, MkdirLook
  <2>4. ~ At(w, "create")
    BY <1>1, <1>2 DEF At, Call
  <2> QED
    BY <1>5, <2>2, <2>3, <2>4 DEF AskLeaf, AskFails
<1>7. ASSUME CreateLeaf(w) PROVE fresh = {}
  <2>1. c.at = "create" /\ Holding(c)
    BY <1>7 DEF CreateLeaf, Holding
  <2>2. IsAt(d, c.have) /\ Resolves(d) /\ Leaves(d, n) = {}
    BY <2>1, LookingCall DEF KnowsDirs, KnowsCall, IsAt
  <2>3. Free(d, n)
    BY <2>2 DEF Free, Leaves
  <2>4. Len(d) < 2
    <3> DEFINE i == Len(c.have)
               m == Len(Current(w).path)
    <3>1. /\ c.have \in Paths /\ i < m /\ Len(d) = i
          /\ Len(c.found) < Len(Lookups(c))
      BY <2>1, <2>2, NextNameType, IsAtLength
    <3>2. Current(w).path \in Paths
      BY <3>1, CurrentType
    <3>3. i \in 0 .. 2 /\ m \in 0 .. 2
      BY <3>1, <3>2, PathTypes
    <3> HIDE DEF i, m
    <3> QED
      BY <3>1, <3>3
  <2>5. ~ CanCreate(d, n)
    BY <1>5, <1>7 DEF CreateLeaf, AskFails
  <2> QED
    BY <2>2, <2>3, <2>4, <2>5 DEF CanCreate
<1>8. ~ PutLeaf(w)
  <2> SUFFICES ASSUME PutLeaf(w) PROVE FALSE
    OBVIOUS
  <2>1. c.at = "put" /\ Len(c.found) < Len(Lookups(c)) /\ d \in DocIds
    BY <1>1 DEF PutLeaf, CallOK, Holding
  <2>2. Found(w, d) \/ \E p : Set(w, [c EXCEPT !.have = p, !.at = "ask"])
    BY DEF PutLeaf
  <2>3. ~ Found(w, d)
    BY <1>2, <2>1, MkdirLook, FoundGoesOn
  <2> QED
    BY <1>1, <1>2, <2>2, <2>3 DEF Set, Call
<1>9. ~ EndLookups(w)
  BY <1>1, <1>2 DEF EndLookups, At, Call
<1> QED
  BY <1>1, <1>2, <1>3, <1>4, <1>6, <1>7, <1>8, <1>9
     DEF Proceed, FinishMkdir, RequestFails, ListDir, PutEntry, FinishList, CheckEmpty, DeleteDir,
         MoveDir, SyncMove, FlushStale, Acting, CallOK

\* MkdirsAgree: goroutines that create directories on one Fs at the same time all
\* succeed, however many they are and whatever parents they share, while nothing
\* was removed, no request failed and nobody else changed the library, and with no
\* call that relocates a directory: the one mutex of the cache makes the look for
\* a directory and its creation one.
THEOREM CreationsAgree ==
  ASSUME Ops \cap {"dirmove", "sync-move"} = {}
  PROVE  Spec => MkdirsAgree
<1>1. Init => CalmInv
  BY InitialKnown DEF Init, CalmInv, OpsUsed, Idle
<1>2. CalmInv /\ TypeInv /\ TypeInv' /\ [Next]_vars => CalmInv'
  BY CalmStep
<1>3. TypeInv /\ CalmInv /\ [Next]_vars =>
        [\A w \in Workers :
           /\ call[w].op = "mkdir" /\ call'[w] = Idle
           /\ faults' = 0 /\ foreign = 0 /\ alive \union fresh = Nodes
           => call[w].at = "act" \/ fresh = {}]_vars
  <2> SUFFICES ASSUME TypeInv, CalmInv, Next, NEW w \in Workers,
                      call[w].op = "mkdir", call'[w] = Idle,
                      faults' = 0, foreign = 0, alive \union fresh = Nodes
               PROVE  call[w].at = "act" \/ fresh = {}
    OBVIOUS
  <2>1. call'[w].op # call[w].op
    BY DEF Idle
  <2>2. Proceed(w)
    <3>1. \A v \in Workers : (Begin(v) \/ Proceed(v)) => v = w
      BY <2>1, OthersStay DEF TypeInv
    <3>2. ~ Begin(w)
      BY DEF Begin
    <3> QED
      BY <2>1, <3>1, <3>2 DEF Next, ForeignChange, Terminated, vars
  <2>3. Fault \/ UNCHANGED faults
    BY <2>2 DEF Proceed, BeginLookup, AskLeaf, CreateLeaf, PutLeaf, EndLookups, FinishMkdir,
       RequestFails, ListDir, PutEntry, FinishList, CheckEmpty, DeleteDir, MoveDir, SyncMove,
       FlushStale, AskFails, Answered, Refused, Relocate, counters
  <2>4. ~ Fault
    BY CallsAssumption DEF Fault, TypeInv, CountersOK
  <2>5. TreeOK /\ CacheTrue /\ KnowsDirs(w)
    BY <2>3, <2>4 DEF CalmInv, Calm
  <2> QED
    BY <2>2, <2>4, <2>5, MkdirStops
<1> QED
  BY <1>1, <1>2, <1>3, DirTypes, PTL DEF Spec, MkdirsAgree

-----------------------------------------------------------------------------
(* The directories stay a tree *)

\* What a call found for a path below the library is not the library.
Rooted(c) ==
    /\ \A i \in 1 .. Len(c.found) : c.found[i] = <<>> => Lookups(c)[i].path = <<>>
    /\ c.at = "put" => c.got # <<>>

RootInv ==
    /\ \A p \in Paths : cache[p] = <<>> => p = <<>>
    /\ \A w \in Workers : Rooted(call[w]) /\ \A e \in entries[w] : e[2] # <<>>

LEMMA NoIdIsNoRoot == NoId # <<>>
BY TopAssumption DEF DocIds

LEMMA RootedIdle == ASSUME NEW c, c = Idle PROVE Rooted(c)
<1>1. c.found = <<>> /\ c.at = "idle"
  BY DEF Idle
<1>2. Len(<<>>) = 0 /\ 1 .. 0 = {}
  BY EmptySeq
<1> QED
  BY <1>1, <1>2 DEF Rooted

\* A call goes on with what it has found.
LEMMA RootedOn ==
  ASSUME NEW b, NEW c, Rooted(b), c.op = b.op, c.path = b.path, c.to = b.to, c.id = b.id,
         c.found = b.found, c.at = "put" => c.got # <<>>
  PROVE  Rooted(c)
<1>1. Lookups(c) = Lookups(b)
  BY LookupsSame
<1> QED
  BY <1>1 DEF Rooted

LEMMA RootedFound ==
  ASSUME TypeInv, NEW w \in Workers, NEW d \in DocIds \union {NoId}, Found(w, d),
         Rooted(call[w]), call[w].op # "none",
         Len(call[w].found) < Len(Lookups(call[w])),
         d = <<>> => Current(w).path = <<>>
  PROVE  Rooted(call'[w])
<1>1. call[w] \in Call /\ CallOK(call[w]) /\ call[w].found \in Results
  BY DEF TypeInv, CallsOK, Call, Results
<1>2. CASE Return(w)
  BY <1>2, RootedIdle DEF Return, Set, TypeInv, CallsOK
<1>3. CASE Set(w, [call[w] EXCEPT !.found = Append(@, d), !.have = <<>>, !.got = NoId,
                                  !.at = "lookup"])
  <2> DEFINE k == Len(call[w].found)
  <2>1. k \in Nat /\ k < 4
    BY <1>1, NextLookType
  <2>2. PICK b, c : /\ b = call[w]
                    /\ c = [call[w] EXCEPT !.found = Append(@, d), !.have = <<>>, !.got = NoId,
                                           !.at = "lookup"]
    OBVIOUS
  <2>3. /\ Len(c.found) = k + 1 /\ c.found[k + 1] = d
        /\ \A i \in 1 .. k : c.found[i] = b.found[i]
        /\ c.at = "lookup"
    <3>1. c.found = Append(b.found, d) /\ c.at = "lookup"
      BY <1>1, <2>2 DEF Call
    <3> QED
      BY <1>1, <2>1, <2>2, <3>1, ResultsAppend
  <2>4. call'[w] = c
    BY <1>3, <2>2 DEF Set, TypeInv, CallsOK
  <2>5. Lookups(c) = Lookups(b)
    <3>1. c.op = b.op /\ c.path = b.path /\ c.to = b.to /\ c.id = b.id
      BY <1>1, <2>2 DEF Call
    <3> QED
      BY <3>1, LookupsSame
  <2>6. \A i \in 1 .. k + 1 : i \in 1 .. k \/ i = k + 1
    <3> HIDE DEF k
    <3> QED
      BY <2>1
  <2>7. \A i \in 1 .. k : b.found[i] = <<>> => Lookups(b)[i].path = <<>>
    BY <2>2 DEF Rooted
  <2>8. d = <<>> => Lookups(b)[k + 1].path = <<>>
    BY <2>2 DEF Current
  <2> HIDE DEF k
  <2>9. \A i \in 1 .. k + 1 : c.found[i] = <<>> => Lookups(c)[i].path = <<>>
    BY <2>3, <2>5, <2>6, <2>7, <2>8
  <2> QED
    BY <2>3, <2>4, <2>9 DEF Rooted
<1> QED
  BY <1>2, <1>3 DEF Found

\* The steps of a lookup.
LEMMA RootedLooks ==
  ASSUME TypeInv, RootInv, NEW w \in Workers,
         BeginLookup(w) \/ AskLeaf(w) \/ CreateLeaf(w) \/ PutLeaf(w)
  PROVE  /\ Rooted(call'[w])
         /\ \A p \in Paths : cache'[p] = <<>> => p = <<>>
<1> DEFINE c == call[w]
<1>1. /\ c \in Call /\ CallOK(c) /\ call \in [Workers -> Call] /\ Rooted(c)
      /\ \A p \in Paths : cache[p] = <<>> => p = <<>>
  BY DEF TypeInv, CallsOK, RootInv
<1>2. c.at \in {"lookup", "ask", "create", "put"} => c.op # "none"
  BY <1>1 DEF CallOK
<1>3. ASSUME Return(w) PROVE Rooted(call'[w])
  BY <1>3, RootedIdle DEF Return, Set, TypeInv, CallsOK
<1>4. ASSUME NEW d, d # <<>>, Resolved(w, d) PROVE Rooted(call'[w])
  <2>1. PICK e : e = [c EXCEPT !.got = d, !.at = "put"]
    OBVIOUS
  <2>2. /\ e.op = c.op /\ e.path = c.path /\ e.to = c.to /\ e.id = c.id /\ e.found = c.found
        /\ e.got = d /\ call'[w] = e
    BY <1>1, <1>4, <2>1 DEF Call, Resolved, Set
  <2> QED
    BY <1>1, <1>4, <2>2, RootedOn
<1>5. ASSUME BeginLookup(w) PROVE Rooted(call'[w]) /\ UNCHANGED cache
  <2> DEFINE p == Current(w).path
             q == CachedPrefix(p)
  <2>1. /\ Len(c.found) < Len(Lookups(c)) /\ UNCHANGED cache /\ c.at = "lookup"
        /\ IF q = p THEN Found(w, cache[p])
           ELSE Set(w, [c EXCEPT !.have = q, !.got = cache[q], !.at = "ask"])
    BY <1>5 DEF BeginLookup
  <2>2. p \in Paths /\ cache[q] \in DocIds
    BY <2>1, CurrentType, CachedPrefixIs DEF TypeInv
  <2>3. ASSUME q = p PROVE Rooted(call'[w])
    BY <1>1, <1>2, <2>1, <2>2, <2>3, RootedFound
  <2>4. ASSUME q # p PROVE Rooted(call'[w])
    <3>1. PICK e : e = [c EXCEPT !.have = q, !.got = cache[q], !.at = "ask"]
      OBVIOUS
    <3>2. /\ e.op = c.op /\ e.path = c.path /\ e.to = c.to /\ e.id = c.id /\ e.found = c.found
          /\ e.at = "ask" /\ call'[w] = e
      BY <1>1, <2>1, <2>4, <3>1 DEF Call, Set
    <3> QED
      BY <1>1, <3>2, RootedOn
  <2> QED
    BY <2>1, <2>3, <2>4
<1>6. ASSUME AskLeaf(w) PROVE Rooted(call'[w]) /\ UNCHANGED cache
  <2>1. c.at = "ask" /\ UNCHANGED cache /\ Len(c.found) < Len(Lookups(c))
    BY <1>1, <1>6 DEF AskLeaf, CallOK, Holding
  <2>2. \/ \E x \in Leaves(c.got, NextName(w)) : Resolved(w, DocId(x))
        \/ At(w, "create")
        \/ Found(w, NoId)
        \/ Return(w)
    BY <1>6 DEF AskLeaf, AskFails, LookupFailed
  <2>3. ASSUME NEW x \in Leaves(c.got, NextName(w)), Resolved(w, DocId(x)) PROVE Rooted(call'[w])
    <3>1. DocId(x) # <<>>
      BY PlaceTypes DEF Leaves, ChildrenOf, TypeInv, NsTypeOK
    <3> QED
      BY <1>4, <2>3, <3>1
  <2>4. ASSUME At(w, "create") PROVE Rooted(call'[w])
    <3>1. PICK e : e = [c EXCEPT !.at = "create"]
      OBVIOUS
    <3>2. /\ e.op = c.op /\ e.path = c.path /\ e.to = c.to /\ e.id = c.id /\ e.found = c.found
          /\ e.at = "create" /\ call'[w] = e
      BY <1>1, <2>4, <3>1 DEF Call, At
    <3> QED
      BY <1>1, <3>2, RootedOn
  <2>5. ASSUME Found(w, NoId) PROVE Rooted(call'[w])
    BY <1>1, <1>2, <2>1, <2>5, RootedFound, NoIdIsNoRoot
  <2> QED
    BY <1>3, <2>1, <2>2, <2>3, <2>4, <2>5
<1>7. ASSUME CreateLeaf(w) PROVE Rooted(call'[w]) /\ UNCHANGED cache
  <2>1. c.at = "create" /\ UNCHANGED cache /\ c.got \in DocIds
    BY <1>1, <1>7 DEF CreateLeaf, CallOK, Holding
  <2>2. \/ \E x \in fresh : Resolved(w, Append(c.got, x))
        \/ Return(w)
    BY <1>7 DEF CreateLeaf, AskFails, LookupFailed
  <2>3. ASSUME NEW x \in fresh PROVE Append(c.got, x) # <<>>
    <3>1. c.got \in Seq(Nodes) /\ x \in Nodes
      BY <2>1, PathsAre DEF TypeInv, NsTypeOK
    <3> QED
      BY <3>1, AppendIs
  <2> QED
    BY <1>3, <1>4, <2>1, <2>2, <2>3
<1>8. ASSUME PutLeaf(w)
      PROVE  Rooted(call'[w]) /\ \A p \in Paths : cache'[p] = <<>> => p = <<>>
  <2> DEFINE p == Append(c.have, NextName(w))
  <2>1. /\ c.at = "put" /\ cache' = [cache EXCEPT ![p] = c.got] /\ c.got # <<>>
        /\ Len(c.found) < Len(Lookups(c)) /\ c.got \in DocIds
        /\ Found(w, c.got) \/ Set(w, [c EXCEPT !.have = p, !.at = "ask"])
    BY <1>1, <1>8 DEF PutLeaf, CallOK, Holding, Rooted
  <2>2. ASSUME Found(w, c.got) PROVE Rooted(call'[w])
    BY <1>1, <1>2, <2>1, <2>2, RootedFound
  <2>3. ASSUME Set(w, [c EXCEPT !.have = p, !.at = "ask"]) PROVE Rooted(call'[w])
    <3>1. PICK e : e = [c EXCEPT !.have = p, !.at = "ask"]
      OBVIOUS
    <3>2. /\ e.op = c.op /\ e.path = c.path /\ e.to = c.to /\ e.id = c.id /\ e.found = c.found
          /\ e.at = "ask" /\ call'[w] = e
      BY <1>1, <2>3, <3>1 DEF Call, Set
    <3> QED
      BY <1>1, <3>2, RootedOn
  <2>4. \A r \in Paths : cache'[r] = <<>> => r = <<>>
    BY <1>1, <2>1 DEF TypeInv, CacheOK
  <2> QED
    BY <2>1, <2>2, <2>3, <2>4
<1> QED
  BY <1>1, <1>5, <1>6, <1>7, <1>8

\* The other steps of a call look nothing up.
LEMMA RootedActs ==
  ASSUME TypeInv, RootInv, NEW w \in Workers,
         \/ Begin(w) \/ EndLookups(w) \/ FinishMkdir(w) \/ RequestFails(w) \/ ListDir(w)
         \/ PutEntry(w) \/ FinishList(w) \/ CheckEmpty(w) \/ DeleteDir(w) \/ MoveDir(w)
         \/ SyncMove(w) \/ FlushStale(w)
  PROVE  Rooted(call'[w])
<1> DEFINE c == call[w]
<1>1. c \in Call /\ call \in [Workers -> Call] /\ Rooted(c)
  BY DEF TypeInv, CallsOK, RootInv
<1>2. ASSUME Return(w) PROVE Rooted(call'[w])
  BY <1>1, <1>2, RootedIdle DEF Return, Set
<1>3. ASSUME NEW s \in {"act", "list", "delete", "flush"}, At(w, s) PROVE Rooted(call'[w])
  <2>1. PICK e : e = [c EXCEPT !.at = s]
    OBVIOUS
  <2>2. /\ e.op = c.op /\ e.path = c.path /\ e.to = c.to /\ e.id = c.id /\ e.found = c.found
        /\ e.at # "put" /\ call'[w] = e
    BY <1>1, <1>3, <2>1 DEF Call, At
  <2> QED
    BY <1>1, <2>2, RootedOn
<1>4. CASE Begin(w)
  <2>1. PICK op \in Ops : \E a \in Arguments(op) :
          Set(w, [Idle EXCEPT !.op = op, !.path = a.path, !.to = a.to, !.id = a.id,
                              !.at = "lookup", !.old = Retired])
    BY <1>4 DEF Begin
  <2>2. PICK a : Set(w, [Idle EXCEPT !.op = op, !.path = a.path, !.to = a.to, !.id = a.id,
                                     !.at = "lookup", !.old = Retired])
    BY <2>1
  <2>3. PICK e : e = [Idle EXCEPT !.op = op, !.path = a.path, !.to = a.to, !.id = a.id,
                                  !.at = "lookup", !.old = Retired]
    OBVIOUS
  <2>4. e.found = <<>> /\ e.at = "lookup" /\ call'[w] = e
    BY <1>1, <2>2, <2>3 DEF Set, Idle
  <2>5. Len(<<>>) = 0 /\ 1 .. 0 = {}
    BY EmptySeq
  <2> QED
    BY <2>4, <2>5 DEF Rooted
<1>5. CASE PutEntry(w)
  BY <1>1, <1>5 DEF PutEntry
<1>6. ASSUME NEW d, NEW from, NEW to, NEW n, Relocate(w, d, from, to, n) PROVE Rooted(call'[w])
  BY <1>2, <1>3, <1>6 DEF Relocate, Answered, Refused
<1> QED
  BY <1>2, <1>3, <1>4, <1>5, <1>6
     DEF EndLookups, FinishMkdir, RequestFails, ListDir, FinishList, CheckEmpty, DeleteDir,
         Answered, Refused, MoveDir, SyncMove, FlushStale

\* A call in its lookups changes the cache only where it puts what it found.
LEMMA RootedRest ==
  ASSUME TypeInv, RootInv, NEW w \in Workers,
         \/ Begin(w) \/ EndLookups(w) \/ FinishMkdir(w) \/ RequestFails(w) \/ ListDir(w)
         \/ PutEntry(w) \/ FinishList(w) \/ CheckEmpty(w) \/ DeleteDir(w) \/ MoveDir(w)
         \/ SyncMove(w) \/ FlushStale(w)
  PROVE  /\ \A p \in Paths : cache'[p] = <<>> => p = <<>>
         /\ \A v \in Workers : \A e \in entries'[v] : e[2] # <<>>
<1>1. /\ \A p \in Paths : cache[p] = <<>> => p = <<>>
      /\ \A v \in Workers : \A e \in entries[v] : e[2] # <<>>
      /\ cache \in [Paths -> DocIds \union {NoId}]
      /\ entries \in [Workers -> SUBSET (Paths \X DocIds)]
  BY DEF RootInv, TypeInv, CacheOK, ListsOK
<1>2. CASE ListDir(w)
  <2>1. UNCHANGED cache
    BY <1>2 DEF ListDir
  <2>2. ASSUME NEW v \in Workers, NEW e \in entries'[v] PROVE e[2] # <<>>
    <3>1. \/ e \in entries[v]
          \/ \E x \in alive : e[2] = DocId(x)
      BY <1>1, <1>2, <2>2 DEF ListDir, ChildrenOf
    <3>2. \A x \in alive : DocId(x) # <<>>
      BY PlaceTypes DEF TypeInv, NsTypeOK
    <3> QED
      BY <1>1, <3>1, <3>2
  <2> QED
    BY <1>1, <2>1, <2>2
<1>3. CASE PutEntry(w)
  <2>1. PICK e \in entries[w] : /\ cache' = [cache EXCEPT ![e[1]] = e[2]]
                                /\ entries' = [entries EXCEPT ![w] = @ \ {e}]
    BY <1>3 DEF PutEntry
  <2>2. e[2] # <<>>
    BY <1>1
  <2> QED
    BY <1>1, <2>1, <2>2
<1>4. CASE FlushStale(w)
  <2>1. \A p \in Paths : cache'[p] = NoId \/ cache'[p] = cache[p]
    BY <1>4 DEF FlushStale, Flush
  <2> QED
    BY <1>1, <1>4, <2>1, NoIdIsNoRoot DEF FlushStale
<1> QED
  BY <1>1, <1>2, <1>3, <1>4
     DEF Begin, EndLookups, FinishMkdir, RequestFails, FinishList, CheckEmpty, DeleteDir,
         MoveDir, SyncMove

LEMMA RootedStep ==
  ASSUME TypeInv, RootInv, NEW w \in Workers, Begin(w) \/ Proceed(w)
  PROVE  RootInv'
<1>1. \A v \in Workers \ {w} : call'[v] = call[v]
  BY OthersStay DEF TypeInv
<1>2. /\ Rooted(call'[w])
      /\ \A p \in Paths : cache'[p] = <<>> => p = <<>>
      /\ \A v \in Workers : \A e \in entries'[v] : e[2] # <<>>
  <2>1. CASE BeginLookup(w) \/ AskLeaf(w) \/ CreateLeaf(w) \/ PutLeaf(w)
    <3>1. UNCHANGED entries
      BY <2>1 DEF BeginLookup, AskLeaf, CreateLeaf, PutLeaf
    <3> QED
      BY <2>1, <3>1, RootedLooks DEF RootInv
  <2> QED
    BY <2>1, RootedActs, RootedRest DEF Proceed
<1>3. \A v \in Workers : Rooted(call'[v])
  BY <1>1, <1>2 DEF RootInv
<1>4. \A v \in Workers : \A c : Rooted(c) /\ call'[v] = c => Rooted(call[v])'
  BY DEF Rooted
<1> QED
  BY <1>2, <1>3, <1>4 DEF RootInv

\* What is removed or relocated is a directory, never the library.
LEMMA DoomedIsNoRoot ==
  ASSUME TypeInv, RootInv, NEW w \in Workers,
         call[w].at \in {"act", "delete"}, call[w].op \in {"rmdir", "purge", "sync-delete-dir"}
  PROVE  Doomed(w) \in DocIds /\ Doomed(w) # <<>>
<1>1. CASE call[w].op = "sync-delete-dir"
  BY <1>1, ResultsUsed DEF Doomed, TypeInv, CallsOK, CallOK
<1>2. CASE call[w].op \in {"rmdir", "purge"}
  <2>1. Doomed(w) = call[w].found[1] /\ Doomed(w) \in DocIds /\ 1 \in 1 .. Len(call[w].found)
    BY <1>2, ResultsUsed DEF Doomed, Result
  <2>2. Lookups(call[w])[1].path = call[w].path
    <3>1. PICK p, l, m : p = call[w].path /\ l = Look(p, FALSE) /\ m = Look(Parent(p), FALSE)
      OBVIOUS
    <3>2. Lookups(call[w]) = <<l>> \/ Lookups(call[w]) = <<l, m>>
      BY <1>2, <3>1, LookupsOf
    <3>3. <<l>>[1] = l /\ <<l, m>>[1] = l
      OBVIOUS
    <3>4. l.path = p
      BY <3>1 DEF Look
    <3> QED
      BY <3>1, <3>2, <3>3, <3>4
  <2> QED
    BY <1>2, <2>1, <2>2 DEF RootInv, Rooted, TypeInv, CallsOK, CallOK
<1> QED
  BY <1>1, <1>2

\* What is moved is a directory, and it gets a name.
LEMMA MovedIsNoRoot ==
  ASSUME TypeInv, RootInv, NEW w \in Workers, call[w].at = "act", call[w].op = "dirmove"
  PROVE  Result(w, 4) # <<>> /\ Leaf(call[w].to) \in Names
<1>1. call[w].path # <<>> /\ call[w].to # <<>> /\ call[w].to \in Paths
  BY DEF TypeInv, CallsOK, CallOK, Call
<1>2. Result(w, 4) = call[w].found[4] /\ 4 \in 1 .. Len(call[w].found)
  BY ResultsUsed DEF Result
<1>3. Lookups(call[w])[4].path = call[w].path
  <2>1. PICK a, b, c, l : /\ a = Look(Parent(call[w].to), TRUE) /\ b = Absent(call[w].to)
                          /\ c = Look(Parent(call[w].path), FALSE) /\ l = Look(call[w].path, FALSE)
    OBVIOUS
  <2>2. Lookups(call[w]) = <<a, b, c, l>>
    BY <2>1, LookupsOf
  <2>3. <<a, b, c, l>>[4] = l
    OBVIOUS
  <2>4. l.path = call[w].path
    BY <2>1 DEF Look
  <2> QED
    BY <2>2, <2>3, <2>4
<1> QED
  BY <1>1, <1>2, <1>3, PathTypes DEF RootInv, Rooted

\* The service keeps the directories a tree, whoever asks and whatever of.
LEMMA TreeChanges ==
  ASSUME NsTypeOK, TreeOK
  PROVE  /\ \A d, x : \A n \in Names : CanCreate(d, n) /\ Create(d, n, x) => TreeOK'
         /\ \A d : d # <<>> /\ Resolves(d) /\ Delete(d) => TreeOK'
         /\ \A d : \A n \in Names : d # <<>> /\ CanRename(d, n) /\ Rename(d, n) => TreeOK'
         /\ \A d, to : \A n \in Names : d # <<>> /\ CanMove(d, to, n) /\ Move(d, to, n) => TreeOK'
<1>1. ASSUME NEW d, NEW n \in Names, NEW x, CanCreate(d, n), Create(d, n, x) PROVE TreeOK'
  BY <1>1, CreateGrows
<1>2. ASSUME NEW d, d # <<>>, Resolves(d), Delete(d) PROVE TreeOK'
  BY <1>2, DeleteMoves
<1>3. ASSUME NEW d, NEW n \in Names, d # <<>>, CanRename(d, n), Rename(d, n) PROVE TreeOK'
  BY <1>3, RenameMoves
<1>4. ASSUME NEW d, NEW to, NEW n \in Names, d # <<>>, CanMove(d, to, n), Move(d, to, n)
      PROVE  TreeOK'
  BY <1>4, MoveMoves
<1> QED
  BY <1>1, <1>2, <1>3, <1>4

LEMMA RelocateTree ==
  ASSUME NsTypeOK, TreeOK, NEW w, NEW d, d # <<>>, NEW from, NEW to, NEW n \in Names,
         Relocate(w, d, from, to, n)
  PROVE  TreeOK'
<1>1. \/ CanRename(d, n) /\ Rename(d, n)
      \/ CanMove(d, to, n) /\ Move(d, to, n)
      \/ UNCHANGED nsVars
  BY DEF Relocate, Refused
<1> QED
  BY <1>1, TreeChanges, SameTree

LEMMA TreeStep ==
  ASSUME TypeInv, RootInv, TreeOK, NEW w \in Workers, Begin(w) \/ Proceed(w)
  PROVE  TreeOK'
<1>1. NsTypeOK /\ call[w] \in Call /\ CallOK(call[w])
  BY DEF TypeInv, CallsOK
<1>2. CASE CreateLeaf(w)
  <2>1. \/ /\ CanCreate(call[w].got, NextName(w))
           /\ \E x \in fresh : Create(call[w].got, NextName(w), x)
        \/ UNCHANGED nsVars
    BY <1>2 DEF CreateLeaf, AskFails
  <2>2. NextName(w) \in Names
    BY <1>2, NextNameType DEF CreateLeaf, Holding
  <2> QED
    BY <1>1, <2>1, <2>2, TreeChanges, SameTree
<1>3. CASE DeleteDir(w)
  <2>1. (Resolves(Doomed(w)) /\ Delete(Doomed(w))) \/ UNCHANGED nsVars
    BY <1>3 DEF DeleteDir, Refused
  <2>2. Doomed(w) # <<>>
    BY <1>1, <1>3, DoomedIsNoRoot DEF DeleteDir, Acting, CallOK
  <2> QED
    BY <1>1, <2>1, <2>2, TreeChanges, SameTree
<1>4. CASE MoveDir(w)
  <2>1. \/ UNCHANGED nsVars
        \/ Relocate(w, Result(w, 4), Result(w, 3), Result(w, 1), Leaf(call[w].to))
    BY <1>4 DEF MoveDir
  <2>2. Result(w, 4) # <<>> /\ Leaf(call[w].to) \in Names
    BY <1>4, MovedIsNoRoot DEF MoveDir
  <2> QED
    BY <1>1, <2>1, <2>2, RelocateTree, SameTree
<1>5. CASE SyncMove(w)
  <2>1. call[w].id # <<>> /\ call[w].to # <<>> /\ call[w].to \in Paths
    BY <1>1, <1>5 DEF SyncMove, CallOK, Call
  <2>2. Leaf(call[w].to) \in Names
    BY <2>1, PathTypes
  <2> QED
    BY <1>1, <1>5, <2>1, <2>2, RelocateTree DEF SyncMove
<1> QED
  <2>1. UNCHANGED nsVars \/ CreateLeaf(w) \/ DeleteDir(w) \/ MoveDir(w) \/ SyncMove(w)
    BY DEF Proceed, Begin, BeginLookup, AskLeaf, AskFails, PutLeaf, EndLookups, FinishMkdir,
           RequestFails, ListDir, PutEntry, FinishList, CheckEmpty, FlushStale
  <2> QED
    BY <1>2, <1>3, <1>4, <1>5, <2>1, SameTree

LEMMA ForeignTree ==
  ASSUME TypeInv, TreeOK, ForeignChange
  PROVE  TreeOK'
<1>1. NsTypeOK
  BY DEF TypeInv
<1>2. \A y \in alive : DocId(y) # <<>> /\ Resolves(DocId(y))
  BY <1>1, PlaceTypes DEF Resolves, NsTypeOK
<1> QED
  BY <1>1, <1>2, TreeChanges DEF ForeignChange

\* The request with which a call removes or relocates a directory names one below
\* the library, never the library itself, and so is the place a directory moves to.
ActsBelow(w) ==
    /\ call[w].at \in {"act", "delete"} /\ call[w].op \in {"rmdir", "purge", "sync-delete-dir"} =>
         Doomed(w) # <<>>
    /\ call[w].at = "act" /\ call[w].op = "dirmove" =>
         Result(w, 4) # <<>> /\ call[w].to # <<>>

BelowLibrary == \A w \in Workers : ActsBelow(w)

\* No path below the library is ever taken for the library: no entry of the cache,
\* result of a lookup or entry of a listing says so.
THEOREM LibraryIsNoTarget == Spec => []BelowLibrary
<1>1. Init => RootInv
  <2>1. Init => \A p \in Paths : cache[p] = <<>> => p = <<>>
    BY NoIdIsNoRoot DEF Init
  <2>2. Init => \A w \in Workers : Rooted(call[w]) /\ entries[w] = {}
    BY RootedIdle DEF Init
  <2> QED
    BY <2>1, <2>2 DEF RootInv
<1>2. TypeInv /\ RootInv /\ [Next]_vars => RootInv'
  <2> SUFFICES ASSUME TypeInv, RootInv, [Next]_vars
               PROVE  RootInv'
    OBVIOUS
  <2>1. UNCHANGED <<cache, call, entries>> => RootInv'
    <3>1. ASSUME NEW w \in Workers, NEW c, Rooted(c), call'[w] = c PROVE Rooted(call[w])'
      BY <3>1 DEF Rooted
    <3> QED
      BY <3>1 DEF RootInv
  <2>2. ForeignChange => UNCHANGED <<cache, call, entries>>
    BY DEF ForeignChange
  <2> QED
    BY <2>1, <2>2, RootedStep DEF Next, Terminated, vars
<1>3. TypeInv /\ RootInv => BelowLibrary
  <2> SUFFICES ASSUME TypeInv, RootInv, NEW w \in Workers
               PROVE  ActsBelow(w)
    BY DEF BelowLibrary
  <2>1. call[w].op = "dirmove" => call[w].to # <<>>
    BY DEF TypeInv, CallsOK, CallOK
  <2>2. ASSUME call[w].at \in {"act", "delete"},
               call[w].op \in {"rmdir", "purge", "sync-delete-dir"}
        PROVE  Doomed(w) # <<>>
    BY <2>2, DoomedIsNoRoot
  <2>3. ASSUME call[w].at = "act", call[w].op = "dirmove"
        PROVE  Result(w, 4) # <<>>
    BY <2>3, MovedIsNoRoot
  <2> QED
    BY <2>1, <2>2, <2>3 DEF ActsBelow
<1> QED
  BY <1>1, <1>2, <1>3, DirTypes, PTL DEF Spec

-----------------------------------------------------------------------------
(* Uploads into directories that move: the files *)

\* A directory that does not exist yet holds no file, and one that exists one
\* file at most.
FilesOK ==
    /\ \A f \in Files : home[f] \notin fresh
    /\ \A f, g \in Files : Live(f) /\ home[f] = home[g] => f = g

\* A resume state names a document that belongs to its target.
StoreOK == \A p \in Paths :
    store[p] # NoState => MakesOf(store[p].new, store[p].parent, store[p].over)

\* Directories are created once and for all.
Shrinks == fresh' \subseteq fresh /\ alive' \subseteq alive \union fresh

LEMMA RequestsShrink ==
  /\ \A d, n, x : Create(d, n, x) => Shrinks
  /\ \A d : Delete(d) => Shrinks
  /\ \A d, n : Rename(d, n) => Shrinks
  /\ \A d, to, n : Move(d, to, n) => Shrinks
  /\ UNCHANGED nsVars => Shrinks
<1>1. \A d, n, x : Create(d, n, x) => Shrinks
  BY DEF Create, Shrinks
<1>2. \A d : Delete(d) => Shrinks
  BY DEF Delete, Shrinks
<1>3. UNCHANGED <<alive, fresh>> => Shrinks
  BY DEF Shrinks
<1> QED
  BY <1>1, <1>2, <1>3 DEF Rename, Move, nsVars

LEMMA DirectoriesShrink == \A w : Begin(w) \/ Proceed(w) \/ ForeignChange => Shrinks
<1> SUFFICES ASSUME NEW w, Begin(w) \/ Proceed(w) \/ ForeignChange PROVE Shrinks
  OBVIOUS
<1>1. CASE ForeignChange
  BY <1>1, RequestsShrink DEF ForeignChange
<1>2. CASE CreateLeaf(w)
  BY <1>2, RequestsShrink DEF CreateLeaf, AskFails
<1>3. CASE DeleteDir(w)
  BY <1>3, RequestsShrink DEF DeleteDir, Refused
<1>4. CASE MoveDir(w)
  BY <1>4, RequestsShrink DEF MoveDir, Relocate, Refused
<1>5. CASE SyncMove(w)
  BY <1>5, RequestsShrink DEF SyncMove, Relocate, Refused
<1>6. UNCHANGED nsVars => Shrinks
  BY RequestsShrink
<1> QED
  BY <1>1, <1>2, <1>3, <1>4, <1>5, <1>6
     DEF Proceed, Begin, BeginLookup, AskLeaf, AskFails, PutLeaf, EndLookups, FinishMkdir,
         RequestFails, ListDir, PutEntry, FinishList, CheckEmpty, FlushStale

\* A file is no revenant.
LEMMA LiveBefore ==
  ASSUME TypeInv, UploadInv, FilesOK, Shrinks, UNCHANGED home, NEW f \in Files, Live(f)'
  PROVE  Live(f)
BY DEF Live, Shrinks, FilesOK

LEMMA FilesStay ==
  ASSUME TypeInv, UploadInv, FilesOK, Shrinks, UNCHANGED home
  PROVE  FilesOK'
<1>1. \A f \in Files : Live(f)' => Live(f)
  BY LiveBefore
<1>2. \A f \in Files : home'[f] \notin fresh'
  BY DEF FilesOK, Shrinks
<1>3. \A f, g \in Files : Live(f)' /\ home'[f] = home'[g] => f = g
  BY <1>1 DEF FilesOK
<1> QED
  BY <1>2, <1>3 DEF FilesOK, Live

\* A directory of an ID that resolves exists.
LEMMA DirAlive ==
  ASSUME NEW d, Resolves(d)
  PROVE  Dir(d) = Top \/ Dir(d) \in alive
BY DEF Resolves, Dir

\* A file is put where there is none.
LEMMA FilePlaced ==
  ASSUME TypeInv, UploadInv, FilesOK, NEW f, NEW d, Resolves(d), FilesIn(d) = {},
         home' = [home EXCEPT ![f] = Dir(d)], UNCHANGED nsVars
  PROVE  FilesOK'
<1>1. /\ alive \subseteq Nodes /\ fresh \subseteq Nodes \ alive /\ DOMAIN home = Files
      /\ UNCHANGED <<alive, fresh>>
  BY DEF TypeInv, NsTypeOK, UploadInv, nsVars
<1>2. Dir(d) = Top \/ Dir(d) \in alive
  BY DirAlive
<1>3. \A g \in Files : ~ (Live(g) /\ home[g] = Dir(d))
  BY DEF FilesIn
<1>4. \A g \in Files : home[g] # Dir(d)
  BY <1>2, <1>3 DEF Live
<1>5. \A g \in Files : home'[g] \notin fresh'
  BY <1>1, <1>2, TopAssumption DEF FilesOK
<1>6. ASSUME NEW g \in Files, NEW h \in Files, Live(g)', home'[g] = home'[h] PROVE g = h
  <2>1. \A k \in Files : k # f => home'[k] = home[k]
    BY <1>1
  <2>2. f \in Files => home'[f] = Dir(d)
    BY <1>1
  <2>3. g # f => Live(g)
    BY <1>1, <1>6, <2>1 DEF Live
  <2> QED
    BY <1>4, <1>6, <2>1, <2>2, <2>3 DEF FilesOK
<1> QED
  BY <1>5, <1>6 DEF FilesOK, Live

\* A new version of a file leaves it where it is.
LEMMA FileKept ==
  ASSUME TypeInv, UploadInv, NEW id, Live(Leaf(id)), FileId(Leaf(id)) = id, Leaf(id) \in Files
  PROVE  Dir(Parent(id)) = home[Leaf(id)]
<1> DEFINE f == Leaf(id)
<1>1. CASE home[f] = Top
  <2>1. id = <<f>>
    BY <1>1 DEF FileId
  <2>2. Parent(id) = <<>>
    BY <2>1, Pairs
  <2> QED
    BY <1>1, <2>2 DEF Dir
<1>2. CASE home[f] # Top
  <2>1. PICK x : x = home[f] /\ x \in alive /\ x \in Nodes
    BY <1>2 DEF Live, TypeInv, NsTypeOK
  <2>2. id = Append(DocId(x), f) /\ DocId(x) \in DocIds /\ DocId(x) # <<>> /\ Leaf(DocId(x)) = x
    BY <1>2, <2>1, PlaceTypes DEF FileId, TypeInv
  <2>3. id \in Documents
    BY <2>2 DEF Documents, FileIds
  <2>4. PICK d : d = DocId(x)
    OBVIOUS
  <2>5. d \in Seq(Nodes \union Files)
    <3>1. d \in Seq(Nodes) /\ \A S : d \in Seq(S) => d \in Seq(S \union Files)
      BY <2>2, <2>4, PathsAre
    <3> QED
      BY <3>1
  <2>6. Parent(id) = d
    <3>1. id = Append(d, f) /\ f \in Nodes \union Files
      BY <2>2, <2>4
    <3> HIDE DEF f
    <3> QED
      BY <2>5, <3>1, AppendIs
  <2> QED
    BY <2>1, <2>2, <2>4, <2>6 DEF Dir
<1> QED
  BY <1>1, <1>2

\* What holds of files, states and directories whoever changes them.
Standing == FilesOK /\ StoreOK /\ TreeOK /\ RootInv

\* The steps that leave files and states alone.
LEMMA StandingStays ==
  ASSUME TargetTypes, Standing, Shrinks, UNCHANGED <<home, store>>, TreeOK', RootInv'
  PROVE  Standing'
<1>1. FilesOK'
  BY FilesStay DEF TargetTypes, Standing
<1>2. StoreOK'
  BY DEF Standing, StoreOK
<1> QED
  BY <1>1, <1>2 DEF Standing

\* The lookups of an upload begin with nothing found.
LEMMA RootedUpload ==
  ASSUME TypeInv, RootInv, NEW w \in Workers, UNCHANGED <<cache, entries>>,
         UNCHANGED call \/ Return(w) \/ \E p \in Paths : LookForParent(w, p)
  PROVE  RootInv'
<1>1. call \in [Workers -> Call] /\ \A v \in Workers : Rooted(call[v])
  BY DEF TypeInv, CallsOK, RootInv
<1>2. \A v \in Workers : Rooted(call'[v])
  <2>1. ASSUME Return(w) PROVE \A v \in Workers : Rooted(call'[v])
    BY <1>1, <2>1, RootedIdle DEF Return, Set
  <2>2. ASSUME NEW p \in Paths, LookForParent(w, p) PROVE \A v \in Workers : Rooted(call'[v])
    <3>1. PICK e : e = [Idle EXCEPT !.op = "mkdir", !.path = p, !.at = "lookup", !.old = Retired]
      OBVIOUS
    <3>2. e.found = <<>> /\ e.at = "lookup"
      BY <3>1 DEF Idle
    <3>3. Set(w, e)
      BY <2>2, <3>1 DEF LookForParent
    <3>4. Len(<<>>) = 0 /\ 1 .. 0 = {}
      BY EmptySeq
    <3>5. Rooted(e)
      BY <3>2, <3>4 DEF Rooted
    <3> QED
      BY <1>1, <3>3, <3>5 DEF Set
  <2> QED
    BY <1>1, <2>1, <2>2
<1>3. \A v \in Workers : \A c : Rooted(c) /\ call'[v] = c => Rooted(call[v])'
  BY DEF Rooted
<1> QED
  BY <1>2, <1>3 DEF RootInv

LEMMA StandingDirectory ==
  ASSUME TargetTypes, Standing, NEW w \in Workers, DirectoryStep(w)
  PROVE  Standing'
<1>1. (Begin(w) \/ Proceed(w)) /\ UNCHANGED <<home, store>>
  BY DEF DirectoryStep, fileVars
<1> QED
  BY <1>1, DirectoriesShrink, RootedStep, TreeStep, StandingStays DEF TargetTypes, Standing

\* The steps of an upload up to its transfer.
LEMMA StandingLookups ==
  ASSUME TargetTypes, Standing, NEW w \in Workers,
         \/ BeginUpload(w) \/ FindObject(w) \/ TakeParent(w) \/ NoParent(w) \/ Resume(w) \/ Abort(w)
  PROVE  Standing'
<1>1. UNCHANGED nsVars /\ UNCHANGED <<cache, entries>> /\ UNCHANGED <<home, store>>
  BY DEF BeginUpload, FindObject, TakeParent, NoParent, Resume, Abort, vars, nsVars
<1>2. UNCHANGED call \/ Return(w) \/ \E p \in Paths : LookForParent(w, p)
  <2>1. FindObject(w) => up[w].path \in Paths
    BY DEF TargetTypes, UploadInv, Uploads
  <2> QED
    BY <2>1 DEF BeginUpload, FindObject, TakeParent, NoParent, Resume, Abort, vars
<1>3. RootInv' /\ TreeOK' /\ Shrinks
  BY <1>1, <1>2, RootedUpload, SameTree, RequestsShrink DEF TargetTypes, Standing
<1> QED
  BY <1>1, <1>3, StandingStays

LEMMA StandingAlone ==
  ASSUME TargetTypes, Standing, UNCHANGED vars, FilesOK', StoreOK'
  PROVE  Standing'
<1>1. RootInv'
  <2>1. \A v \in Workers : \A c : Rooted(c) /\ call'[v] = c => Rooted(call[v])'
    BY DEF Rooted
  <2>2. RootInv /\ UNCHANGED <<cache, call, entries>>
    BY DEF vars, Standing
  <2> QED
    BY <2>1, <2>2 DEF RootInv
<1>2. TreeOK'
  <2>1. UNCHANGED nsVars /\ TreeOK
    BY DEF vars, nsVars, Standing
  <2> QED
    BY <2>1, SameTree
<1> QED
  BY <1>1, <1>2 DEF Standing

\* An upload writes a document that belongs to its target.
LEMMA TargetMade ==
  ASSUME UploadInv, NEW w, NEW id \in Targets(w)
  PROVE  MakesOf(id, up[w].parent, up[w].over)
BY DEF UploadInv, Targets, MakesOf

LEMMA StandingTransmit ==
  ASSUME TargetTypes, Standing, NEW w \in Workers, Transmit(w)
  PROVE  Standing'
<1> DEFINE p == up[w].path
           Kept(id) == [parent |-> up[w].parent, over |-> up[w].over, new |-> id]
<1>1. UNCHANGED vars /\ UNCHANGED <<home, alive, fresh>>
  BY DEF Transmit, vars
<1>2. FilesOK'
  BY <1>1 DEF Standing, FilesOK, Live
<1>3. store \in [Paths -> States] /\ p \in Paths
  BY DEF TargetTypes, UploadInv, Uploads
<1>4. \/ UNCHANGED store
      \/ Keep(p, NoState)
      \/ \E id \in Targets(w) : Keep(p, Kept(id))
  BY DEF Transmit
<1>5. ASSUME NEW s, s = NoState \/ MakesOf(s.new, s.parent, s.over), Keep(p, s) PROVE StoreOK'
  <2>1. \A q \in Paths : store'[q] = IF q = p THEN s ELSE store[q]
    BY <1>3, <1>5 DEF Keep
  <2> QED
    BY <1>5, <2>1 DEF Standing, StoreOK
<1>6. ASSUME NEW id \in Targets(w), Keep(p, Kept(id)) PROVE StoreOK'
  <2>1. PICK s : s = Kept(id)
    OBVIOUS
  <2>2. s.new = id /\ s.parent = up[w].parent /\ s.over = up[w].over /\ Keep(p, s)
    BY <1>6, <2>1
  <2>3. MakesOf(s.new, s.parent, s.over)
    BY <2>2, TargetMade DEF TargetTypes
  <2> QED
    BY <1>5, <2>2, <2>3
<1>7. StoreOK'
  <2>1. UNCHANGED store => StoreOK'
    BY DEF Standing, StoreOK
  <2> QED
    BY <1>4, <1>5, <1>6, <2>1
<1> QED
  BY <1>1, <1>2, <1>7, StandingAlone

LEMMA StandingFinish ==
  ASSUME TargetTypes, Standing, NEW w \in Workers, Finish(w)
  PROVE  Standing'
<1> DEFINE id == up[w].new
           f == Leaf(id)
<1>1. UNCHANGED vars /\ UNCHANGED nsVars /\ UNCHANGED <<alive, fresh>>
  BY DEF Finish, vars, nsVars
<1>2. FilesOK'
  <2>1. CASE UNCHANGED home
    BY <1>1, <2>1 DEF Standing, FilesOK, Live
  <2>2. CASE Lands(w) /\ home' = [home EXCEPT ![f] = Dir(Parent(id))]
    <3>1. CASE up[w].over = NoDocument
      <4>1. Resolves(Parent(id)) /\ FilesIn(Parent(id)) = {}
        BY <2>2, <3>1 DEF Lands
      <4> QED
        BY <1>1, <2>2, <4>1, FilePlaced DEF TargetTypes, Standing
    <3>2. CASE up[w].over # NoDocument
      <4>1. Live(f) /\ FileId(f) = id
        BY <2>2, <3>2 DEF Lands
      <4>2. f \in Files => Dir(Parent(id)) = home[f]
        BY <4>1, FileKept DEF TargetTypes
      <4>3. UNCHANGED home
        BY <2>2, <4>2 DEF TargetTypes, UploadInv
      <4> QED
        BY <2>1, <4>3
    <3> QED
      BY <3>1, <3>2
  <2> QED
    BY <2>1, <2>2 DEF Finish
<1>3. StoreOK'
  <2>1. UNCHANGED store \/ Keep(up[w].path, NoState)
    BY DEF Finish
  <2>2. Keep(up[w].path, NoState) => \A q \in Paths : store'[q] = NoState \/ store'[q] = store[q]
    BY DEF Keep, TargetTypes, UploadInv
  <2> QED
    BY <2>1, <2>2 DEF Standing, StoreOK
<1> QED
  BY <1>1, <1>2, <1>3, StandingAlone

LEMMA StandingOthers ==
  ASSUME TargetTypes, Standing, OtherClient
  PROVE  Standing'
<1>1. UNCHANGED store
  BY DEF OtherClient, ForeignFile
<1>2. StoreOK'
  BY <1>1 DEF Standing, StoreOK
<1>3. CASE ForeignChange /\ UNCHANGED home
  <2>1. UNCHANGED <<cache, call, entries>>
    BY <1>3 DEF ForeignChange
  <2>2. RootInv'
    <3>1. \A v \in Workers : \A c : Rooted(c) /\ call'[v] = c => Rooted(call[v])'
      BY DEF Rooted
    <3> QED
      BY <2>1, <3>1 DEF RootInv, Standing
  <2> QED
    BY <1>1, <1>3, <2>2, DirectoriesShrink, ForeignTree, StandingStays DEF TargetTypes, Standing
<1>4. CASE ForeignFile
  <2>1. UNCHANGED nsVars /\ UNCHANGED <<alive, fresh>> /\ UNCHANGED <<cache, call, entries>>
    BY <1>4 DEF ForeignFile, nsVars, fsVars
  <2>2. FilesOK'
    <3>1. ASSUME NEW d, NEW f, Resolves(d), FilesIn(d) = {}, home' = [home EXCEPT ![f] = Dir(d)]
          PROVE  FilesOK'
      BY <2>1, <3>1, FilePlaced DEF TargetTypes, Standing
    <3>2. ASSUME NEW f \in Files, home' = [home EXCEPT ![f] = NoId] PROVE FilesOK'
      <4>1. /\ DOMAIN home = Files /\ alive \subseteq Nodes /\ fresh \subseteq Nodes
            /\ NoId # Top /\ NoId \notin alive /\ NoId \notin fresh
        BY HomeAssumption DEF TargetTypes, UploadInv, TypeInv, NsTypeOK
      <4>2. \A g \in Files : home'[g] = NoId \/ home'[g] = home[g]
        BY <3>2, <4>1
      <4>3. \A g \in Files : home'[g] \notin fresh'
        BY <2>1, <4>1, <4>2 DEF Standing, FilesOK
      <4>4. \A g, h \in Files : Live(g)' /\ home'[g] = home'[h] =>
               home'[g] = home[g] /\ home'[h] = home[h] /\ Live(g)
        BY <2>1, <4>1, <4>2 DEF Live
      <4> QED
        BY <4>3, <4>4 DEF Standing, FilesOK
    <3> QED
      BY <1>4, <3>1, <3>2 DEF ForeignFile
  <2>3. RootInv' /\ TreeOK'
    <3>1. \A v \in Workers : \A c : Rooted(c) /\ call'[v] = c => Rooted(call[v])'
      BY DEF Rooted
    <3> QED
      BY <2>1, <3>1, SameTree DEF RootInv, Standing
  <2> QED
    BY <1>2, <2>2, <2>3 DEF Standing
<1> QED
  BY <1>3, <1>4 DEF OtherClient

LEMMA StandingRestart ==
  ASSUME TargetTypes, Standing, Restart
  PROVE  Standing'
<1>1. UNCHANGED nsVars /\ UNCHANGED <<alive, fresh>> /\ UNCHANGED <<home, store>>
  BY DEF Restart, nsVars
<1>2. RootInv'
  <2>1. \A p \in Paths : cache'[p] = <<>> => p = <<>>
    BY NoIdIsNoRoot DEF Restart
  <2>2. \A v \in Workers : Rooted(call'[v]) /\ entries'[v] = {}
    BY RootedIdle DEF Restart
  <2>3. \A v \in Workers : \A c : Rooted(c) /\ call'[v] = c => Rooted(call[v])'
    BY DEF Rooted
  <2> QED
    BY <2>1, <2>2, <2>3 DEF RootInv
<1> QED
  BY <1>1, <1>2, SameTree, RequestsShrink, StandingStays DEF Standing

-----------------------------------------------------------------------------
(* Uploads into directories that move: what an upload knows *)

\* The file an upload found, or none, is the one at its path.
OverOK(over, p) ==
    IF over = NoDocument THEN FilesAt(p) = {}
    ELSE Leaf(over) \in FilesAt(p) /\ over = FileId(Leaf(over))

\* What an upload found is true, and what it writes belongs to it.
KnowsUpload(u) ==
    /\ u.at \in {"start", "end"} \/ (u.at = "parent" /\ u.kind = "put") => OverOK(u.over, u.path)
    /\ u.at \in {"start", "end"} \/ (u.at = "object" /\ u.kind # "put") =>
         IsAt(u.parent, u.path)
    /\ u.at = "end" => MakesOf(u.new, u.parent, u.over)

\* Nobody else changed the library since rclone was started.
SteadyInv == steady => DirInv /\ \A w \in Workers : KnowsUpload(up[w])

\* The ID of a file ends in the file.
LEMMA FileIdIs ==
  ASSUME TypeInv, UploadInv, NEW f \in Files, Live(f)
  PROVE  FileId(f) # NoDocument /\ Leaf(FileId(f)) = f
<1>1. FileId(f) \in FileIds
  BY FileIdOf DEF TargetTypes
<1>2. CASE home[f] = Top
  <2>1. FileId(f) = <<f>> /\ <<f>> # <<>>
    BY <1>2 DEF FileId
  <2> QED
    BY <2>1, Pairs DEF NoDocument
<1>3. CASE home[f] # Top
  <2>1. PICK d : d = DocId(home[f]) /\ d \in DocIds /\ FileId(f) = Append(d, f)
    BY <1>3, PlaceTypes DEF Live, FileId, TypeInv, NsTypeOK
  <2>2. d \in Seq(Nodes \union Files)
    <3>1. d \in Seq(Nodes) /\ \A S : d \in Seq(S) => d \in Seq(S \union Files)
      BY <2>1, PathsAre
    <3> QED
      BY <3>1
  <2>3. Append(d, f) # <<>> /\ Leaf(Append(d, f)) = f
    BY <2>2, AppendIs
  <2> QED
    BY <2>1, <2>3 DEF NoDocument
<1> QED
  BY <1>2, <1>3

\* The directory of a file, as an ID, and where it is.
LEMMA HomeIsAt ==
  ASSUME TypeInv, NEW x \in alive
  PROVE  IsAt(DocId(x), PathOf(x)) /\ DocId(x) # <<>> /\ Leaf(DocId(x)) = x
<1>1. DocId(x) # <<>> /\ Leaf(DocId(x)) = x
  BY PlaceTypes DEF TypeInv, NsTypeOK
<1> QED
  BY <1>1 DEF IsAt, Resolves

\* Where nothing is taken away, files stay where they are.
LEMMA FilesAtStay ==
  ASSUME TypeInv, TypeInv', UploadInv, FilesOK, Shrinks, Grows, UNCHANGED home
  PROVE  /\ \A p : FilesAt(p)' = FilesAt(p)
         /\ \A f \in Files : Live(f) => FileId(f)' = FileId(f)
<1>1. ASSUME NEW x \in alive
      PROVE  x \in alive' /\ DocId(x)' = DocId(x) /\ PathOf(x)' = PathOf(x)
  <2>1. PICK d, p : d = DocId(x) /\ p = PathOf(x)
    OBVIOUS
  <2>2. IsAt(d, p) /\ d # <<>> /\ Leaf(d) = x
    BY <2>1, HomeIsAt
  <2>3. IsAt(d, p)'
    BY <2>2 DEF Grows
  <2> QED
    BY <2>1, <2>2, <2>3 DEF IsAt, Resolves
<1>2. \A f \in Files : Live(f)' => Live(f)
  BY LiveBefore
<1>3. \A f \in Files : Live(f) => home[f] = Top \/ home[f] \in alive
  BY DEF Live
<1>4. \A f \in Files : Live(f) => Live(f)'
  BY <1>1, <1>3 DEF Live
<1>5. ASSUME NEW p, NEW f \in Files PROVE f \in FilesAt(p)' <=> f \in FilesAt(p)
  <2>1. CASE home[f] = Top
    BY <1>2, <1>4, <2>1 DEF FilesAt
  <2>2. CASE home[f] # Top /\ Live(f)
    <3>1. PICK x \in alive : x = home[f] /\ home'[f] = x
      BY <1>3, <2>2
    <3>2. PathOf(home[f])' = PathOf(home[f])
      BY <1>1, <3>1
    <3> QED
      BY <1>2, <1>4, <2>2, <3>2 DEF FilesAt
  <2>3. CASE ~ Live(f)
    BY <1>2, <2>3 DEF FilesAt
  <2> QED
    BY <2>1, <2>2, <2>3
<1>6. \A p : FilesAt(p)' = FilesAt(p)
  <2> SUFFICES ASSUME NEW p PROVE FilesAt(p)' = FilesAt(p)
    OBVIOUS
  <2>1. FilesAt(p) \subseteq Files /\ FilesAt(p)' \subseteq Files
    BY DEF FilesAt
  <2> QED
    BY <1>5, <2>1
<1>7. ASSUME NEW f \in Files, Live(f) PROVE FileId(f)' = FileId(f)
  <2>1. home[f] # Top => DocId(home[f])' = DocId(home[f])
    BY <1>1, <1>3, <1>7
  <2> QED
    BY <2>1 DEF FileId
<1> QED
  BY <1>6, <1>7

LEMMA OverStays ==
  ASSUME TypeInv, TypeInv', UploadInv, FilesOK, Shrinks, Grows, UNCHANGED home,
         NEW over, NEW p, OverOK(over, p)
  PROVE  OverOK(over, p)'
<1>1. FilesAt(p)' = FilesAt(p)
  BY FilesAtStay
<1>2. CASE over = NoDocument
  BY <1>1, <1>2 DEF OverOK
<1>3. CASE over # NoDocument
  <2>1. PICK f : f = Leaf(over) /\ f \in FilesAt(p) /\ over = FileId(f)
    BY <1>3 DEF OverOK
  <2>2. f \in Files /\ Live(f)
    BY <2>1 DEF FilesAt
  <2>3. FileId(f)' = FileId(f)
    BY <2>2, FilesAtStay
  <2>4. FileId(Leaf(over))' = FileId(Leaf(over))
    BY <2>1, <2>3
  <2> QED
    BY <1>1, <1>3, <2>1, <2>4 DEF OverOK
<1> QED
  BY <1>2, <1>3

\* What an upload knows stays true where nothing is taken away.
LEMMA UploadKnows ==
  ASSUME TypeInv, TypeInv', UploadInv, FilesOK, Shrinks, Grows, UNCHANGED home,
         NEW u, KnowsUpload(u)
  PROVE  KnowsUpload(u)'
BY OverStays DEF KnowsUpload, Grows

\* One path, one file.
LEMMA OneFileAt ==
  ASSUME TypeInv, UploadInv, FilesOK, TreeOK, NEW p, NEW f \in FilesAt(p), NEW g \in FilesAt(p)
  PROVE  f = g
<1>1. f \in Files /\ g \in Files /\ Live(f) /\ Live(g)
  BY DEF FilesAt
<1>2. \A h \in Files : h \in FilesAt(p) => \/ home[h] = Top /\ p = <<>>
                                           \/ home[h] \in alive /\ home[h] # Top /\ p = PathOf(home[h])
  BY DEF FilesAt, Live
<1>3. \A x \in alive : PathOf(x) # <<>> /\ IsAt(DocId(x), PathOf(x)) /\ Leaf(DocId(x)) = x
  BY HomeIsAt, PlaceTypes DEF TypeInv, NsTypeOK
<1>4. home[f] = home[g]
  <2>1. CASE p = <<>>
    BY <1>1, <1>2, <1>3, <2>1
  <2>2. CASE p # <<>>
    <3>1. PICK x, y : /\ x = home[f] /\ y = home[g] /\ x \in alive /\ y \in alive
                      /\ PathOf(x) = p /\ PathOf(y) = p
      BY <1>1, <1>2, <2>2
    <3>2. DocId(x) = DocId(y)
      BY <1>3, <3>1, OneIsAt DEF TypeInv
    <3> QED
      BY <1>3, <3>1, <3>2
  <2> QED
    BY <2>1, <2>2
<1> QED
  BY <1>1, <1>4 DEF FilesOK

\* The one worker goes on with an upload that knows what is there.
LEMMA SteadyNext ==
  ASSUME Alone, NEW w \in Workers, NEW u, up'[w] = u, KnowsUpload(u)', DirInv'
  PROVE  SteadyInv'
<1>1. KnowsUpload(up[w])'
  BY DEF KnowsUpload, OverOK, FilesAt, FileId, Live, IsAt, Resolves, DocId, PathOf
<1>2. \A v \in Workers : v = w
  BY DEF Alone
<1>3. (\A v \in Workers : KnowsUpload(up[v]))'
  BY <1>1, <1>2
<1> QED
  BY <1>3 DEF SteadyInv

LEMMA LeaveKnows == KnowsUpload(NoUpload)'
BY DEF KnowsUpload, NoUpload

\* An upload asks for its parent, or has been told.
LEMMA AsksKnow ==
  ASSUME Alone, TypeInv, DirInv, NEW w \in Workers, call[w].at \in {"idle", "act"},
         UNCHANGED nsVars, UNCHANGED cache,
         Return(w) \/ \E p \in Paths : LookForParent(w, p)
  PROVE  DirInv'
<1>1. \A v \in Workers : v = w
  BY DEF Alone
<1>2. TreeOK /\ CacheTrue
  BY <1>1 DEF DirInv
<1>3. TreeOK' /\ CacheTrue'
  BY <1>2, SameTree, CacheGrows
<1>4. ASSUME NEW p \in Paths, LookForParent(w, p) PROVE KnowsDirs(w)'
  <2>1. PICK e : e = [Idle EXCEPT !.op = "mkdir", !.path = p, !.at = "lookup", !.old = Retired]
    OBVIOUS
  <2>2. e.found = <<>> /\ e.at = "lookup"
    BY <2>1 DEF Idle
  <2>3. call'[w] = e
    BY <1>4, <2>1 DEF LookForParent, Set, TypeInv, CallsOK
  <2>4. Len(<<>>) = 0 /\ 1 .. 0 = {}
    BY EmptySeq
  <2>5. KnowsCall(e)'
    BY <2>2, <2>4 DEF KnowsCall, KnowsFound
  <2> QED
    BY <2>2, <2>3, <2>5, KnowsNext
<1>5. KnowsDirs(w)'
  BY <1>4, ReturnKnows DEF TypeInv
<1> QED
  BY <1>1, <1>3, <1>5 DEF DirInv

\* A directory operation, or the lookup of an upload's parent.
LEMMA SteadyDirectory ==
  ASSUME Alone, MaxFaults = 0, TargetTypes, TargetTypes', Standing, SteadyInv, steady,
         NEW w \in Workers, DirectoryStep(w)
  PROVE  SteadyInv'
<1>1. /\ Begin(w) \/ Proceed(w)
      /\ UNCHANGED <<home, up>>
      /\ TypeInv /\ TypeInv' /\ UploadInv /\ FilesOK
      /\ DirInv /\ KnowsUpload(up[w])
      /\ \A v \in Workers : v = w
  BY DEF DirectoryStep, fileVars, TargetTypes, Standing, SteadyInv, Alone
<1>2. UNCHANGED faults
  <2>1. faults \in 0 .. 0 /\ faults' \in 0 .. 0
    BY <1>1 DEF TypeInv, CountersOK
  <2> QED
    BY <2>1
<1>3. DirInv'
  BY <1>1, <1>2, AloneStep
<1>4. PICK u : u = up[w]
  OBVIOUS
<1>5. CASE u.at = "none"
  <2>1. KnowsUpload(u)'
    BY <1>5 DEF KnowsUpload
  <2> QED
    BY <1>1, <1>3, <1>4, <2>1, SteadyNext
<1>6. CASE u.at = "parent"
  <2>1. call[w].op \in {"mkdir", "none"} /\ CallOK(call[w]) /\ Proceed(w)
    BY <1>1, <1>4, <1>6 DEF UploadInv, UploadOK, TypeInv, CallsOK, DirectoryStep
  <2>2. call[w].at # "flush" /\ ~ FlushStale(w)
    BY <2>1 DEF CallOK, FlushStale
  <2>3. ~ DeleteDir(w) /\ ~ MoveDir(w) /\ ~ SyncMove(w)
    BY <2>1 DEF CallOK, DeleteDir, Acting, MoveDir, SyncMove
  <2>4. TreeOK /\ CacheTrue /\ KnowsDirs(w)
    BY <1>1, <2>2 DEF DirInv
  <2>5. Grows
    BY <1>1, <1>2, <2>2, <2>3, <2>4, StepOrKeep, KeepingLearns DEF Learned
  <2>6. KnowsUpload(u)'
    BY <1>1, <1>4, <2>5, DirectoriesShrink, UploadKnows
  <2> QED
    BY <1>1, <1>3, <1>4, <2>6, SteadyNext
<1> QED
  BY <1>4, <1>5, <1>6 DEF DirectoryStep

\* The lookups of an upload.
LEMMA SteadyLookups ==
  ASSUME Alone, TargetTypes, TargetTypes', Standing, SteadyInv, steady, NEW w \in Workers,
         BeginUpload(w) \/ FindObject(w) \/ TakeParent(w)
  PROVE  SteadyInv'
<1>1. /\ UNCHANGED nsVars /\ UNCHANGED cache /\ UNCHANGED entries /\ UNCHANGED <<home, steady>>
      /\ TypeInv /\ TypeInv' /\ UploadInv /\ FilesOK
      /\ DirInv /\ KnowsUpload(up[w]) /\ up[w] \in Uploads /\ up \in [Workers -> Uploads]
      /\ \A v \in Workers : v = w
  BY DEF BeginUpload, FindObject, TakeParent, TargetTypes, Standing, SteadyInv, Alone, UploadInv
<1>2. Grows /\ Shrinks
  BY <1>1, SameTree, RequestsShrink
<1>3. ASSUME UNCHANGED call, call[w].at = "idle" PROVE DirInv'
  <2>2. TreeOK' /\ (CacheTrue => CacheTrue')
    BY <1>1, <1>2, SameTree, CacheGrows DEF DirInv
  <2>3. CacheTrue
    BY <1>1, <1>3 DEF DirInv
  <2>4. KnowsDirs(w)'
    <3>1. call'[w] = Idle
      BY <1>1, <1>3 DEF TypeInv, CallsOK, CallOK
    <3> HIDE DEF Idle
    <3> QED
      BY <3>1, IdleKnows, KnowsNext
  <2> QED
    BY <1>1, <2>2, <2>3, <2>4 DEF DirInv
<1>4. CASE BeginUpload(w)
  <2>1. PICK p \in Paths :
          \/ /\ Put(w, [NoUpload EXCEPT !.kind = "put", !.path = p, !.at = "object"])
             /\ UNCHANGED call
          \/ /\ Put(w, [NoUpload EXCEPT !.kind = "chunked", !.path = p, !.at = "parent"])
             /\ LookForParent(w, p)
    BY <1>4 DEF BeginUpload
  <2>2. DirInv'
    <3>1. call[w].at = "idle"
      BY <1>1, <1>4 DEF BeginUpload, TypeInv, CallsOK, CallOK
    <3> QED
      BY <1>1, <1>3, <2>1, <3>1, AsksKnow
  <2>3. PICK u : /\ up'[w] = u
                 /\ \/ u.kind = "put" /\ u.at = "object"
                    \/ u.kind = "chunked" /\ u.at = "parent"
    <3>1. PICK u : u = up'[w]
      OBVIOUS
    <3>2. \/ u = [NoUpload EXCEPT !.kind = "put", !.path = p, !.at = "object"]
          \/ u = [NoUpload EXCEPT !.kind = "chunked", !.path = p, !.at = "parent"]
      BY <1>1, <2>1, <3>1 DEF Put
    <3>3. \/ u.kind = "put" /\ u.at = "object"
          \/ u.kind = "chunked" /\ u.at = "parent"
      BY <3>2 DEF NoUpload
    <3> QED
      BY <3>1, <3>3
  <2>4. KnowsUpload(u)'
    BY <2>3 DEF KnowsUpload
  <2> QED
    BY <2>2, <2>3, <2>4, SteadyNext
<1>5. CASE FindObject(w)
  <2> DEFINE p == up[w].path
  <2>1. PICK o : /\ o \in IF FilesAt(p) = {} THEN {NoDocument} ELSE {FileId(f) : f \in FilesAt(p)}
                 /\ \/ /\ up[w].kind = "put"
                       /\ Put(w, [up[w] EXCEPT !.over = o, !.at = "parent"]) /\ LookForParent(w, p)
                    \/ /\ up[w].kind # "put"
                       /\ Put(w, [up[w] EXCEPT !.over = o, !.at = "start"]) /\ UNCHANGED call
    BY <1>5 DEF FindObject
  <2>2. up[w].at = "object" /\ call[w].at = "idle" /\ p \in Paths
    <3>1. up[w].at = "object" /\ UploadOK(up[w], call[w])
      BY <1>1, <1>5 DEF FindObject, UploadInv
    <3>2. call[w] = Idle
      BY <3>1 DEF UploadOK
    <3> QED
      BY <1>1, <3>1, <3>2 DEF Idle, Uploads
  <2>3. DirInv'
    BY <1>1, <1>3, <2>1, <2>2, AsksKnow
  <2>4. OverOK(o, p)
    <3>1. CASE FilesAt(p) = {}
      BY <2>1, <3>1 DEF OverOK
    <3>2. CASE FilesAt(p) # {}
      <4>1. PICK f \in FilesAt(p) : o = FileId(f)
        BY <2>1, <3>2
      <4>2. f \in Files /\ Live(f)
        BY <4>1 DEF FilesAt
      <4> QED
        BY <1>1, <4>1, <4>2, FileIdIs DEF OverOK
    <3> QED
      BY <3>1, <3>2
  <2>5. PICK u : u = up'[w]
    OBVIOUS
  <2>6. /\ u.over = o /\ u.path = p /\ u.parent = up[w].parent /\ u.kind = up[w].kind
        /\ u.at = IF u.kind = "put" THEN "parent" ELSE "start"
    <3>1. \/ up[w].kind = "put" /\ u = [up[w] EXCEPT !.over = o, !.at = "parent"]
          \/ up[w].kind # "put" /\ u = [up[w] EXCEPT !.over = o, !.at = "start"]
      BY <1>1, <2>1, <2>5 DEF Put
    <3>2. DOMAIN up[w] = {"kind", "at", "path", "over", "parent", "new"}
      BY <1>1 DEF Uploads
    <3> QED
      BY <1>1, <3>1, <3>2
  <2>7. u.kind # "put" => IsAt(u.parent, u.path)
    BY <1>1, <2>2, <2>6 DEF KnowsUpload
  <2>8. KnowsUpload(u)
    BY <2>4, <2>6, <2>7 DEF KnowsUpload
  <2>9. KnowsUpload(u)'
    BY <1>1, <1>2, <2>8, UploadKnows
  <2> QED
    BY <2>3, <2>5, <2>9, SteadyNext
<1>6. CASE TakeParent(w)
  <2>1. /\ up[w].at = "parent" /\ call[w].at = "act" /\ call[w].op = "mkdir"
        /\ call[w].path = up[w].path /\ Return(w)
    BY <1>1, <1>6 DEF TakeParent, Acting, UploadInv, UploadOK
  <2>2. DirInv'
    BY <1>1, <2>1, AsksKnow
  <2>3. PICK u : u = up'[w]
    OBVIOUS
  <2>4. /\ u.over = up[w].over /\ u.path = up[w].path /\ u.parent = Result(w, 1)
        /\ u.kind = up[w].kind /\ u.at = IF u.kind = "put" THEN "start" ELSE "object"
    BY <1>1, <1>6, <2>3 DEF TakeParent, Put, Uploads
  <2>5. IsAt(Result(w, 1), up[w].path)
    <3>1. Result(w, 1) = call[w].found[1] /\ Result(w, 1) \in DocIds /\ 1 \in 1 .. Len(call[w].found)
      BY <1>1, <2>1, ResultsUsed DEF Result
    <3>2. Lookups(call[w])[1].path = call[w].path
      <4>1. PICK q, l : q = call[w].path /\ l = Look(q, TRUE)
        OBVIOUS
      <4>2. Lookups(call[w]) = <<l>>
        BY <2>1, <4>1, LookupsOf
      <4>3. <<l>>[1] = l /\ l.path = q
        BY <4>1 DEF Look
      <4> QED
        BY <4>1, <4>2, <4>3
    <3>3. KnowsFound(call[w])
      BY <1>1, <2>1 DEF DirInv, KnowsDirs, KnowsCall
    <3>4. Result(w, 1) # NoId
      BY <3>1, TopAssumption
    <3> QED
      BY <2>1, <3>1, <3>2, <3>3, <3>4 DEF KnowsFound
  <2>6. u.kind = "put" => OverOK(u.over, u.path)
    BY <1>1, <2>1, <2>4 DEF KnowsUpload
  <2>7. KnowsUpload(u)
    BY <2>4, <2>5, <2>6 DEF KnowsUpload
  <2>8. KnowsUpload(u)'
    BY <1>1, <1>2, <2>7, UploadKnows
  <2> QED
    BY <2>2, <2>3, <2>8, SteadyNext
<1> QED
  BY <1>4, <1>5, <1>6

\* The steps after the lookups leave directories and cache alone.
LEMMA SteadyTransfer ==
  ASSUME Alone, TargetTypes, TargetTypes', Standing, SteadyInv, steady, NEW w \in Workers,
         NoParent(w) \/ Resume(w) \/ Transmit(w) \/ Abort(w) \/ Finish(w)
  PROVE  SteadyInv'
<1>1. /\ UNCHANGED vars /\ UNCHANGED nsVars
      /\ TypeInv /\ TypeInv' /\ UploadInv /\ FilesOK
      /\ DirInv /\ KnowsUpload(up[w]) /\ up[w] \in Uploads /\ up \in [Workers -> Uploads]
  BY DEF NoParent, Resume, Transmit, Abort, Finish, TargetTypes, Standing, SteadyInv, UploadInv,
         vars, nsVars
<1>2. Grows /\ Shrinks
  BY <1>1, SameTree, RequestsShrink
<1>3. DirInv'
  BY <1>1, KnownStays
<1>4. ASSUME Leave(w) PROVE SteadyInv'
  <2>1. up'[w] = NoUpload
    BY <1>1, <1>4 DEF Leave, Put
  <2> HIDE DEF NoUpload
  <2> QED
    BY <1>3, <2>1, LeaveKnows, SteadyNext
<1>5. ASSUME NEW new, Put(w, [up[w] EXCEPT !.new = new, !.at = "end"]), UNCHANGED home,
             up[w].at = "start", MakesOf(new, up[w].parent, up[w].over)
      PROVE  SteadyInv'
  <2>1. PICK u : u = up'[w]
    OBVIOUS
  <2>2. u = [up[w] EXCEPT !.new = new, !.at = "end"]
    BY <1>1, <1>5, <2>1 DEF Put
  <2>3. /\ u.over = up[w].over /\ u.path = up[w].path /\ u.parent = up[w].parent
        /\ u.new = new /\ u.at = "end"
    <3>1. DOMAIN up[w] = {"kind", "at", "path", "over", "parent", "new"}
      BY <1>1 DEF Uploads
    <3> QED
      BY <1>1, <2>2, <3>1 DEF Uploads
  <2>4. KnowsUpload(u)
    BY <1>1, <1>5, <2>3 DEF KnowsUpload
  <2>5. KnowsUpload(u)'
    BY <1>1, <1>2, <1>5, <2>4, UploadKnows
  <2> QED
    BY <1>3, <2>1, <2>5, SteadyNext
<1>6. CASE Resume(w)
  <2>1. PICK s : s = store[up[w].path]
    OBVIOUS
  <2>2. /\ ValidFor(s, w) /\ up[w].at = "start" /\ UNCHANGED home
        /\ Put(w, [up[w] EXCEPT !.new = s.new, !.at = "end"])
    BY <1>6, <2>1 DEF Resume
  <2>3. MakesOf(s.new, s.parent, s.over)
    BY <1>1, <2>1, <2>2 DEF Standing, StoreOK, ValidFor, Uploads
  <2> QED
    BY <1>5, <2>2, <2>3 DEF ValidFor
<1>7. CASE Transmit(w)
  <2>1. \/ Leave(w)
        \/ \E id \in Targets(w) : Put(w, [up[w] EXCEPT !.new = id, !.at = "end"])
    BY <1>7 DEF Transmit
  <2>2. up[w].at = "start" /\ UNCHANGED home
    BY <1>7 DEF Transmit
  <2> QED
    BY <1>1, <1>4, <1>5, <2>1, <2>2, TargetMade
<1> QED
  BY <1>4, <1>6, <1>7 DEF NoParent, Abort, Finish

LEMMA SteadyRestart ==
  ASSUME TargetTypes, Standing, Restart
  PROVE  SteadyInv'
<1>1. UNCHANGED nsVars
  BY DEF Restart, nsVars
<1>2. TreeOK'
  BY <1>1, SameTree DEF Standing
<1>3. CacheTrue'
  BY DEF Restart, CacheTrue, IsAt, Resolves
<1>4. ASSUME NEW w \in Workers PROVE KnowsDirs(w)'
  <2>1. call'[w] = Idle
    BY DEF Restart
  <2> HIDE DEF Idle
  <2> QED
    BY <2>1, IdleKnows, KnowsNext
<1>5. ASSUME NEW w \in Workers PROVE KnowsUpload(up[w])'
  <2>1. up'[w] = NoUpload
    BY DEF Restart
  <2>2. NoUpload.at = "none"
    BY DEF NoUpload
  <2> QED
    BY <2>1, <2>2 DEF KnowsUpload
<1> QED
  BY <1>2, <1>3, <1>4, <1>5 DEF SteadyInv, DirInv

TargetInv == TargetTypes /\ Standing /\ SteadyInv

LEMMA TargetInitial == TargetInit => Standing /\ SteadyInv
<1> SUFFICES ASSUME TargetInit PROVE Standing /\ SteadyInv
  OBVIOUS
<1>1. Init /\ home \in [Files -> alive \union {Top, NoId}] /\ fresh = Nodes \ alive
  BY DEF TargetInit, Init, NsInit
<1>2. FilesOK
  <2>1. \A f \in Files : home[f] \notin fresh
    BY <1>1, HomeAssumption, TopAssumption
  <2>2. \A f \in Files : Live(f) => home[f] # NoId
    BY <1>1, HomeAssumption DEF Live, Init, NsInit
  <2> QED
    BY <2>1, <2>2 DEF FilesOK, TargetInit
<1>3. StoreOK
  BY DEF TargetInit, StoreOK
<1>4. RootInv
  <2>1. \A p \in Paths : cache[p] = <<>> => p = <<>>
    BY <1>1, NoIdIsNoRoot DEF Init
  <2>2. \A w \in Workers : Rooted(call[w]) /\ entries[w] = {}
    BY <1>1, RootedIdle DEF Init
  <2> QED
    BY <2>1, <2>2 DEF RootInv
<1>5. TreeOK /\ DirInv
  BY <1>1, InitialKnown DEF DirInv
<1>6. \A w \in Workers : KnowsUpload(up[w])
  BY DEF TargetInit, KnowsUpload, NoUpload
<1> QED
  BY <1>2, <1>3, <1>4, <1>5, <1>6 DEF Standing, SteadyInv

LEMMA TargetStep ==
  ASSUME Alone, MaxFaults = 0, TargetInv, TargetTypes', [TargetNext]_allVars
  PROVE  Standing' /\ SteadyInv'
<1>1. TargetTypes /\ Standing /\ SteadyInv
  BY DEF TargetInv
<1>2. ASSUME NEW w \in Workers, DirectoryStep(w) \/ UploadStep(w) PROVE Standing' /\ SteadyInv'
  <2>1. Standing'
    BY <1>1, <1>2, StandingDirectory, StandingLookups, StandingTransmit, StandingFinish
       DEF UploadStep
  <2>2. UNCHANGED steady
    BY <1>2 DEF DirectoryStep, fileVars, UploadStep, BeginUpload, FindObject, TakeParent, NoParent,
                Resume, Transmit, Abort, Finish
  <2>3. steady => SteadyInv'
    BY <1>1, <1>2, SteadyDirectory, SteadyLookups, SteadyTransfer DEF UploadStep
  <2> QED
    BY <2>1, <2>2, <2>3 DEF SteadyInv
<1>3. CASE OtherClient
  BY <1>1, <1>3, StandingOthers DEF OtherClient, SteadyInv
<1>4. CASE Restart
  BY <1>1, <1>4, StandingRestart, SteadyRestart
<1>5. CASE UNCHANGED allVars
  <2>1. UNCHANGED vars /\ UNCHANGED <<home, store, up, steady, alive, fresh>>
    BY <1>5 DEF allVars, fileVars, vars
  <2>2. FilesOK' /\ StoreOK'
    BY <1>1, <2>1 DEF Standing, FilesOK, StoreOK, Live
  <2>3. Standing'
    BY <1>1, <2>1, <2>2, StandingAlone
  <2>4. ASSUME steady PROVE SteadyInv'
    <3>1. DirInv' /\ UNCHANGED nsVars
      BY <1>1, <2>1, <2>4, KnownStays DEF SteadyInv, TargetTypes, vars, nsVars
    <3>2. ASSUME NEW w \in Workers PROVE KnowsUpload(up[w])'
      <4>1. PICK u : u = up[w]
        OBVIOUS
      <4>2. KnowsUpload(u)'
        BY <1>1, <2>1, <2>4, <3>1, <4>1, SameTree, RequestsShrink, UploadKnows
           DEF SteadyInv, TargetTypes, Standing
      <4> QED
        BY <2>1, <4>1, <4>2 DEF KnowsUpload, OverOK, FilesAt, FileId, Live, IsAt, Resolves, DocId,
                                PathOf
    <3> QED
      BY <3>1, <3>2 DEF SteadyInv
  <2> QED
    BY <2>1, <2>3, <2>4 DEF SteadyInv
<1>6. Terminated /\ UNCHANGED fileVars => UNCHANGED allVars
  BY DEF Terminated, allVars
<1> QED
  BY <1>2, <1>3, <1>4, <1>5, <1>6 DEF TargetNext

LEMMA TargetInvariant == ASSUME Alone, MaxFaults = 0 PROVE TargetSpec => []TargetInv
<1>1. TargetInit /\ TargetTypes => TargetInv
  BY TargetInitial DEF TargetInv
<1>2. TargetInv /\ TargetTypes' /\ [TargetNext]_allVars => TargetInv'
  BY TargetStep DEF TargetInv
<1> QED
  BY <1>1, <1>2, TargetTyped, PTL DEF TargetSpec

\* The end of an upload that knows its path.
LEMMA UploadEnds ==
  ASSUME TargetTypes, TargetTypes', Standing, NEW w \in Workers, KnowsUpload(up[w]),
         UploadLands(w), NEW p, p = up[w].path
  PROVE  FilesAt(p)' = {Leaf(up[w].new)}
<1> DEFINE u == up[w]
           f == Leaf(u.new)
<1>1. /\ u.at = "end" /\ Lands(w) /\ UNCHANGED vars /\ UNCHANGED nsVars
      /\ UNCHANGED <<alive, place>>
      /\ home' = [home EXCEPT ![f] = Dir(Parent(u.new))]
      /\ home \in [Files -> Nodes \union {Top, NoId}]
      /\ u \in Uploads /\ TypeInv /\ UploadInv /\ FilesOK /\ TreeOK
  BY DEF UploadLands, Finish, vars, nsVars, TargetTypes, UploadInv, Standing
<1>2. OverOK(u.over, p) /\ IsAt(u.parent, p) /\ MakesOf(u.new, u.parent, u.over)
  BY <1>1 DEF KnowsUpload
<1>3. \A q : FilesAt(q)' \subseteq Files /\ FilesAt(q) \subseteq Files
  BY DEF FilesAt
<1>4. \A g \in Files : home'[g] = home[g] => \A q : g \in FilesAt(q)' <=> g \in FilesAt(q)
  BY <1>1 DEF FilesAt, Live, PathOf
<1>5. CASE u.over = NoDocument
  <2>1. PICK g \in Files : u.new = Append(u.parent, g)
    BY <1>2, <1>5 DEF MakesOf
  <2>2. PICK d : d = u.parent /\ d \in DocIds
    BY <1>1 DEF Uploads
  <2>3. Leaf(Append(d, g)) = g /\ Parent(Append(d, g)) = d
    <3>1. d \in Seq(Nodes \union Files)
      <4>1. d \in Seq(Nodes) /\ \A S : d \in Seq(S) => d \in Seq(S \union Files)
        BY <2>2, PathsAre
      <4> QED
        BY <4>1
    <3> QED
      BY <3>1, AppendIs
  <2>4. f = g /\ home'[g] = Dir(d)
    BY <1>1, <2>1, <2>2, <2>3
  <2>5. g \in FilesAt(p)'
    <3>1. IsAt(d, p)
      BY <1>2, <2>2
    <3>2. CASE d = <<>>
      BY <1>1, <2>4, <3>1, <3>2 DEF IsAt, FilesAt, Live, Dir
    <3>3. CASE d # <<>>
      <4>1. PICK x : x = Leaf(d) /\ x \in alive /\ p = PathOf(x) /\ home'[g] = x
        BY <2>4, <3>1, <3>3 DEF IsAt, Resolves, Dir
      <4>2. PathOf(home[g])' = PathOf(x) /\ x # Top
        BY <1>1, <4>1, TopAssumption DEF PathOf, TypeInv, NsTypeOK
      <4> QED
        BY <1>1, <4>1, <4>2 DEF FilesAt, Live
    <3> QED
      BY <3>2, <3>3
  <2>6. FilesAt(p) = {}
    BY <1>2, <1>5 DEF OverOK
  <2>7. \A h \in Files : h # g => h \notin FilesAt(p)'
    BY <1>1, <1>4, <2>4, <2>6
  <2> QED
    BY <1>3, <2>4, <2>5, <2>7
<1>6. CASE u.over # NoDocument
  <2>1. /\ u.new = u.over /\ f \in FilesAt(p) /\ u.new = FileId(f)
    BY <1>2, <1>6 DEF MakesOf, OverOK
  <2>2. f \in Files /\ Live(f)
    BY <2>1 DEF FilesAt
  <2>3. UNCHANGED home
    BY <1>1, <2>1, <2>2, FileKept
  <2>4. \A g \in Files : g \in FilesAt(p)' <=> g \in FilesAt(p)
    BY <1>4, <2>3
  <2>5. \A g \in FilesAt(p) : g = f
    BY <1>1, <2>1, OneFileAt
  <2> QED
    BY <1>3, <2>1, <2>2, <2>4, <2>5
<1> QED
  BY <1>5, <1>6

\* LandsThere: an upload of a goroutine that works alone, in a rclone since whose
\* start no other client changed the library, ends as the one file at its path,
\* wherever directories and files went before that start, whatever the state
\* file of an earlier attempt says, and whatever the cache had learned.
THEOREM LandsWhereNamed == ASSUME Alone, MaxFaults = 0 PROVE TargetSpec => LandsThere
<1>1. TargetInv /\ TargetTypes' /\ [TargetNext]_allVars =>
        [\A w \in Workers, p \in Paths :
           steady /\ UploadLands(w) /\ p = up[w].path => FilesAt(p)' = {Leaf(up[w].new)}]_allVars
  <2> SUFFICES ASSUME TargetInv, TargetTypes', NEW w \in Workers, NEW p \in Paths,
                      steady, UploadLands(w), p = up[w].path
               PROVE  FilesAt(p)' = {Leaf(up[w].new)}
    OBVIOUS
  <2>1. TargetTypes /\ Standing /\ KnowsUpload(up[w])
    BY DEF TargetInv, SteadyInv
  <2> QED
    BY <2>1, UploadEnds
<1> QED
  BY <1>1, TargetInvariant, TargetTyped, PTL DEF TargetSpec, LandsThere

\* Every variable of both components keeps its type, and at most one lookup, the
\* one that holds the mutex of the cache, is in progress.
THEOREM FilesTyped == FilesSpec => []TypesOK
<1>1. TargetTypes => TypeOK
  BY InvIsTyped DEF TargetTypes
<1>2. FileTypeOK /\ TypeOK => TypesOK
  BY DEF TypesOK
<1> QED
  BY <1>1, <1>2, FilesCompose, TypeCorrect, TargetTyped, PTL
=============================================================================
