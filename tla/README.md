# Verification of rclone-pkudisk

TLA+ models of the PKU Disk backend of rclone (`src/backend/pkudisk`), checked
with TLC, and theorems about them checked with TLAPS. File names without a path
are those of `src/backend/pkudisk`.

## The system

The backend is a Go package that rclone calls. It talks to two services: the
AnyShare API (JSON requests with a bearer token) and the object store behind it
(signed requests). Both are outside the repository.

| component | state | operations | interacts with |
|---|---|---|---|
| resumable chunk writer (`chunk_writer.go`) | per upload: upload ID, signed parts, `partInfo`, flags `closed`, `aborted`, `resumeInvalid`, under a mutex | `OpenChunkWriter`, `WriteChunk` (concurrent), `Close`, `Abort` | rclone's multi-thread copy calls it, from several goroutines and from its signal handler; it uses the resume store and both services |
| resume store (`multipart_resume.go`) | one JSON file and one advisory lock per destination, shared by all processes | open, load, save, remove, release, `validFor` | chunk writers of every process |
| uploads (`upload.go`) | none | start, sign, refresh, complete, end, part size | chunk writer, `Put`, `Update` |
| files (`pkudisk.go`) | `Object`: ID, revision, size, time | `NewObject`, `Put`, `Update`, `Open`, `Copy`, `Move`, `Remove`, `sync-delete`, `sync-move` | callers keep objects and use them later |
| directories (`pkudisk.go`) | rclone's `dircache`: path to document ID, one mutex for lookups | `List`, `Mkdir`, `Rmdir`, `Purge`, `DirMove`, `sync-delete-dir`, `sync-move` | all goroutines of the process share one cache |
| path resolution (`point_lookup.go`) | seeds the cache | `tryResolveRootByPath`, `newObjectByPath` | `NewFs`, `NewObject` |
| API client (`api.go`) | none | request, retry after an authentication error, retry of reads | token sources |
| token sources (`oauth.go`) | a global mutex and the rotating refresh token in rclone's configuration | `Token(refresh)` | API client; other processes share the configuration |
| desktop client token reader (`auth.go`) | a cached token under a mutex | `Token(refresh)`; reads the desktop client's LevelDB | API client; the client goes on writing |
| configuration, TLS client, command | none | set-up | |

What is hard here: parts of an upload are recorded on disk and reused days
later, by another process, for a source and a destination that may have
changed; requests take effect although their answer is lost; a part may reach
the object store after its sender gave up; rclone aborts a writer from a signal
handler while it works; the directory cache is filled and flushed by goroutines
that overlap; refresh tokens can be used once and several token sources share
them; the desktop client writes the files its token is read from; and objects
and directory IDs are used long after others changed what they name. `PROJECT.json` lists these hazards at their lines, and
the property that is about each, or why there is none.

What makes each component correct:

- uploads: the destination is replaced in one step, by what the source holds,
  and only if it still is the version the writer looked at; every byte goes into
  exactly one part, and no part breaks the service's limits;
- resume store: what is on disk names parts that exist, progress is not lost to
  a process without the lock, and no saved state makes every attempt fail;
- files: no version is overwritten, deleted or read that the caller did not
  name, a file ends up where the call said, and a copy neither replaces a file
  nor leaves a stray one;
- directories: a call acts on the directory at the path it was given, and no
  document library is removed;
- path resolution: `NewFs` finds the same root on each of its three routes;
- tokens: a refresh token is used once, a valid one is not thrown away, the
  token of the desktop client is one it had while it was read, and every call
  returns; a request that writes takes effect once.

## Modules

| module | models |
|---|---|
| `UploadTypes` | values shared by the upload modules |
| `UploadService` (external) | AnyShare's upload requests and the object store |
| `ResumeStore` | state file and lock, `multipart_resume.go` |
| `ChunkWriter` | `chunk_writer.go`, composed with the two above and with an environment |
| `ConditionalReplace` | what an upload promises, without protocol |
| `ChunkWriterRefinement` | `ChunkWriter` implements `ConditionalReplace` |
| `ChunkWriterProofs`, `ChunkWriterRefinementProofs` | theorems about `ChunkWriter`, its progress and its refinement |
| `PartPlan` | part sizes, the loops over parts, the ranges to sign |
| `Namespace` (external) | AnyShare's directories and document IDs |
| `DirCache` | directory operations of one `Fs` over the directory cache |
| `UploadTarget` | `DirCache` composed with uploads and their resume states |
| `RootLookup`, `RootLookupProofs` | `NewFs`, and one call near the virtual root; theorems |
| `FileOps` | whole-file operations on one path |
| `FileHandles`, `FileHandlesProofs` | what callers do with an `fs.Object` they hold; theorems |
| `SyncContract` | reading and checking the preconditions of a call |
| `TokenSource`, `ApiClient`, `ApiClientProofs` | tokens of `auth = oauth`, requests and their repetition; theorems |
| `DesktopToken` | the token of the desktop client |
| `WalReader` | the log records that token is read from |
| `MC*` | instances for TLC: symmetry, sets of operations and inputs |
| `MCCallsProofs` | theorems about `PartPlan`, `SyncContract` and their instance |
| `MCFilesProofs` | theorems about `FileOps`, `DirCache`, `UploadTarget` and their instance |
| `MCTokensProofs` | theorems about `DesktopToken`, `WalReader` and their instance |

`MCFiles`, `MCCalls` and `MCTokens` hold components that share no state side
by side: a behaviour exercises one of them, the `subject`, while the variables of
the others keep an initial value. For that reason the names of these modules are
told apart by a prefix (`PlanInit`, `ContractInit`, `RootInit`, `FileInit`, ...).

### ChunkWriter

A process `p` is an rclone process, or a goroutine with an `Fs` of its own, that
copies the source to the destination. `phase[p]` says where it is in
`OpenChunkWriter`, between its `WriteChunk` calls, or in `Close`; `job[p]` holds
the locals of `OpenChunkWriter`, later the fields of the writer; `part[p]` is
`partInfo` and `resumeState.Completed`, which the code updates together;
`chunk[p][k]` is the call for part `k`, and `halted[p]` stands for `aborted` and
`resumeInvalid`. Every request and file operation is a step of its own, because
others may act between two of them. What happens under the mutex is one step.

Contents are abstract: a part holds a member of `Bytes`, and two parts with the
same bytes have the same digest and ETag. `Stamps` are the identities `stat` can
show (path, size, mtime and source identity), so a source may change with or
without a new stamp.

A request is refused by the service, or fails without effect, or takes effect
and its answer is lost; the latter two, crashes (`Crash`), signals
(`SignalAbort`) and expired uploads (`ExpireUpload`) share the budget
`MaxFaults`. A part request that was given up may reach the store later
(`StoreLate`). Edits of the source and writes by other clients share
`MaxChanges`. `MaxId` bounds the upload IDs and revisions handed out; the runs
give more of them than the other bounds can use up.

The process that ends an attempt starts again, which stands for rclone's
retry and for the next invocation alike.

### PartPlan

`multipartPartSize`, the part count, the loop of `uploadMultipart` over the
stream, the chunk bounds of `WriteChunk` and the last check of `Close`, and
`missingMultipartRanges`. Numbers are `int64`: `Wrap` is what Go's arithmetic
does, with `Half` in the place of 2^63. `limits` are any three numbers, negative
ones included, since the code takes them as the service sends them. The one
assumption about sizes is `2 * MaxFile < Half`: no file is so large that the
round-up of a division wraps.

### DirCache

A call is a sequence of lookups and then its own requests (`call[w].at`). A
lookup holds the cache's mutex across its requests, as rclone's `FindDir` does;
`List` and the flushes do not take it. `List` caches its entries one by one.
A document ID is the chain of directories above a directory, so a move gives it
another ID and a rename keeps it, as `parentDocID` and `relocateEntry` assume.
A creation may fail with the directory made: its answer is lost, or it names no ID and
the listing after it fails. The root of the `Fs` is a library, and directories are
nested two deep.
`sync-move` and `sync-delete-dir` get the ID of a directory that existed when
the call began.

### UploadTarget

`DirCache` with files in its directories, and uploads among the other calls. An
upload looks for the file by its path and for the parent in the cache (in this
order in `Put`, in the other in `OpenChunkWriter`), starts or resumes, and ends or
breaks off; the state kept for a path survives `Restart`, the cache does not. All
files have one name, and one goroutine calls. The operations are those that
rename, move and remove directories; `Rmdir` and `sync-delete-dir` would have to
see the files. `LandsThere` speaks of executions in which no other client changed
the library since rclone was started, `steady`: a cached path may be out of date
otherwise, in any program with such a cache. Changes before a restart are in.

### RootLookup

`NewFs` step by step: the request for the whole path, the walk of `FindRoot`, the
parent and a file in it, with requests that fail and other clients that change the
tree in between. An ID spells the chain of entries, so the seeding of the cache is
a comparison of lengths, as in the code. Names below a library are stored encoded,
names of libraries are not (`Encode` wraps the name). Then one call of `Purge`,
`Rmdir`, `DirMove`, `sync-delete-dir` or `sync-move`, each in one step: what they do
near the virtual root, which holds the document libraries. Moved directories have
no children here; `Mkdir` at the virtual root is left out.

### FileOps, FileHandles, SyncContract

`FileOps` has one path; `file` is its document ID and revision. The source of a
copy is another file. A caller holds the object of its last successful call.
Single and sequential multipart uploads have the same steps here: start,
transfer, end, metadata. `looked`, `edits`, and in other modules `seen`, `old`,
`retired`, `base`, `wrote`, `ended`, `exchanged`, are history: no action depends on them.

`FileHandles` has several files in several directories and what callers do with
the object they hold: `Open` (with fresh metadata when there are preconditions, the
signed URL, the request of the body), `Move`, `sync-move` of a file, `Update` and
`Remove`, against other clients. A document ID spells its directory. The service
keeps old versions, also when a file is moved, and serves the one asked for. The
only ranges are those of the last bytes, which need the object's size; the others
go to the service as they are. `Update` goes through two requests that matter to the
object: the upload (`EndUpload`, what comes before it is `FileOps`) makes the version,
and a metadata request after it (`AdoptMetadata`) says what the object stands for from
then on. In between another client may write, and the object takes over that version's
revision and size (`Adopted`); or the second request, or the answer of the first, is
lost, and the object stays as it was although the new version is there. `ReplacesBase`
therefore speaks of the revision adopted last, whoever wrote it, and `silent_overwrite`
shows what follows from adopting another client's. What a caller can rely on all the
same is `ReadsOwnWrites`: it reads the version it wrote or a newer one. `MovesThere`
exempts calls of `Move` for files that others renamed or moved since they were found:
`relocateEntry` leaves out a name that looks unchanged, and move_test.go expects so.

`SyncContract` reads the options of a call one after the other, an upload's
metadata or a download's headers, and holds them against the object. `FileOps`
and `FileHandles` begin where it ends, with preconditions that were read.

### TokenSource and ApiClient

`TokenSource` is `oauthTokenProvider.Token` and, as external code, rclone's
`oauthutil.TokenSource`, the configuration and the authorization server. Token `n`
stands for the `n`-th access token and the `n`-th refresh token; exchanging refresh
token `n` ends it. An expired or refused token of a source is read again from the
configuration first, and adopted when it is valid or another one than before; an
`invalid_grant` ends the attempts. `ApiClient` is `doWithClient` with its second
round after an authentication error and `retryTransient` around reads. Lost answers
of the server, failed saves and other processes that refresh are steps
(`MaxFaults`, `MaxForeign`). The code cannot recover from them, the user has to sign
in again, and so the properties say of what they speak: `SubmittedOnce` of tokens
whose successor was saved, `ConfigMovesOn` of one process, `RefreshesOnlySpent` of
one goroutine to a source. With two, the second goroutine that was rejected for the
same token expires the one the first has just obtained (`oauth.go:47`); that costs
a refresh and loses nothing.

### DesktopToken and WalReader

`DesktopToken` is `pkudistTokenProvider.Token` of several goroutines against a
client that signs in and out and replaces its token, and whose LevelDB starts new
log files, flushes old ones into tables and removes them. The reader lists the logs,
reads one after the other and decides; without a token there it lists and copies
the database file by file and opens the copy. Batches here mention a key or not; a
log file is the sequence of its batches. goleveldb (external) refuses a copy that
misses a table. Decoding of strings and JSON is left out.

`WalReader` is the layer below: physical records in blocks, and the logical records
and mutations `auth.go` makes of them, after any number of bytes and with a client
that may have died between two records. `Block` is 16 instead of 32768, `Header`
is 7. `ReadsBatches` and `FindsNewestRead` leave out batches whose first physical
record is empty; `newest_token` below is about those.

`ReadsCurrent` and `CachedMovesOn` leave out calls for which a listed log file was
gone before it was read (`missed`): it is passed over (`auth.go:188`), and an older
token of another log file may be returned. `RefusesSignedOut` leaves out more, calls
during which log files or tables came or went (`changed`) or reading failed: a sign-out
may be found in one log file and the newer sign-in in one that was missed.

## Runs

| run | instance | shows |
|---|---|---|
| `two_writers` | 2 processes, 2 parts, 2 contents, 1 failure, 1 change | `CommitsSource`, `NoLostUpdate`, `ClaimedPartsExist`, `KeepsProgress`, `Implements` (the refinement of `ConditionalReplace`) and types |
| `progress` | 2 processes, 1 part, 1 failure, 1 change, weak fairness | `EveryCopyEnds` |
| `files` | `FileOps`: 2 callers, 3 calls, 1 failure, 2 changes by other clients. `UploadTarget`: 1 worker, 2 calls, 2 directories, 2 files, 1 change by another client, restarts | `ReplacesNamed`, `CopyReplacesNothing`, `NoStrayCopy`, `DeletesExpected`; `LandsThere`; types |
| `directories` | 1 worker, 3 calls of any operation, any tree of up to 3 directories | `CacheCurrent`, `ActsOnPath` |
| `calls_return` | 2 workers, 2 calls of `Mkdir`, `List` and `Purge`, 1 failure, 1 change by another client, weak fairness | `EveryCallReturns`, `MkdirsAgree` |
| `tokens` | `ApiClient`: 2 goroutines, each with a source, 2 calls, 1 failure, 1 token that ends, 1 refresh by another process. `DesktopToken`: 2 goroutines, 2 calls, 2 tokens, 2 log files, 1 failing file operation. `WalReader`: 3 batches, 2 log files. Weak fairness | `SubmittedOnce`, `ConfigMovesOn`, `RefreshesOnlySpent`, `AppliedOnce`; `ReadsCurrent`, `RefusesSignedOut`, `CachedMovesOn`; `EveryCallEnds` of both; `ReadsLogs` (`ReadsBatches` and `FindsNewestRead`); types |
| `calls` | `PartPlan`: files of up to 5 units, `Half` = 12, all limits. `SyncContract`: 2 metadata options or 4 headers. `RootLookup`: a library, 2 directories, a file, 2 failures, 1 change. `FileHandles`: 1 caller, 3 calls, 2 directories, 2 names, 1 failure, 2 changes | `CompletesWhole`, `KeepsLimits`, `SignsMissing`; `GoesAsAsked`, `RefusesForReason`, `ForwardsRest`; `SameAnswer`, `LibrariesKept`; `ReadsVersion`, `ReadsOwnWrites`, `MovesThere`, `ReplacesBase`; types |

Runs that put several modules side by side check one component per behaviour
(`subject`); their `TypesOK` conjoins the modules' type invariants.

Why the bounds suffice: a hazard of the resumable upload needs one writer that
leaves a state behind and one that picks it up, and one disturbance; two parts are
the least for one to be reused and one to be uploaded, and two contents the least
for a stale part to differ. Longer chains of attempts are what the theorems are for.
A stale entry of the directory cache needs a call that fills it, one that
invalidates it and one that uses it: three calls. With three directories a tree has
a parent, a child and another place to move to. An overwritten version needs one
upload and one change by somebody else inside it; `files` allows two of each.
An upload that goes astray needs an attempt that is interrupted, a directory that
another client moves, a restart and an attempt that resumes. A refresh token that is
used twice needs two sources and a token that ends. A token of the desktop client
that is too old needs two tokens in two log files, one of which goes. With `Half` =
12 products of the limits wrap once and several times, and 5 units give plans of one
part, of equal parts and of a shorter last part, with runs of missing parts at both
ends and in the middle. Blocks of 16 bytes give batches within a block, to its end,
across one and across two blocks, and ends of blocks with and without room for a
header.

Five runs end in a violation. Each checks what a comment or the README of the
repository says:

- `library_removed` (`LibrariesStay`). `Rmdir` looks at the parent only when it is
  called for the root itself (`pkudisk.go:476`). For a path below the virtual root,
  as in `rclone rmdirs` of the whole remote, it deletes an empty document library.
  `Purge` has the check. README.md:114 says that libraries cannot be removed; the
  property `LibrariesKept` shows that no other call does.
- `newest_token` (`FindsNewest`). When exactly a header fits into the rest of a
  block, LevelDB begins a batch with an empty FIRST record. `auth.go:267` leaves
  `fragment` nil then, and drops the rest of the batch. If that held the newest
  token, an older one is returned; the comment at `auth.go:109` wants the newest.
- `expired_resume` (`ExpiredUploadRestarts`). An upload that was interrupted
  after its last part is resumed without a signing request, so an expired upload
  ID is not noticed before `Close`. `Close` fails and removes the state, and
  the retry starts afresh: nothing is lost but time, and
  `progress` shows that the copy ends. README.md:218 promises a refresh.
- `stale_after_move` (`MovedOutOfReach`). A listing or a lookup that got its
  answer before a directory `sync-move` is entered into the cache after the
  flush. A `Purge` of the old path, called after all of them returned, deletes
  the moved directory. The comment at `pkudisk.go:773` says that it cannot.
- `silent_overwrite` (`NoSilentOverwrite`). `Update` takes the revision of the
  metadata it reads after `osendupload`. When another client wrote in between,
  the next `Update` of the same object replaces that client's version without a
  conflict; the comment at `upload.go:105` says that `editedrev` prevents it.

### Fairness

`progress` assumes weak fairness of `Step(p)`: a running attempt goes on, since
Go schedules goroutines and every request ends by a timeout, and an unfinished
copy is tried again, which is what rclone's retries and a repeated invocation
do. Nothing is assumed of signals, crashes, expiry, late requests, other clients
or edits. The lock needs no strong fairness in this instance: a process leaves
it free for good once its copy has ended. `calls_return` assumes weak fairness
of `Proceed(w)`: a call that began goes on. `tokens` assumes it of `Do(c)` for API
requests and of the calls of `DesktopToken`. Their mutexes are Go mutexes, which are
handed to a goroutine that waits; weak fairness is enough since the calls are
bounded. No caller has to call, and nothing is assumed of the server, of other
processes or of the desktop client.

## Proofs

The theorems, with the hypotheses that are not among the named assumptions of the
modules:

| theorem | states |
|---|---|
| `ChunkWriterProofs!TypeCorrect` | `Spec => []TypeOK` |
| `ChunkWriterProofs!CommitsOnlySource` | `Spec => CommitsSource` |
| `ChunkWriterProofs!ReplacesOnlyBase` | `Spec => NoLostUpdate` |
| `ChunkWriterRefinementProofs!ClaimsAreStored` | `Spec => []ClaimedPartsExist` |
| `ChunkWriterRefinementProofs!ProgressIsKept` | `Spec => KeepsProgress` |
| `ChunkWriterRefinementProofs!UploadReplacesConditionally` | `Spec => Implements` |
| `MCCallsProofs!PlanTyped` | `PlanSpec => []PlanTypeOK` |
| `MCCallsProofs!CompletesWholeFile` | `PlanSpec => []CompletesWhole` |
| `MCCallsProofs!KeepsServiceLimits` | `PlanSpec => []KeepsLimits` |
| `MCCallsProofs!SignsOnlyMissing` | `PlanSpec => []SignsMissing` |
| `MCCallsProofs!ContractTyped` | `ContractSpec => []ContractTypeOK` |
| `MCCallsProofs!GoesOnlyAsAsked` | `ContractSpec => []GoesAsAsked` |
| `MCCallsProofs!RefusedForReason` | `ContractSpec => []RefusesForReason` |
| `MCCallsProofs!ForwardsOnlyRest` | `ContractSpec => []ForwardsRest` |
| `MCCallsProofs!CallsTyped` | `CallsSpec => []TypesOK` |
| `RootLookupProofs!RootTyped` | `RootSpec => []RootTypeOK` |
| `RootLookupProofs!LibrariesAreKept` | `RootSpec => []LibrariesKept` |
| `RootLookupProofs!NewFsAnswersSame` | `RootSpec => []SameAnswer` |
| `FileHandlesProofs!HandlesTyped` | `Spec => []TypeOK` |
| `FileHandlesProofs!BodyIsVersion` | `Spec => []ReadsVersion` |
| `FileHandlesProofs!OwnWritesAreRead` | `Spec => []ReadsOwnWrites` |
| `FileHandlesProofs!RelocationLands` | `Spec => MovesThere` |
| `FileHandlesProofs!UpdateReplaces` | `Spec => ReplacesBase` |
| `MCFilesProofs!TypeCorrect` | `FileSpec => []FileTypeOK` |
| `MCFilesProofs!ReplacesOnlyNamed` | `FileSpec => ReplacesNamed` |
| `MCFilesProofs!CopyReplacesNoFile` | `FileSpec => CopyReplacesNothing` |
| `MCFilesProofs!DeletesOnlyExpected` | `FileSpec => DeletesExpected` |
| `MCFilesProofs!NoCopyLeft` | `FileSpec => []NoStrayCopy` |
| `MCFilesProofs!DirsTyped` | `Spec => []TypeOK` |
| `MCFilesProofs!LibraryIsNoTarget` | `Spec => []BelowLibrary` |
| `MCFilesProofs!CacheIsCurrent` | `Spec => []CacheCurrent`, for one worker, without failures and other clients |
| `MCFilesProofs!ActsOnNamedPath` | `Spec => ActsOnPath`, for the same |
| `MCFilesProofs!CreationsAgree` | `Spec => MkdirsAgree` (while nothing was removed or failed), without calls that move directories |
| `MCFilesProofs!LandsWhereNamed` | `TargetSpec => LandsThere`, for one worker, without failures |
| `MCFilesProofs!FilesTyped` | `FilesSpec => []TypesOK` |
| `ApiClientProofs!TypeCorrect` | `Spec => []TypeOK` |
| `ApiClientProofs!SubmitsTokensOnce` | `Spec => SubmittedOnce` |
| `ApiClientProofs!SavedTokenMovesOn` | `Spec => ConfigMovesOn` |
| `ApiClientProofs!RefreshesSpentTokens` | `Spec => RefreshesOnlySpent`, one goroutine to a source |
| `ApiClientProofs!WritesApplyOnce` | `Spec => []AppliedOnce` |
| `MCTokensProofs!DesktopTyped` | `DesktopSpec => []DesktopTypeOK` |
| `MCTokensProofs!ReadsCurrentToken` | `DesktopSpec => ReadsCurrent` |
| `MCTokensProofs!RefusesOnlySignedOut` | `DesktopSpec => RefusesSignedOut` (while the listed files stay as they are) |
| `MCTokensProofs!CachedTokenMovesOn` | `DesktopSpec => CachedMovesOn` |
| `MCTokensProofs!LogsAreReadAsWritten` | `WalSpec => []ReadsLogs` |
| `MCTokensProofs!WalTyped` | `WalSpec => []WalTypeOK` |
| `MCTokensProofs!TokensTyped` | `TokensSpec => []TypesOK` |

The assumptions are named in the modules: the bounds are natural numbers, the calls
are among those modelled, `None`, `NoId`, `Top` and the like are not values, a header
is shorter than a block, and for `PartPlan` that no file is half as large as `int64`
allows. TLC evaluates them in the runs. The hypotheses of the theorems about
directories are those under which the properties are meant, and the runs have them:
`Directories.cfg` and `Files.cfg` give one worker and no failures, the former no
other clients, and `CallsReturn.cfg` no call that moves directories. Each is
needed: a lost answer leaves a stale cache, as does a goroutine that lists while
another one moves (`stale_after_move`), and a directory moved by one goroutine
is a parent that another one no longer finds.

For `ChunkWriter`, `TypeOK` is not inductive alone: that a call of a part has bytes to send, and
that a writer past `OpenChunkWriter` has an upload ID, is needed to see that
what it saves is a `ResumeState`. `TypeInv` adds these, with one lemma per
action.

`CommitsSource` and `NoLostUpdate` follow from

    IInv == TypeInv /\ SourceSeen /\ CallsSeen /\ Handed /\ EndingFixed
            /\ BoundUploads /\ BoundState /\ ExpectedHolds

- `SourceSeen`: what the source holds now is among what a running attempt saw.
- `CallsSeen`: bytes a call has read, and parts whose digest it compared, were
  seen. This is where the check of the SHA-256 enters: a part taken over from
  disk counts only once its call is done.
- `Handed`: an upload in use was handed out already, so a new one is another.
- `EndingFixed`: between the completion and `osendupload` the upload is
  assembled, and its parts are those listed, which were seen. A request that
  arrives late no longer changes it.
- `BoundUploads`, `BoundState`: the upload a writer has, and the one a state file
  names, was begun for the base written next to it. This is what the comparison
  in `validFor` carries from one attempt to the next.
- `ExpectedHolds`: past the lookup, the base is what the caller expected.

Each action preserves each conjunct; the commit step then has all it needs in
the state before it.

`ClaimedPartsExist` and `KeepsProgress` need `ProgressInv`, which adds two groups.
`Claims` follows a part from the request that stored it (`StoredClaims`) to the
writer (`PartClaims`) and the file (`DiskClaims`); uploads only gain parts
(`PartsStay`). `Locking` says why a save loses nothing: one process holds the lock
(`OneHolder`); who lost it to a signal is halted or closing, so it no longer records
(`ReleasedHalted`); the holder has in memory all that the file lists for its upload
(`HolderKnows`); and an upload that was just begun is on no file and with no other
writer (`NewIsPrivate`), so the first save of it overwrites nothing of its own.
`DiskWritten` reduces a change of the file to the two saves.

For the refinement, every step of a writer maps to one of `Begin`, `Bind`, `Replace`,
`Quit` or to none (`WriterMoves`), one lemma for each, and so do the steps of the
environment (`EnvironmentMoves`). That `Replace` gives the destination a new
revision needs one more invariant, `RevisionOrder`: an upload's revision is later than
the one it was begun for, also when the upload replaces an expired one.

For `PartPlan`, the lemmas are about division: a plan that passes the checks of
`multipartPartSize` has `partSize` times `partCount` at least the size, and with one
part less it is smaller. The products in the code may wrap, and where one does the
checks before it must be shown to refuse or the result not to matter. `SplitInv`
then says that the parts sent so far are the expected pieces (`SentPieces`), that the
stream has been read so far (`StreamRead`), and that an upload which is done has sent
all of them (`DoneWhole`).

For `FileOps`, the types are inductive, one lemma per group of actions.
`ReplacesNamed` rests on them and on `Named`: between the check of the
preconditions and `osendupload`, a precondition names the version the call works
on. `AcceptsCurrent` does the rest: with `editedrev` the service accepts the
current version only, and without it the call is a creation, for which a document
must be absent. `CopyReplacesNothing` follows from the types: `OwnCall` shows
that the step is the caller's own, and the service refuses both requests while
the name is taken. `NoStrayCopy` follows from `StraysOwned`: a copy under an automatic
name belongs to a call that is about to rename or to delete it, as long as no
request failed (`CopySteps`). `DeletesExpected` follows from `Compared`: while the
number of changes is the one of the comparison, the file is what was compared
(`ChangesCounted`: no step changes the file without counting).

For `SyncContract`, the invariant says that what was read so far agrees with every
option before `next` (`Agrees`) and comes from one of them (`ComesFromOptions`), and
that a decision rests on it (`Decided`). The theorems hold for lists of any length,
where TLC has two or four options.

For `ApiClient`, the invariant relates the token of each source to the configuration:
whoever holds the mutex is the only one between its look at the configuration and
its save, a token that was exchanged and saved is older than the configured one, and
a source in the midst of a refresh has read the configuration. That is what
`oauthTokenMu` and the second look at the configuration are for.

`SignsOnlyMissing` is about `RangesFrom`, a recursive function. Induction over the
parts is replaced by a least counterexample (`LeastNumber`, from the fact that the
naturals are well-founded): first that a function with this recursion exists,
then that its runs are maximal and in order.

For `RootLookup`, `LibInv` says that the libraries have been where they are until the
one call that follows (`BeforeCall`), that the Fs knows the parent of its root
(`KnowsParent`), and how far the walk has come (`Walking`). `SameAnswer` needs
`Undisturbed`: while nobody else has changed the tree, what each route has found so
far is what the tree says of the prefix of the path. The depth of the root is any
number, so chains are sequences and lemmas about their prefixes come first.

For `FileHandles`, `Based` relates an object to the revision it was found with or
adopted last, `Agrees` what a call of `Open` has been told to its preconditions, and
`ServesAsked` the URL to the version it was signed for. Files are moved and replaced in
between; an old version is still there when the URL is signed, which is all that `Open`
needs. For `ReadsOwnWrites`, `Held` says that a document is a given version or a newer
one as long as it exists, and since IDs are not used again and versions only get newer
it stays so in every step (`HeldStays`). `Owns` says it of what an object wrote last,
also while the metadata request is still to come, and `Awaits` of what a download has
been told so far.

For `DesktopToken`, `LastSaid` is what a set of log files says of a key together, the
last mention over the earlier ones, and `Combined` is that over the tables. `ClientInv`
says that the files hold the session of the client at any time, also while the tables
already have what a log file says that is still there. `ReaderInv` says the same of a
reader: what it has found, combined with what it is still to read, was the session
at some moment since its listing (`Seen`). A step of the client may add mentions to
that, or take a file away that is then found missing; a step of the reader moves a file
from one side to the other (`WillFind`).

For `WalReader`, `LogInv` says what LevelDB leaves in the files: physical records
are pieces of batches, one batch after the other, and a piece begins where the last one
of its batch ended (`Pieces`); only the last batch of a file may lack its end
(`LastPiece`); and a batch that is whole has used up its sequence numbers before the
next one is given any (`NumberedFor`). A batch that a crash cut off has not, and the
next one begins with the same number: the reader must never see it. The loop of
`levelDBLogicalRecords` then has a fragment open exactly between the first and the
last piece of one batch, and the fragment is what that batch has up to there
(`HasRead`), except where the first piece was empty (`StartsEmpty`). The three loops
of `readLatestWALMutations` keep the greatest sequence number of the positions they
have passed (`Knows`); by `NumberedFor` that is the last in the order of writing
(`NewestIsFound`), in whatever order the files were read (`OrderHasAll`). The loops
are recursive functions of the number of rounds: that such a function exists
(`LoopExists`) and that what a round keeps holds at the end (`UpTo`) comes from the
least round at which it would fail.

For `DirCache`, `TypeInv` adds to the types what a call keeps of its lookups
(`CallOK`), that the holder of the mutex is the one worker in a lookup (`MutexOK`), and
that the library stays in the cache. It holds for any number of workers, failures
and other clients. `LibraryIsNoTarget` needs `RootInv` besides: no path below the library is
ever taken for the library, by an entry of the cache, a result of a lookup or a listing. `CacheIsCurrent` and `ActsOnNamedPath` follow from

    DirInv == TreeOK /\ (\A w \in Workers : KnowsDirs(w))
              /\ (CacheTrue \/ \E w \in Workers : call[w].at = "flush" /\ CacheTrueBut(w))

`KnowsDirs` says that whatever a call has found so far is at the path it looked for
(`IsAt`), and likewise the entries of a listing that are still to be cached. The cache
is true, or a call is about to flush all that is not (`CacheTrueBut`). The steps of
the first kind take nothing away (`Grows`: what an ID was at, it still is at), and one
lemma for each shows that it learns only the truth. A removal or a relocation takes
away what is at or below one path and nothing else (`GoneOnly`, with `DeleteMoves`,
`RenameMoves`, `MoveMoves`), which is what `Below` flushes. That is where it matters
that an ID spells the chain above a directory and that `sync-move` flushes everything.

`CreationsAgree` has several workers, failures and other clients, so nothing can be
said of the cache in general. `CalmInv` says it while no request has failed and
nothing was removed: then all workers know the truth (`OthersKnow`), and the one
that creates a directory holds the mutex (`OneCreates`), so that no other finds the
name taken. Only a lack of fresh directories, a bound, stops a call.

`LandsWhereNamed` composes this with the uploads. `Standing` holds whoever does
what: a directory holds one file at most, one that is not created yet none
(`FilesOK`), and a state file names a document that belongs to the parent and the
file it names (`StoreOK`). While the library is `steady`, `DirInv` holds and
an upload knows the one file at its path, or that there is none, and the ID
of its directory (`KnowsUpload`). A restart empties the cache and so establishes `DirInv`
anew from `TreeOK` alone. `validFor` makes the document of a state file one of the
target found just now, whatever happened to directories since it was written.

For the instances that hold several modules, a behaviour is one of each
(`FilesCompose`, `CallsCompose`, `TokensCompose`), so that the invariants of the modules
give the one the runs check.

What only TLC checks:

- liveness: `EveryCopyEnds`, `EveryCallReturns`, `EveryCallEnds`. Fairness and ENABLED
  are out of reach of the prover.
- the five properties that the code does not have; TLC finds the counterexamples.

Every safety invariant and action property of the passing runs has a theorem.

## Not modelled

- Signed URLs, form and JSON encoding, name encoding beyond whether it is applied,
  times.
- The remove-and-rename fallback of `save` on Windows, which can lose a state
  file and nothing else; a state file damaged on disk is a failed load.
- Files below a directory that is checked for emptiness by `Rmdir` and
  `sync-delete-dir`.
- Lookups of parents by `Copy` and `Move` while directories change, and uploads of
  several goroutines into directories that change.
- `Mkdir` at the virtual root, and ranges of `Open` other than the last bytes.
- Configuration (`oauth.go`: the interactive sign-in), the TLS client
  (`object_http.go`) and `rclone.go`: sequential set-up.

## Plan

What would come next: `Copy` and `Move` with the directory cache, and files in the
directories of `Rmdir` and `sync-delete-dir`, in `UploadTarget`.
