---------------------------- MODULE DesktopToken ----------------------------
(***************************************************************************)
(* The access token of the signed-in desktop client, read from its LevelDB *)
(* while the client goes on using it: pkudistTokenProvider.Token and       *)
(* readPkudistAccessToken of auth.go.  The log files are read first; only  *)
(* when no token is found there the database is copied file by file and    *)
(* the copy opened.                                                        *)
(*                                                                         *)
(* The client and its LevelDB are external.  A log file is the sequence of *)
(* its batches; WalReader says how far the reader finds them.              *)
(***************************************************************************)
EXTENDS Naturals, Sequences, FiniteSetsExt

CONSTANTS
    Readers,         \* goroutines
    Unset,           \* a key that a batch or a file does not mention
    MaxToken,        \* bound: tokens
    MaxLog,          \* bound: log files
    MaxReads,        \* bound: calls
    MaxReadFaults    \* bound: file operations that fail

ASSUME UnsetAssumption == Unset \notin Nat /\ Unset \notin BOOLEAN

ASSUME BoundsAssumption ==
    MaxToken \in Nat /\ MaxLog \in Nat \ {0} /\ MaxReads \in Nat /\ MaxReadFaults \in Nat

VARIABLES
    session,     \* what the client has stored: its token, 0 for none; whether it is signed in
    issued,      \* number of tokens the client has had
    logs,        \* logs[n]: batches of log file n; files that are gone are absent
    newest,      \* the log file that is written
    flushed,     \* log files up to this one are in the tables
    tables,      \* what the tables say
    cached,      \* pkudistTokenProvider.token, 0: ""
    call,        \* call[c]: what caller c is doing
    answer,      \* answer[c]: what c's last call returned, 0: an error
    seen,        \* seen[c]: tokens that were current since c listed the files (history)
    changed,     \* changed[c]: files came or went since then (history)
    reads, readFaults   \* counters of the bounds

client  == <<session, issued, logs, newest, flushed, tables>>
history == <<seen, changed>>
desktopVars == <<session, issued, logs, newest, flushed, tables, cached, call, answer,
                 seen, changed, reads, readFaults>>

Tokens  == 0 .. MaxToken
Entry   == [token : Tokens \union {Unset}, signedIn : BOOLEAN \union {Unset}]
Nothing == [token |-> Unset, signedIn |-> Unset]

\* todo: files still to be read, in the order of their names.  found: what they
\* said so far.  version: tables at the listing.  missed: a listed log file was
\* gone when it was to be read (history).
Call == [at : {"idle", "cached", "wait", "glob", "logs", "decide", "list", "tables", "copy", "open"},
         refresh : BOOLEAN, todo : SUBSET (1 .. MaxLog), found : Entry,
         version : 0 .. MaxLog, missed : BOOLEAN]

Idle == [at |-> "idle", refresh |-> FALSE, todo |-> {}, found |-> Nothing,
         version |-> 0, missed |-> FALSE]

\* Steps under the write lock.
Locked == {"glob", "logs", "decide", "list", "tables", "copy", "open"}

DesktopTypeOK ==
    /\ session \in [token : Tokens, signedIn : BOOLEAN]
    /\ issued \in Tokens
    /\ DOMAIN logs \subseteq 1 .. MaxLog /\ \A n \in DOMAIN logs : logs[n] \in Seq(Entry)
    /\ newest \in 1 .. MaxLog /\ flushed \in 0 .. MaxLog /\ tables \in Entry
    /\ cached \in Tokens
    /\ call \in [Readers -> Call] /\ answer \in [Readers -> Tokens]
    /\ seen \in [Readers -> SUBSET Tokens] /\ changed \in [Readers -> BOOLEAN]
    /\ reads \in 0 .. MaxReads /\ readFaults \in 0 .. MaxReadFaults

DesktopInit ==
    /\ session = [token |-> 0, signedIn |-> FALSE] /\ issued = 0
    /\ logs = [n \in {1} |-> <<>>]
    /\ newest = 1 /\ flushed = 0 /\ tables = Nothing
    /\ cached = 0
    /\ call = [c \in Readers |-> Idle] /\ answer = [c \in Readers |-> 0]
    /\ seen = [c \in Readers |-> {}] /\ changed = [c \in Readers |-> FALSE]
    /\ reads = 0 /\ readFaults = 0

Current == IF session.signedIn THEN session.token ELSE 0

\* The entries of one file over those of older ones.
Over(old, e) ==
    [token    |-> IF e.token = Unset THEN old.token ELSE e.token,
     signedIn |-> IF e.signedIn = Unset THEN old.signedIn ELSE e.signedIn]

SayToken(batches)  == {i \in DOMAIN batches : batches[i].token # Unset}
SaySigned(batches) == {i \in DOMAIN batches : batches[i].signedIn # Unset}

\* What the batches of one file say last of each key.
Summary(batches) ==
    [token    |-> IF SayToken(batches) = {} THEN Unset
                  ELSE batches[Max(SayToken(batches))].token,
     signedIn |-> IF SaySigned(batches) = {} THEN Unset
                  ELSE batches[Max(SaySigned(batches))].signedIn]

Add(entry, batches) == Over(entry, Summary(batches))

-----------------------------------------------------------------------------
(* The desktop client *)

Commit(batch) ==
    /\ session' = Over(session, batch)
    /\ logs' = [logs EXCEPT ![newest] = Append(@, batch)]
    /\ seen' = [c \in Readers |-> seen[c] \union {Current'}]
    /\ UNCHANGED <<newest, flushed, tables, changed>>

\* The client signs in, or replaces its token.  What belongs together is
\* written as one batch; the sign-in state only when it changes.
ClientGetsToken ==
    /\ issued < MaxToken /\ issued' = issued + 1
    /\ Commit([token |-> issued', signedIn |-> IF session.signedIn THEN Unset ELSE TRUE])

ClientSignsOut ==
    /\ session.signedIn
    /\ Commit([token |-> 0, signedIn |-> FALSE])
    /\ UNCHANGED issued

ClientWrites == ClientGetsToken \/ ClientSignsOut

FilesChange ==
    /\ changed' = [c \in Readers |-> TRUE]
    /\ UNCHANGED <<session, issued, seen>>

\* The memtable is full and the one before is in the tables.
NewLog ==
    /\ newest < MaxLog /\ flushed = newest - 1
    /\ newest' = newest + 1
    /\ logs' = [n \in DOMAIN logs \union {newest'} |-> IF n = newest' THEN <<>> ELSE logs[n]]
    /\ UNCHANGED <<flushed, tables>>
    /\ FilesChange

Flush ==
    /\ flushed < newest - 1 /\ flushed \notin DOMAIN logs
    /\ flushed' = flushed + 1
    /\ tables' = Add(tables, logs[flushed'])
    /\ UNCHANGED <<logs, newest>>
    /\ FilesChange

\* A log file whose batches are in the tables is removed.
RemoveLog ==
    /\ flushed \in DOMAIN logs
    /\ logs' = [n \in DOMAIN logs \ {flushed} |-> logs[n]]
    /\ UNCHANGED <<newest, flushed, tables>>
    /\ FilesChange

Client ==
    /\ ClientWrites \/ NewLog \/ Flush \/ RemoveLog
    /\ UNCHANGED <<cached, call, answer, reads, readFaults>>

-----------------------------------------------------------------------------
(* pkudistTokenProvider.Token *)

Proceed(c, step) == call' = [call EXCEPT ![c].at = step] /\ UNCHANGED answer

\* The call ends, and the mutex is given back with it.
EndRead(c, token) ==
    /\ call' = [call EXCEPT ![c] = Idle]
    /\ answer' = [answer EXCEPT ![c] = token]

Fail(c) == EndRead(c, 0)

FileFails(c) == readFaults < MaxReadFaults /\ readFaults' = readFaults + 1 /\ Fail(c)

\* Seeded fault: Token reads the files without the mutex.
NoCacheMutex == TRUE

CacheUnlocked == \A c \in Readers : call[c].at \notin Locked

BeginRead(c) ==
    /\ call[c].at = "idle" /\ reads < MaxReads /\ reads' = reads + 1
    /\ \E refresh \in BOOLEAN :
         call' = [call EXCEPT ![c] = [Idle EXCEPT
                    !.refresh = refresh, !.at = IF refresh THEN "wait" ELSE "cached"]]
    /\ UNCHANGED <<cached, answer, history, readFaults>>

AnswerCached(c) ==
    /\ call[c].at = "cached" /\ CacheUnlocked
    /\ IF cached # 0 THEN EndRead(c, cached) ELSE Proceed(c, "wait")
    /\ UNCHANGED <<cached, history, reads, readFaults>>

\* Somebody else may have read the token in the meantime.
LockWrite(c) ==
    /\ call[c].at = "wait" /\ CacheUnlocked
    /\ IF cached # 0 /\ ~ call[c].refresh THEN EndRead(c, cached) ELSE Proceed(c, "glob")
    /\ UNCHANGED <<cached, history, reads, readFaults>>

\* The directory is there, and the names of the log files are taken.
ListLogs(c) ==
    /\ call[c].at = "glob"
    /\ \/ /\ call' = [call EXCEPT ![c].todo = DOMAIN logs, ![c].at = "logs"]
          /\ seen' = [seen EXCEPT ![c] = {Current}]
          /\ changed' = [changed EXCEPT ![c] = FALSE]
          /\ UNCHANGED <<answer, readFaults>>
       \/ FileFails(c) /\ UNCHANGED history
    /\ UNCHANGED <<cached, reads>>

\* Seeded fault: the mutation found first stays.
KeepFirst(found, batches) == Over(Add(Nothing, batches), found)

Latest(found, batches) == Add(found, batches)

\* A file that cannot be read is passed over.
ReadLog(c) ==
    LET n == Min(call[c].todo)
        there == n \in DOMAIN logs
    IN
    /\ call[c].at = "logs" /\ call[c].todo # {}
    /\ call' = [call EXCEPT
         ![c].todo = @ \ {n},
         ![c].found = IF there THEN Latest(@, logs[n]) ELSE @,
         ![c].missed = @ \/ ~ there]
    /\ UNCHANGED <<cached, answer, history, reads, readFaults>>

LogsRead(c) ==
    /\ call[c].at = "logs" /\ call[c].todo = {}
    /\ Proceed(c, "decide")
    /\ UNCHANGED <<cached, history, reads, readFaults>>

\* Sign-in state first; a token that was deleted is a sign-out.
Answer(c, entry) ==
    IF entry.signedIn = FALSE \/ entry.token \in {0, Unset}
    THEN Fail(c) /\ UNCHANGED cached
    ELSE cached' = entry.token /\ EndRead(c, entry.token)

\* Seeded fault: a token that is not in the logs is taken for deleted.
LogsDecide(c) ==
    call[c].at = "decide" /\ Answer(c, call[c].found) /\ UNCHANGED <<history, reads, readFaults>>

Decide(c) ==
    LET found == call[c].found IN
    /\ call[c].at = "decide"
    /\ IF found.signedIn = FALSE \/ found.token # Unset
       THEN Answer(c, found)
       ELSE Proceed(c, "list") /\ UNCHANGED cached
    /\ UNCHANGED <<history, reads, readFaults>>

-----------------------------------------------------------------------------
(* The snapshot: copyLevelDBSnapshot, then goleveldb opens the copy. *)

ListFiles(c) ==
    /\ call[c].at = "list"
    /\ \/ call' = [call EXCEPT ![c].todo = DOMAIN logs, ![c].version = flushed,
                               ![c].at = "tables"]
          /\ UNCHANGED <<answer, readFaults>>
       \/ FileFails(c)
    /\ UNCHANGED <<cached, history, reads>>

\* Tables and manifest; a table that the manifest names and that was not there
\* at the listing makes goleveldb give up.
CopyTables(c) ==
    /\ call[c].at = "tables"
    /\ \/ /\ call[c].version = flushed
          /\ call' = [call EXCEPT ![c].found = tables, ![c].at = "copy"]
          /\ UNCHANGED <<answer, readFaults>>
       \/ call[c].version # flushed /\ Fail(c) /\ UNCHANGED readFaults
       \/ FileFails(c)
    /\ UNCHANGED <<cached, history, reads>>

\* The logs come last.  goleveldb replays those that are not in its tables.
CopyLog(c) ==
    LET n == Min(call[c].todo) IN
    /\ call[c].at = "copy" /\ call[c].todo # {}
    /\ \/ /\ n \in DOMAIN logs
          /\ call' = [call EXCEPT ![c].todo = @ \ {n},
                 ![c].found = IF n <= call[c].version THEN @ ELSE Latest(@, logs[n])]
          /\ UNCHANGED <<answer, readFaults>>
       \/ n \notin DOMAIN logs /\ Fail(c) /\ UNCHANGED readFaults
       \/ FileFails(c)
    /\ UNCHANGED <<cached, history, reads>>

LogsCopied(c) ==
    /\ call[c].at = "copy" /\ call[c].todo = {}
    /\ Proceed(c, "open")
    /\ UNCHANGED <<cached, history, reads, readFaults>>

OpenCopy(c) ==
    /\ call[c].at = "open"
    /\ \/ Answer(c, call[c].found) /\ UNCHANGED readFaults
       \/ FileFails(c) /\ UNCHANGED cached
    /\ UNCHANGED <<history, reads>>

ClientToken(c) ==
    \/ AnswerCached(c) \/ LockWrite(c)
    \/ ListLogs(c) \/ ReadLog(c) \/ LogsRead(c) \/ Decide(c)
    \/ ListFiles(c) \/ CopyTables(c) \/ CopyLog(c) \/ LogsCopied(c) \/ OpenCopy(c)

Step(c) == (BeginRead(c) \/ ClientToken(c)) /\ UNCHANGED client

DesktopTerminated ==
    (\A c \in Readers : call[c].at = "idle") /\ reads = MaxReads /\ UNCHANGED desktopVars

DesktopNext == Client \/ (\E c \in Readers : Step(c)) \/ DesktopTerminated

DesktopSpec == DesktopInit /\ [][DesktopNext]_desktopVars

\* A goroutine that can go on does; the desktop client may stop at any time.
DesktopFairness == \A c \in Readers : WF_desktopVars(ClientToken(c) /\ UNCHANGED client)

-----------------------------------------------------------------------------
(* Properties *)

\* Caller c ends a call in which it read the files.
Answers(c) == call[c].at \in Locked /\ call'[c].at = "idle"

\* What a call reads is a token the signed-in client had at some moment since
\* the log files were listed, however its files are rotated, flushed and
\* removed in between: never the token of before a sign-out, never one that
\* had been replaced; as long as no listed log file was gone when it was read.
ReadsCurrent ==
    [][\A c \in Readers :
         Answers(c) /\ ~ call[c].missed => answer'[c] \in seen[c] \union {0}]_desktopVars

\* Reading is refused only if the client was signed out at some moment of it,
\* log files or tables came or went since they were listed, or reading failed.
\* While the files stay as they are nobody is asked to sign in who has.
RefusesSignedOut ==
    [][\A c \in Readers :
         Answers(c) /\ answer'[c] = 0 =>
             0 \in seen[c] \/ changed[c] \/ readFaults' # readFaults]_desktopVars

\* The token that all calls share is never replaced by an older one, unless a
\* listed log file was gone when it was read.
CachedMovesOn ==
    [][(\A c \in Readers : ~ call[c].missed) => cached' >= cached]_desktopVars

\* Every call of Token returns: the mutex is given back on every path.
EveryReadReturns == \A c \in Readers : call[c].at # "idle" ~> call[c].at = "idle"
=============================================================================
