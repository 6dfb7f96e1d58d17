----------------------------- MODULE WalReader -----------------------------
(***************************************************************************)
(* What rclone reads in the write-ahead logs of the desktop client's       *)
(* LevelDB while that client writes them: readLatestWALMutations and       *)
(* levelDBLogicalRecords of auth.go.                                       *)
(*                                                                         *)
(* LevelDB cuts a batch into physical records so that none crosses the end *)
(* of a block.  The writer is external; the reader sees the first bytes of *)
(* a file, however many have been written.  Bytes are pairs <<b, i>>, the  *)
(* i-th byte of batch b; what stands in a batch is what its mutations say. *)
(***************************************************************************)
EXTENDS Naturals, SequencesExt

CONSTANTS
    Block,       \* levelDBLogBlockSize
    Header,      \* bytes before the payload of a physical record: 7
    Keys,        \* the keys that are looked for
    Other,       \* any other key
    Lengths,     \* bound: lengths of batches
    Contents,    \* bound: mutations of a batch, sequences of [key, put]
    MaxBatches,  \* bound: batches
    MaxLogs      \* bound: log files

ASSUME SizeAssumption == Header \in Nat /\ Block \in Nat /\ Header >= 1 /\ Block > Header
ASSUME BatchAssumption ==
    /\ Lengths \subseteq Nat /\ Contents \subseteq Seq([key : Keys \union {Other}, put : BOOLEAN])
    /\ MaxBatches \in Nat /\ MaxLogs \in Nat \ {0}

VARIABLES
    wals,       \* wals[n]: physical records of the n-th log file
    batches,    \* all batches, in the order in which they were written
    left,       \* bytes of the last batch that are still to be written
    begun       \* its first physical record has been written

walVars == <<wals, batches, left, begun>>

Types == {"FULL", "FIRST", "MIDDLE", "LAST"}

\* at: offset in the file.  from: first byte of the batch it holds.
Physical == [type : Types, at : Nat, batch : Nat, from : Nat, length : Nat]

\* sequence: number of the first mutation.
Batch == [length : Nat, sequence : Nat, contents : Contents]

WalTypeOK ==
    /\ wals \in Seq(Seq(Physical)) /\ Len(wals) \in 1 .. MaxLogs
    /\ batches \in Seq(Batch) /\ Len(batches) <= MaxBatches
    /\ left \in Nat /\ begun \in BOOLEAN

WalInit == wals = << <<>> >> /\ batches = <<>> /\ left = 0 /\ begun = FALSE

Writing == left > 0

End(p) == p.at + Header + p.length

Size(log) == IF log = <<>> THEN 0 ELSE End(Last(log))

EndsBatch(p) == p.type \in {"FULL", "LAST"}

\* The batches that are whole in the first bytes of a log file.
Whole(log, size) ==
    {log[i].batch : i \in {j \in DOMAIN log : EndsBatch(log[j]) /\ End(log[j]) <= size}}

Finished == UNION {Whole(wals[n], Size(wals[n])) : n \in DOMAIN wals}

-----------------------------------------------------------------------------
(* LevelDB *)

NextSequence ==
    IF Finished = {} THEN 1
    ELSE LET last == batches[Max(Finished)] IN last.sequence + Len(last.contents)

BeginBatch ==
    /\ ~ Writing /\ Len(batches) < MaxBatches
    /\ \E length \in Lengths, contents \in Contents :
         /\ batches' = Append(batches, [length |-> length, sequence |-> NextSequence,
                                        contents |-> contents])
         /\ left' = length
    /\ begun' = FALSE
    /\ UNCHANGED wals

\* A header that does not fit goes into the next block.
NextAt(log) ==
    LET rest == Block - (Size(log) % Block) IN
    IF rest < Header THEN Size(log) + rest ELSE Size(log)

\* A header that just fits is written, with no byte of the batch behind it.
WriteRecord ==
    LET log    == Last(wals)
        at     == NextAt(log)
        length == Min({left, Block - (at % Block) - Header})
        type   == IF length = left THEN (IF begun THEN "LAST" ELSE "FULL")
                                   ELSE (IF begun THEN "MIDDLE" ELSE "FIRST")
    IN
    /\ Writing
    /\ wals' = [wals EXCEPT ![Len(wals)] = Append(@,
                  [type |-> type, at |-> at, batch |-> Len(batches),
                   from |-> Last(batches).length - left + 1, length |-> length])]
    /\ left' = left - length
    /\ begun' = TRUE
    /\ UNCHANGED batches

\* The memtable is full: later batches go to a new file.
NextWal ==
    /\ ~ Writing /\ Last(wals) # <<>> /\ Len(wals) < MaxLogs
    /\ wals' = Append(wals, <<>>)
    /\ UNCHANGED <<batches, left, begun>>

\* The client dies while it writes; the next one begins a file.
Crash ==
    /\ Writing /\ Len(wals) < MaxLogs
    /\ wals' = Append(wals, <<>>)
    /\ left' = 0
    /\ UNCHANGED <<batches, begun>>

WalTerminated == ~ Writing /\ Len(batches) = MaxBatches /\ UNCHANGED walVars

WalNext == BeginBatch \/ WriteRecord \/ NextWal \/ Crash \/ WalTerminated

WalSpec == WalInit /\ [][WalNext]_walVars

-----------------------------------------------------------------------------
(* The reader *)

Bytes(b, from, length) == [i \in 1 .. length |-> <<b, from + i - 1>>]

Payload(p) == Bytes(p.batch, p.from, p.length)

\* open: the fragment is not nil.
NoneRead == [open |-> FALSE, fragment |-> <<>>, records |-> <<>>]

\* append(fragment[:0], payload...): no bytes appended to nil are nil.
Restart(state, payload) ==
    [state EXCEPT !.open = state.open \/ payload # <<>>, !.fragment = payload]

Complete(state, record) == [NoneRead EXCEPT !.records = Append(state.records, record)]

\* Seeded fault: a full record leaves a fragment that was begun open.
LeaveOpen(state, p) ==
    IF p.type = "FULL" THEN [state EXCEPT !.records = Append(@, Payload(p))]
    ELSE [state EXCEPT !.open = TRUE, !.fragment = @ \o Payload(p),
             !.records = IF p.type = "LAST" THEN Append(@, state.fragment \o Payload(p)) ELSE @]

\* One round of the loop of levelDBLogicalRecords.
ReadRecord(state, p) ==
    CASE p.type = "FULL"                 -> Complete(state, Payload(p))
      [] p.type = "FIRST"                -> Restart(state, Payload(p))
      [] p.type = "MIDDLE" /\ state.open -> [state EXCEPT !.fragment = @ \o Payload(p)]
      [] p.type = "LAST" /\ state.open   -> Complete(state, state.fragment \o Payload(p))
      [] OTHER                           -> state

\* What has been read after n physical records; one that is cut off is not read.
LogicalRecords(log, size) ==
    LET after[n \in 0 .. Len(log)] ==
          IF n = 0 THEN NoneRead
          ELSE IF End(log[n]) > size THEN after[n - 1]
          ELSE ReadRecord(after[n - 1], log[n])
    IN  after[Len(log)].records

\* A record is taken for the batch whose bytes begin it.
BatchOf(record) == record[1][1]

\* The i-th mutation of batch b.
Mutation(b, i) == [sequence |-> batches[b].sequence + i - 1, put |-> batches[b].contents[i].put]

NoMutation == [sequence |-> 0, put |-> FALSE]

Newer(m, previous) == previous = NoMutation \/ m.sequence > previous.sequence

\* latest[k]: what is known of key k, before and after the i-th mutation of b.
Better(latest, b, i) ==
    LET key == batches[b].contents[i].key IN
    IF key \in Keys /\ Newer(Mutation(b, i), latest[key])
    THEN [latest EXCEPT ![key] = Mutation(b, i)]
    ELSE latest

\* The three loops: mutations of a batch, records of a file, files.
TakeBatch(latest, b) ==
    LET found[i \in 0 .. Len(batches[b].contents)] ==
          IF i = 0 THEN latest ELSE Better(found[i - 1], b, i)
    IN  found[Len(batches[b].contents)]

TakeRecords(latest, records) ==
    LET found[i \in 0 .. Len(records)] ==
          IF i = 0 THEN latest ELSE TakeBatch(found[i - 1], BatchOf(records[i]))
    IN  found[Len(records)]

\* order: the files in the order of their names.
LatestMutations(order) ==
    LET found[i \in 0 .. Len(order)] ==
          IF i = 0 THEN [k \in Keys |-> NoMutation]
          ELSE TakeRecords(found[i - 1], LogicalRecords(wals[order[i]], Size(wals[order[i]])))
    IN  found[Len(order)]

-----------------------------------------------------------------------------
(* Properties *)

\* Batches of which the first physical record holds no byte.
StartsEmpty(log) ==
    {log[i].batch : i \in {j \in DOMAIN log : log[j].type = "FIRST" /\ log[j].length = 0}}

\* Read after any number of bytes, a file yields the batches that were complete
\* by then, each whole, in order, and nothing made up of two batches or of half
\* a one; only batches that start with an empty record are left out.
ReadsBatches ==
    \A n \in DOMAIN wals : \A size \in 0 .. Size(wals[n]) :
        LET records == LogicalRecords(wals[n], size) IN
        /\ Range(records) = {Bytes(b, 1, batches[b].length) :
                               b \in Whole(wals[n], size) \ StartsEmpty(wals[n])}
        /\ \A i, j \in DOMAIN records : i < j => BatchOf(records[i]) < BatchOf(records[j])

Mentions(b, i, k) == batches[b].contents[i].key = k

\* m is the mutation of key k that was written last, of those in the batches S.
IsNewest(m, k, S) ==
    \/ m = NoMutation /\ \A b \in S : \A i \in DOMAIN batches[b].contents : ~ Mentions(b, i, k)
    \/ \E b \in S : \E i \in DOMAIN batches[b].contents :
         /\ Mentions(b, i, k) /\ m = Mutation(b, i)
         /\ \A c \in S : \A j \in DOMAIN batches[c].contents :
              Mentions(c, j, k) => c < b \/ (c = b /\ j <= i)

Readable == UNION {Whole(wals[n], Size(wals[n])) \ StartsEmpty(wals[n]) : n \in DOMAIN wals}

\* In whatever order the files are read, the mutation found for a key is the
\* last that was written of all that could be read.
FindsNewestRead ==
    \A order \in SetToSeqs(DOMAIN wals), k \in Keys :
        IsNewest(LatestMutations(order)[k], k, Readable)

\* Both, of the log files as they stand at any moment of their writing.
ReadsLogs == ReadsBatches /\ FindsNewestRead

\* auth.go says: "Chromium may keep the newest OAuth token only in the active
\* LevelDB WAL.  Read that first": a mutation found there is the newest.
FindsNewest ==
    \A order \in SetToSeqs(DOMAIN wals), k \in Keys :
        LatestMutations(order)[k] = NoMutation
          \/ IsNewest(LatestMutations(order)[k], k, Finished)
=============================================================================
