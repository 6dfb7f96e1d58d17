------------------------------ MODULE PartPlan ------------------------------
(***************************************************************************)
(* How an upload is split into parts: upload, multipartPartSize,            *)
(* uploadMultipart and signMultipartParts of upload.go, WriteChunk and      *)
(* Close of chunk_writer.go, missingMultipartRanges of multipart_resume.go. *)
(* Numbers are int64: arithmetic wraps at Half, which is 2^63 in the code,  *)
(* and the limits are whatever numbers the service sends.                  *)
(***************************************************************************)
EXTENDS Integers, Sequences

CONSTANTS
    Half,        \* int64 is -Half .. Half - 1
    Default,     \* defaultMultipartPartSize
    MaxFile      \* bound: no file is larger

ASSUME WidthAssumption == Half \in Nat /\ Default \in 1 .. Half - 1
ASSUME FileAssumption == MaxFile \in Nat /\ 2 * MaxFile < Half

VARIABLES
    way,          \* "stream": Put and Update; "chunks": the chunk writer
    size,         \* size of the file
    limits,       \* what osoption answers: PartMinSize, PartMaxSize, PartMaxNum
    stage,        \* where the upload is
    partSize, partCount,
    signed,       \* ranges sent to osuploadpart
    completed,    \* parts that a saved state records (chunks)
    part, remaining,    \* the loop of uploadMultipart (stream)
    sent          \* sent[p]: the bytes of the file that went into part p

planVars == <<way, size, limits, stage, partSize, partCount, signed, completed, part,
              remaining, sent>>
plan == <<way, size, limits, partSize, partCount, completed>>

Word   == -Half .. Half - 1
Limits == [min : Word, max : Word, num : Word]
Piece  == [offset : Nat, size : Nat]

Ended == {"single", "refused", "failed", "done"}

Wrap(n) == IF n \in Word THEN n ELSE ((n + Half) % (2 * Half)) - Half

\* Go's division truncates.
Quotient(a, b) == IF a >= 0 THEN a \div b ELSE -((-a) \div b)

\* (a + b - 1) / b
DividedUp(a, b) == Quotient(Wrap(a + b - 1), b)

Least(a, b)    == IF a <= b THEN a ELSE b
Greatest(a, b) == IF a >= b THEN a ELSE b

PlanInit ==
    /\ way \in {"stream", "chunks"}
    /\ size \in 0 .. MaxFile
    /\ limits \in Limits
    /\ stage = "new"
    /\ partSize = 0 /\ partCount = 0
    /\ signed = <<>>
    /\ completed = {}
    /\ part = 1 /\ remaining = 0
    /\ sent = << >>

-----------------------------------------------------------------------------
(* The plan *)

\* Small files go in one piece; OpenChunkWriter leaves empty ones to Put.
Single ==
    /\ stage = "new"
    /\ IF way = "stream" THEN size <= Default ELSE size = 0
    /\ stage' = "single"
    /\ UNCHANGED <<plan, signed, part, remaining, sent>>

\* Seeded fault: the number of parts is not limited.
FitsPart(l) == TRUE

FitsAll(l) == Wrap(l.max * l.num) >= size

Valid(l) == l.min > 0 /\ l.max > 0 /\ l.num > 0 /\ FitsAll(l)

EvenSize(l)   == DividedUp(size, l.num)
Clipped(l, n) == Least(Greatest(n, l.min), l.max)

PartSize(l) ==
    Clipped(l, IF Wrap(Default * l.num) < size THEN EvenSize(l) ELSE Default)

Plan ==
    /\ stage = "new"
    /\ IF way = "stream" THEN size > Default ELSE size > 0
    /\ IF Valid(limits)
       THEN /\ stage' = "planned"
            /\ partSize' = PartSize(limits)
            /\ partCount' = DividedUp(size, partSize')
            /\ remaining' = size
            /\ completed' \in (IF way = "stream" THEN {{}} ELSE SUBSET (1 .. partCount'))
       ELSE /\ stage' = "refused"
            /\ UNCHANGED <<partSize, partCount, remaining, completed>>
    /\ UNCHANGED <<way, size, limits, signed, part, sent>>

Missing(p) == p \in 1 .. partCount /\ p \notin completed

\* Seeded fault: the last part of a run of two or more is a range of its own.
BeforeLast(p) ==
    CHOOSE q \in p .. partCount :
        /\ \A r \in p .. q : Missing(r)
        /\ q = p \/ Missing(q + 1)
        /\ ~ Missing(q + 1) \/ ~ Missing(q + 2)

\* The last part of the run of missing parts that begins with p.
RunEnd(p) ==
    CHOOSE q \in p .. partCount : (\A r \in p .. q : Missing(r)) /\ ~ Missing(q + 1)

\* The loop of missingMultipartRanges, from part p on.
RangesFrom[p \in 1 .. Greatest(partCount, 0) + 1] ==
    IF p > partCount THEN <<>>
    ELSE IF ~ Missing(p) THEN RangesFrom[p + 1]
    ELSE <<[first |-> p, last |-> RunEnd(p)]>> \o RangesFrom[RunEnd(p) + 1]

MissingRanges == RangesFrom[1]

\* The stream signs all parts with one request.
Sign ==
    /\ stage = "planned"
    /\ \/ /\ signed' = IF way = "stream" THEN <<[first |-> 1, last |-> partCount]>>
                       ELSE MissingRanges
          /\ stage' = "sending"
       \/ stage' = "failed" /\ UNCHANGED signed
    /\ UNCHANGED <<plan, part, remaining, sent>>

-----------------------------------------------------------------------------
(* Sending the parts *)

Send(p, offset, length) ==
    sent' = [q \in DOMAIN sent \union {p} |->
               IF q = p THEN [offset |-> offset, size |-> length] ELSE sent[q]]

\* Seeded fault: the last part is taken to be a whole one.
WholeChunk == partSize

ChunkSize == Least(partSize, remaining)

\* One round of the loop of uploadMultipart, reading on in the stream.
SendNext ==
    /\ stage = "sending" /\ way = "stream" /\ part <= partCount
    /\ Send(part, size - remaining, ChunkSize)
    /\ remaining' = remaining - ChunkSize
    /\ part' = part + 1
    /\ UNCHANGED <<plan, stage, signed>>

\* Seeded fault: the loop is left without the check of what remains.
AnyRest == TRUE

NothingRemains == remaining = 0

FinishStream ==
    /\ stage = "sending" /\ way = "stream" /\ part > partCount
    /\ stage' = IF NothingRemains THEN "done" ELSE "failed"
    /\ UNCHANGED <<plan, signed, part, remaining, sent>>

\* rclone's multi-thread copy writes every chunk of the file, in any order.
Chunks == 0 .. (size + partSize - 1) \div partSize - 1

Expected(k) == Least(partSize, size - k * partSize)

WriteChunk(k) ==
    /\ stage = "sending" /\ way = "chunks" /\ k + 1 \notin DOMAIN sent
    /\ IF k >= partCount
       THEN stage' = "failed" /\ UNCHANGED sent
       ELSE Send(k + 1, k * partSize, Expected(k)) /\ UNCHANGED stage
    /\ UNCHANGED <<plan, signed, part, remaining>>

WriteChunks == stage = "sending" /\ \E k \in Chunks : WriteChunk(k)

\* Every chunk has been written; the parts have to be as many.
CloseChunks ==
    /\ stage = "sending" /\ way = "chunks"
    /\ \A k \in Chunks : k + 1 \in DOMAIN sent
    /\ stage' = IF DOMAIN sent = 1 .. partCount THEN "done" ELSE "failed"
    /\ UNCHANGED <<plan, signed, part, remaining, sent>>

\* A request fails, or the copy is given up.
Fail ==
    /\ stage = "sending"
    /\ stage' = "failed"
    /\ UNCHANGED <<plan, signed, part, remaining, sent>>

PlanTerminated == stage \in Ended /\ UNCHANGED planVars

PlanNext ==
    \/ Single \/ Plan \/ Sign
    \/ SendNext \/ FinishStream
    \/ WriteChunks \/ CloseChunks
    \/ Fail \/ PlanTerminated

PlanSpec == PlanInit /\ [][PlanNext]_planVars

-----------------------------------------------------------------------------
(* Properties *)

\* What signed holds is said by SignsMissing.
PlanTypeOK ==
    /\ way \in {"stream", "chunks"}
    /\ size \in 0 .. MaxFile
    /\ limits \in Limits
    /\ stage \in {"new", "planned", "sending"} \union Ended
    /\ partSize \in 0 .. Half - 1 /\ partCount \in Word
    /\ completed \subseteq 1 .. partCount
    /\ part \in Nat /\ remaining \in 0 .. MaxFile
    /\ DOMAIN sent \subseteq 1 .. partCount
    /\ sent \in [DOMAIN sent -> Piece]

\* The parts, put together in the order of their numbers, are the file.
Tiles ==
    /\ DOMAIN sent = 1 .. partCount /\ partCount >= 1
    /\ sent[1].offset = 0
    /\ \A p \in 1 .. partCount - 1 : sent[p + 1].offset = sent[p].offset + sent[p].size
    /\ sent[partCount].offset + sent[partCount].size = size
    /\ \A p \in 1 .. partCount : sent[p].size >= 1

\* An upload is completed only with all bytes of the file, each in one part,
\* whatever limits the service sends and whichever products of them wrap.
CompletesWhole == stage = "done" => Tiles

\* Nothing is sent that the service's limits forbid: not too many parts, none
\* too large and, where its limits allow it, none but the last too small.
KeepsLimits ==
    \A p \in DOMAIN sent :
        /\ p <= limits.num
        /\ sent[p].size <= limits.max
        /\ p < partCount /\ limits.min <= limits.max => sent[p].size >= limits.min

\* The ranges to sign are the longest runs of missing parts, each once and in
\* order: nothing is signed twice, and no completed part is uploaded again.
SignsMissing ==
    stage = "sending" /\ way = "chunks" =>
        /\ \A i \in DOMAIN signed :
             /\ \A p \in signed[i].first .. signed[i].last : Missing(p)
             /\ signed[i].first <= signed[i].last
             /\ ~ Missing(signed[i].first - 1) /\ ~ Missing(signed[i].last + 1)
        /\ \A i \in 1 .. Len(signed) - 1 : signed[i].last < signed[i + 1].first
        /\ \A p \in 1 .. partCount :
             Missing(p) => \E i \in DOMAIN signed : p \in signed[i].first .. signed[i].last
=============================================================================
