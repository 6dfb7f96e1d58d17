--------------------------- MODULE MCCallsProofs ---------------------------
(***************************************************************************)
(* Theorems about the single calls: a completed upload is the whole file,   *)
(* for every width of the integers and every limits; the preconditions are  *)
(* read rightly from option lists of any length; and what MCCalls composes  *)
(* of the four components is each of them.                                 *)
(***************************************************************************)
EXTENDS MCCalls, FileHandlesProofs, RootLookupProofs, WellFoundedInduction, SequenceTheorems,
        TLAPS

-----------------------------------------------------------------------------
(* PartPlan *)

(* Arithmetic *)

LEMMA ZeroTimes == \A a \in Int : 0 * a = 0
OBVIOUS

LEMMA TimesMonotone ==
  ASSUME NEW a \in Nat, NEW b \in Nat, NEW c \in Nat, a <= b
  PROVE  a * c <= b * c
OBVIOUS

LEMMA TimesCancel ==
  ASSUME NEW a \in Int, NEW b \in Int, NEW c \in Nat, a * c < b * c
  PROVE  a < b
<1>1. SUFFICES ASSUME b <= a PROVE b * c <= a * c
  OBVIOUS
<1>2. (a - b) * c >= 0
  BY <1>1
<1>3. (a - b) * c = a * c - b * c
  OBVIOUS
<1> QED
  BY <1>2, <1>3

LEMMA Division ==
  ASSUME NEW a \in Nat, NEW b \in Nat \ {0}
  PROVE  /\ a \div b \in Nat
         /\ (a \div b) * b <= a
         /\ a < (a \div b) * b + b
OBVIOUS

LEMMA Modulus ==
  ASSUME NEW a \in Int, NEW b \in Nat \ {0}
  PROVE  /\ a % b \in 0 .. b - 1
         /\ b <= a /\ a < b + b => a % b = a - b
OBVIOUS

LEMMA WrapBounds ==
  ASSUME NEW n \in Int
  PROVE  /\ Wrap(n) \in Word
         /\ n \in Word => Wrap(n) = n
         /\ n \in Half .. 2 * Half - 1 => Wrap(n) < 0
<1> Half \in Nat \ {0} /\ 2 * Half \in Nat \ {0} /\ n + Half \in Int
  BY WidthAssumption
<1>1. (n + Half) % (2 * Half) \in 0 .. 2 * Half - 1
  BY Modulus
<1>2. ASSUME n \in Half .. 2 * Half - 1 PROVE (n + Half) % (2 * Half) = n - Half
  <2> DEFINE a == n + Half
             b == 2 * Half
  <2>1. a \in Int /\ b \in Nat \ {0} /\ b <= a /\ a < b + b /\ a - b = n - Half
    BY <1>2
  <2>2. a % b = n - Half
    <3> HIDE DEF a, b
    <3> QED
      BY <2>1, Modulus
  <2> QED
    BY <2>2
<1> QED
  BY <1>1, <1>2 DEF Wrap, Word

\* What (a + b - 1) / b is: the ceiling, or not positive if the sum wraps.
LEMMA DividedUpBounds ==
  ASSUME NEW a \in 1 .. MaxFile, NEW b \in 1 .. Half - 1
  PROVE  LET q == DividedUp(a, b)
         IN  /\ q \in Word
             /\ q >= 1 => (q - 1) * b < a /\ a <= q * b
             /\ a + b - 1 < Half => q >= 1
<1> DEFINE s == a + b - 1
<1> DEFINE q == DividedUp(a, b)
<1> a \in Nat /\ a < Half /\ b \in Nat \ {0} /\ b < Half /\ Half \in Nat
  BY WidthAssumption, FileAssumption
<1>1. CASE s < Half
  <2>1. s \in Nat /\ Wrap(s) = s
    BY <1>1, WrapBounds DEF Word
  <2>2. q = s \div b
    BY <2>1 DEF DividedUp, Quotient
  <2>3. q \in Nat /\ q * b <= s /\ s < q * b + b
    BY <2>1, <2>2, Division
  <2>4. q >= 1
    <3>1. SUFFICES ASSUME q = 0 PROVE FALSE
      BY <2>3
    <3>2. 0 * b = 0
      OBVIOUS
    <3> QED
      BY <2>3, <3>1, <3>2
  <2>5. (q - 1) * b = q * b - b
    BY <2>3
  <2>6. q <= s
    <3>1. q * 1 <= q * b
      BY <2>3
    <3> QED
      BY <2>3, <3>1
  <2>7. q * b \in Nat
    BY <2>3
  <2> QED
    BY <1>1, <2>3, <2>4, <2>5, <2>6, <2>7 DEF Word
<1>2. CASE s >= Half
  <2>1. Wrap(s) < 0 /\ Wrap(s) \in Word
    BY <1>2, WrapBounds
  <2>2. q = -((-Wrap(s)) \div b)
    BY <2>1 DEF DividedUp, Quotient, Word
  <2> DEFINE d == -Wrap(s)
  <2>3. d \in Nat /\ d <= Half
    BY <2>1 DEF Word
  <2> HIDE DEF d
  <2>4. d \div b \in Nat /\ (d \div b) * b <= d
    BY <2>3, Division
  <2>5. d \div b <= d
    <3>1. (d \div b) * 1 <= (d \div b) * b
      BY <2>4
    <3>2. (d \div b) * b \in Nat
      BY <2>4
    <3> QED
      BY <2>3, <2>4, <3>1, <3>2
  <2>6. q = -(d \div b)
    BY <2>2 DEF d
  <2>7. q \in Word /\ q <= 0
    BY <2>3, <2>4, <2>5, <2>6 DEF Word
  <2> QED
    BY <1>2, <2>7 DEF Word
<1> QED
  BY <1>1, <1>2

\* The part size that multipartPartSize returns is enough for the number of
\* parts the service allows.
LEMMA PartSizeFits ==
  ASSUME size \in 1 .. MaxFile, limits \in Limits, Valid(limits)
  PROVE  LET n == PartSize(limits)
         IN  /\ n \in 1 .. limits.max
             /\ limits.min <= limits.max => n >= limits.min
             /\ size <= n * limits.num
<1> DEFINE min == limits.min
           max == limits.max
           num == limits.num
<1> /\ min \in 1 .. Half - 1 /\ max \in 1 .. Half - 1 /\ num \in 1 .. Half - 1
    /\ Half \in Nat /\ MaxFile \in Nat /\ size < Half /\ size \in Nat
    /\ Default \in 1 .. Half - 1
  BY WidthAssumption, FileAssumption DEF Limits, Word, Valid
<1> HIDE DEF min, max, num
<1>1. ASSUME NEW m \in Nat, Wrap(m) >= size PROVE m >= size
  BY <1>1, WrapBounds DEF Word
<1>2. max * num >= size
  <2>1. max * num \in Nat
    OBVIOUS
  <2> QED
    BY <1>1, <2>1 DEF Valid, FitsAll, max, num
<1> DEFINE wanted == IF Wrap(Default * num) < size THEN EvenSize(limits) ELSE Default
<1>3. wanted \in Word
      /\ \/ wanted >= 1 /\ size <= wanted * num
         \/ size <= num
  <2>1. CASE Wrap(Default * num) < size
    <3>1. wanted = DividedUp(size, num)
      BY <2>1 DEF EvenSize, num
    <3>2. CASE size + num - 1 < Half
      BY <3>1, <3>2, DividedUpBounds
    <3>3. CASE size + num - 1 >= Half
      <4>1. wanted \in Word
        BY <3>1, DividedUpBounds
      <4>2. size <= num
        BY <3>3, FileAssumption
      <4> QED
        BY <4>1, <4>2
    <3> QED
      BY <3>2, <3>3
  <2>2. CASE ~ (Wrap(Default * num) < size)
    <3>1. Default * num \in Nat /\ Wrap(Default * num) \in Int
      BY WrapBounds DEF Word
    <3>2. Default * num >= size
      BY <1>1, <2>2, <3>1
    <3> QED
      BY <2>2, <3>2 DEF Word
  <2> QED
    BY <2>1, <2>2
<1> HIDE DEF wanted
<1> DEFINE clipped == Greatest(wanted, min)
           n == Least(clipped, max)
<1>4. clipped \in 1 .. Half - 1 /\ clipped >= wanted /\ clipped >= min
  BY <1>3 DEF Greatest, Word
<1>5. clipped * num >= size
  <2>1. CASE wanted >= 1 /\ size <= wanted * num
    <3>1. wanted * num <= clipped * num
      BY <1>3, <1>4, <2>1, TimesMonotone DEF Word
    <3>2. wanted * num \in Nat /\ clipped * num \in Nat
      BY <1>3, <1>4, <2>1 DEF Word
    <3> QED
      BY <2>1, <3>1, <3>2
  <2>2. CASE size <= num
    <3>1. 1 * num <= clipped * num
      BY <1>4, TimesMonotone
    <3>2. clipped * num \in Nat
      BY <1>4
    <3> QED
      BY <2>2, <3>1, <3>2
  <2> QED
    BY <1>3, <2>1, <2>2
<1> HIDE DEF clipped
<1>6. n \in 1 .. max /\ (min <= max => n >= min) /\ size <= n * num
  BY <1>2, <1>4, <1>5 DEF Least
<1>7. n = PartSize(limits)
  BY DEF PartSize, Clipped, clipped, wanted, min, max, num
<1> QED
  BY <1>6, <1>7 DEF min, max, num

-----------------------------------------------------------------------------
(* The invariant *)

\* What a plan says, once there is one.
PlanFits ==
    partSize >= 1 =>
        /\ size >= 1
        /\ limits.num >= 1 /\ partCount <= limits.num
        /\ partSize <= limits.max
        /\ limits.min <= limits.max => partSize >= limits.min
        /\ partCount >= 1 => (partCount - 1) * partSize < size /\ size <= partCount * partSize

PieceOf(y) == [offset |-> (y - 1) * partSize,
               size |-> Least(partSize, size - (y - 1) * partSize)]

\* Every part is its piece of the file, on either way.
SentPieces == \A y \in DOMAIN sent : sent[y] = PieceOf(y)

\* How far the loop of uploadMultipart is.
StreamRead ==
    way = "stream" /\ stage \in {"planned", "sending"} =>
        /\ DOMAIN sent = 1 .. part - 1 /\ part >= 1
        /\ IF partCount >= 1
           THEN part <= partCount + 1 /\ remaining = Greatest(size - (part - 1) * partSize, 0)
           ELSE part = 1 /\ remaining = size

Begun ==
    /\ stage \in {"new", "single", "refused"} => partSize = 0 /\ sent = << >> /\ part = 1
    /\ stage = "planned" => sent = << >>
    /\ stage \in {"planned", "sending", "done"} => partSize >= 1
    /\ partSize = 0 => sent = << >>

DoneWhole == stage = "done" => DOMAIN sent = 1 .. partCount /\ partCount >= 1

SplitInv == PlanTypeOK /\ PlanFits /\ SentPieces /\ StreamRead /\ Begun /\ DoneWhole

LEMMA SplitInit == PlanInit => SplitInv
<1> SUFFICES ASSUME PlanInit PROVE SplitInv
  OBVIOUS
<1> Half \in Nat \ {0} /\ MaxFile \in Nat
  BY WidthAssumption, FileAssumption
<1>1. DOMAIN sent = {} /\ sent = << >>
  BY DEF PlanInit
<1>2. PlanTypeOK
  BY <1>1 DEF PlanInit, PlanTypeOK, Ended, Word
<1>3. PlanFits /\ SentPieces /\ StreamRead /\ Begun /\ DoneWhole
  BY <1>1 DEF PlanInit, PlanFits, SentPieces, StreamRead, Begun, DoneWhole
<1> QED
  BY <1>2, <1>3 DEF SplitInv

\* The piece that a step sends lies within the file.
LEMMA PieceBounds ==
  ASSUME SplitInv, NEW y \in 1 .. partCount, partSize >= 1
  PROVE  /\ (y - 1) * partSize \in Nat
         /\ (y - 1) * partSize < size
         /\ PieceOf(y) \in Piece
<1> size \in Nat /\ partSize \in Nat /\ partCount \in Int /\ y \in Nat /\ y - 1 \in Nat
  BY WidthAssumption, FileAssumption DEF SplitInv, PlanTypeOK, Word
<1>1. (y - 1) * partSize \in Nat
  OBVIOUS
<1>2. (y - 1) * partSize <= (partCount - 1) * partSize
  BY TimesMonotone
<1>3. (partCount - 1) * partSize < size /\ (partCount - 1) * partSize \in Nat
  BY DEF SplitInv, PlanFits
<1>4. (y - 1) * partSize < size
  BY <1>1, <1>2, <1>3
<1> QED
  BY <1>1, <1>4 DEF PieceOf, Piece, Least

LEMMA SplitStep == SplitInv /\ [PlanNext]_planVars => SplitInv'
<1> SUFFICES ASSUME SplitInv, [PlanNext]_planVars PROVE SplitInv'
  OBVIOUS
<1> /\ size \in Nat /\ size <= MaxFile /\ partSize \in Nat /\ partCount \in Int
    /\ Half \in Nat \ {0} /\ MaxFile \in Nat /\ remaining \in Nat /\ part \in Nat
    /\ Default \in Nat
  BY WidthAssumption, FileAssumption DEF SplitInv, PlanTypeOK, Word
<1>1. CASE Single
  BY <1>1 DEF Single, plan, SplitInv, PlanTypeOK, PlanFits, SentPieces, PieceOf, StreamRead, Begun,
     DoneWhole, Ended
<1>2. CASE Plan /\ ~ Valid(limits)
  <2>1. stage' = "refused" /\ UNCHANGED <<plan, signed, part, remaining, sent>>
    BY <1>2 DEF Plan, plan
  <2> QED
    BY <1>2, <2>1 DEF Plan, plan, SplitInv, PlanTypeOK, PlanFits, SentPieces, PieceOf, StreamRead,
       Begun, DoneWhole, Ended
<1>3. CASE Plan /\ Valid(limits)
  <2>1. /\ stage = "new" /\ stage' = "planned"
        /\ partSize' = PartSize(limits) /\ partCount' = DividedUp(size, partSize')
        /\ remaining' = size /\ completed' \subseteq 1 .. partCount'
        /\ UNCHANGED <<way, size, limits, signed, part, sent>>
    BY <1>3 DEF Plan
  <2>2. size \in 1 .. MaxFile /\ limits \in Limits
    BY <1>3 DEF Plan, SplitInv, PlanTypeOK
  <2>3. /\ partSize' \in 1 .. limits.max /\ size <= partSize' * limits.num
        /\ (limits.min <= limits.max => partSize' >= limits.min)
        /\ limits.max \in 1 .. Half - 1 /\ limits.num \in 1 .. Half - 1
    BY <1>3, <2>1, <2>2, PartSizeFits DEF Limits, Word, Valid
  <2>4. /\ partCount' \in Word
        /\ partCount' >= 1 => /\ (partCount' - 1) * partSize' < size
                              /\ size <= partCount' * partSize'
    BY <2>1, <2>2, <2>3, DividedUpBounds
  <2>5. partCount' <= limits.num
    <3>1. CASE partCount' < 1
      BY <2>3, <2>4, <3>1 DEF Word
    <3>2. CASE partCount' >= 1
      <4>1. (partCount' - 1) * partSize' < limits.num * partSize'
        <5>1. (partCount' - 1) * partSize' \in Int /\ partSize' * limits.num \in Int
              /\ partSize' * limits.num = limits.num * partSize'
          BY <2>3, <2>4 DEF Word
        <5> QED
          BY <2>3, <2>4, <3>2, <5>1
      <4>2. partCount' - 1 < limits.num
        BY <2>3, <2>4, <4>1, TimesCancel DEF Word
      <4> QED
        BY <2>3, <2>4, <4>2 DEF Word
    <3> QED
      BY <2>4, <3>1, <3>2 DEF Word
  <2>6. sent = << >> /\ part = 1 /\ DOMAIN sent = {}
    BY <2>1 DEF SplitInv, Begun
  <2>7. PlanTypeOK'
    BY <2>1, <2>2, <2>3, <2>4, <2>6 DEF SplitInv, PlanTypeOK
  <2>8. PlanFits' /\ SentPieces'
    BY <2>1, <2>2, <2>3, <2>4, <2>5, <2>6 DEF PlanFits, SentPieces
  <2>9. StreamRead'
    <3>1. (part - 1) * partSize' = 0
      <4>1. part - 1 = 0 /\ partSize' \in Int
        BY <2>3, <2>6
      <4>2. 0 * partSize' = 0
        BY <4>1, ZeroTimes
      <4> QED
        BY <4>1, <4>2
    <3> QED
      BY <2>1, <2>2, <2>4, <2>6, <3>1 DEF StreamRead, Greatest, Word
  <2>10. Begun' /\ DoneWhole'
    BY <2>1, <2>3, <2>6 DEF Begun, DoneWhole
  <2> QED
    BY <2>7, <2>8, <2>9, <2>10 DEF SplitInv
<1>4. CASE Sign \/ Fail
  <2>1. /\ UNCHANGED <<plan, part, remaining, sent>>
        /\ stage \in {"planned", "sending"} /\ stage' \in {"sending", "failed"}
    BY <1>4 DEF Sign, Fail
  <2> QED
    BY <2>1 DEF plan, SplitInv, PlanTypeOK, PlanFits, SentPieces, PieceOf, StreamRead, Begun,
       DoneWhole, Ended
<1>5. CASE SendNext
  <2>1. /\ stage = "sending" /\ way = "stream" /\ part <= partCount /\ UNCHANGED <<plan, stage>>
        /\ Send(part, size - remaining, ChunkSize)
        /\ remaining' = remaining - ChunkSize /\ part' = part + 1
    BY <1>5 DEF SendNext
  <2>2. partSize >= 1 /\ part >= 1 /\ DOMAIN sent = 1 .. part - 1
        /\ remaining = Greatest(size - (part - 1) * partSize, 0)
    BY <2>1 DEF SplitInv, Begun, StreamRead
  <2>3. (part - 1) * partSize \in Nat /\ (part - 1) * partSize < size /\ PieceOf(part) \in Piece
    BY <2>1, <2>2, PieceBounds
  <2>4. remaining = size - (part - 1) * partSize
    BY <2>2, <2>3 DEF Greatest
  <2>5. PieceOf(part) = [offset |-> size - remaining, size |-> ChunkSize]
    BY <2>3, <2>4 DEF PieceOf, ChunkSize
  <2>6. sent' = [q \in 1 .. part |-> IF q = part THEN PieceOf(part) ELSE sent[q]]
    BY <2>1, <2>2, <2>5 DEF Send
  <2>7. DOMAIN sent' = 1 .. part /\ \A q \in 1 .. part : sent'[q] = PieceOf(q)
    BY <2>2, <2>6 DEF SplitInv, SentPieces
  <2>8. part * partSize = (part - 1) * partSize + partSize
    BY <2>2
  <2>9. remaining' = Greatest(size - part * partSize, 0) /\ remaining' \in 0 .. MaxFile
    BY <2>1, <2>3, <2>4, <2>8 DEF ChunkSize, Least, Greatest
  <2>10. sent' \in [1 .. part -> Piece]
    BY <2>2, <2>3, <2>6 DEF SplitInv, PlanTypeOK
  <2>11. PlanTypeOK'
    BY <2>1, <2>7, <2>9, <2>10 DEF plan, SplitInv, PlanTypeOK
  <2>12. PlanFits' /\ SentPieces'
    BY <2>1, <2>7 DEF plan, SplitInv, PlanFits, SentPieces, PieceOf
  <2>13. StreamRead'
    BY <2>1, <2>2, <2>7, <2>9 DEF plan, StreamRead
  <2>14. Begun' /\ DoneWhole'
    BY <2>1, <2>2 DEF plan, Begun, DoneWhole
  <2> QED
    BY <2>11, <2>12, <2>13, <2>14 DEF SplitInv
<1>6. CASE FinishStream
  <2>1. /\ stage = "sending" /\ way = "stream" /\ part > partCount /\ stage' \in {"done", "failed"}
        /\ stage' = "done" => remaining = 0
        /\ UNCHANGED <<plan, part, remaining, sent>>
    BY <1>6 DEF FinishStream, NothingRemains
  <2>2. partSize >= 1 /\ size >= 1 /\ DOMAIN sent = 1 .. part - 1
        /\ (partCount >= 1 => part <= partCount + 1) /\ (~ (partCount >= 1) => remaining = size)
    BY <2>1 DEF SplitInv, Begun, StreamRead, PlanFits
  <2>3. DoneWhole'
    BY <2>1, <2>2 DEF DoneWhole, plan
  <2> QED
    BY <2>1, <2>2, <2>3 DEF plan, SplitInv, PlanTypeOK, PlanFits, SentPieces, PieceOf, StreamRead,
       Begun, Ended
<1>7. CASE WriteChunks
  <2>1. PICK k \in Chunks : WriteChunk(k) /\ stage = "sending"
    BY <1>7 DEF WriteChunks
  <2>2. k \in Nat
    BY <2>1 DEF Chunks
  <2>3. /\ stage = "sending" /\ way = "chunks" /\ UNCHANGED <<plan, part, remaining>>
        /\ partSize >= 1
    BY <2>1 DEF WriteChunk, SplitInv, Begun
  <2>4. CASE k >= partCount
    <3>1. stage' = "failed" /\ UNCHANGED sent
      BY <2>1, <2>4 DEF WriteChunk
    <3> QED
      BY <2>3, <3>1 DEF plan, SplitInv, PlanTypeOK, PlanFits, SentPieces, PieceOf, StreamRead,
         Begun, DoneWhole, Ended
  <2>5. CASE ~ (k >= partCount)
    <3>1. UNCHANGED stage /\ Send(k + 1, k * partSize, Expected(k))
      BY <2>1, <2>5 DEF WriteChunk
    <3>2. k + 1 \in 1 .. partCount /\ (k + 1) - 1 = k
      BY <2>2, <2>5
    <3>3. PieceOf(k + 1) = [offset |-> k * partSize, size |-> Expected(k)]
          /\ PieceOf(k + 1) \in Piece
      BY <2>3, <3>2, PieceBounds DEF PieceOf, Expected
    <3>4. sent' = [q \in DOMAIN sent \union {k + 1} |->
                     IF q = k + 1 THEN PieceOf(k + 1) ELSE sent[q]]
      BY <3>1, <3>3 DEF Send
    <3>5. /\ DOMAIN sent' = DOMAIN sent \union {k + 1}
          /\ \A q \in DOMAIN sent' : sent'[q] = PieceOf(q)
      BY <3>4 DEF SplitInv, SentPieces
    <3>6. sent' \in [DOMAIN sent' -> Piece]
      BY <3>3, <3>4, <3>5 DEF SplitInv, PlanTypeOK
    <3>7. PlanTypeOK'
      BY <2>3, <3>1, <3>2, <3>5, <3>6 DEF plan, SplitInv, PlanTypeOK
    <3>8. PlanFits' /\ SentPieces'
      BY <2>3, <3>5 DEF plan, SplitInv, PlanFits, SentPieces, PieceOf
    <3>9. StreamRead' /\ Begun' /\ DoneWhole'
      BY <2>3, <3>1 DEF plan, StreamRead, Begun, DoneWhole
    <3> QED
      BY <3>7, <3>8, <3>9 DEF SplitInv
  <2> QED
    BY <2>4, <2>5
<1>8. CASE CloseChunks
  <2>1. /\ stage = "sending" /\ way = "chunks" /\ UNCHANGED <<plan, part, remaining, sent>>
        /\ stage' \in {"done", "failed"} /\ (stage' = "done" => DOMAIN sent = 1 .. partCount)
        /\ \A k \in Chunks : k + 1 \in DOMAIN sent
    BY <1>8 DEF CloseChunks
  <2>2. partSize >= 1 /\ size >= 1
    BY <2>1 DEF SplitInv, Begun, PlanFits
  <2>3. 0 \in Chunks
    <3>1. size + partSize - 1 \in Nat /\ partSize \in Nat \ {0}
      BY <2>2
    <3> DEFINE q == (size + partSize - 1) \div partSize
    <3>2. q \in Nat /\ size + partSize - 1 < q * partSize + partSize
      BY <3>1, Division
    <3>3. q # 0
      <4>1. SUFFICES ASSUME q = 0 PROVE FALSE
        OBVIOUS
      <4>2. 0 * partSize = 0
        OBVIOUS
      <4> QED
        BY <2>2, <3>2, <4>1, <4>2
    <3> QED
      BY <3>2, <3>3 DEF Chunks
  <2>4. DoneWhole'
    <3>1. 1 \in DOMAIN sent
      BY <2>1, <2>3
    <3> QED
      BY <2>1, <3>1 DEF DoneWhole, plan
  <2> QED
    BY <2>1, <2>2, <2>4 DEF plan, SplitInv, PlanTypeOK, PlanFits, SentPieces, PieceOf, StreamRead,
       Begun, Ended
<1>9. CASE UNCHANGED planVars
  BY <1>9 DEF planVars, SplitInv, PlanTypeOK, PlanFits, SentPieces, PieceOf, StreamRead, Begun,
     DoneWhole
<1> QED
  BY <1>1, <1>2, <1>3, <1>4, <1>5, <1>6, <1>7, <1>8, <1>9 DEF PlanNext, PlanTerminated

LEMMA SplitHolds == PlanSpec => []SplitInv
BY SplitInit, SplitStep, PTL DEF PlanSpec

\* Every variable of the plan keeps its type.
THEOREM PlanTyped == PlanSpec => []PlanTypeOK
<1>1. SplitInv => PlanTypeOK
  BY DEF SplitInv
<1> QED
  BY <1>1, SplitHolds, PTL

\* An upload is completed only with all bytes of the file, each in one part.
THEOREM CompletesWholeFile == PlanSpec => []CompletesWhole
<1>1. SplitInv => CompletesWhole
  <2> SUFFICES ASSUME SplitInv, stage = "done" PROVE Tiles
    BY DEF CompletesWhole
  <2>1. partSize \in Nat /\ partSize >= 1 /\ size \in Nat /\ partCount \in Int
    BY WidthAssumption, FileAssumption DEF SplitInv, PlanTypeOK, Begun, Word
  <2>2. DOMAIN sent = 1 .. partCount /\ partCount >= 1
    BY DEF SplitInv, DoneWhole
  <2>3. ASSUME NEW y \in 1 .. partCount
        PROVE  /\ sent[y].offset = (y - 1) * partSize
               /\ sent[y].size = Least(partSize, size - (y - 1) * partSize)
               /\ (y - 1) * partSize \in Nat /\ (y - 1) * partSize < size
    BY <2>1, <2>2, PieceBounds DEF SplitInv, SentPieces, PieceOf
  <2>4. sent[1].offset = 0
    BY <2>1, <2>2, <2>3
  <2>5. ASSUME NEW y \in 1 .. partCount - 1
        PROVE  sent[y + 1].offset = sent[y].offset + sent[y].size
    <3>1. y \in 1 .. partCount /\ y + 1 \in 1 .. partCount /\ (y + 1) - 1 = y
      BY <2>1, <2>2
    <3>2. y * partSize = (y - 1) * partSize + partSize
      BY <2>1
    <3>3. sent[y + 1].offset = y * partSize /\ y * partSize < size
      BY <2>3, <3>1
    <3>4. sent[y].size = partSize
      BY <2>1, <2>3, <3>1, <3>2, <3>3 DEF Least
    <3> QED
      BY <2>3, <3>1, <3>2, <3>3, <3>4
  <2>6. sent[partCount].offset + sent[partCount].size = size
    <3>1. partCount \in 1 .. partCount
      BY <2>1, <2>2
    <3>2. size <= partCount * partSize
      BY <2>1, <2>2 DEF SplitInv, PlanFits
    <3>3. partCount * partSize = (partCount - 1) * partSize + partSize
      BY <2>1
    <3> QED
      BY <2>1, <2>3, <3>1, <3>2, <3>3 DEF Least
  <2>7. \A y \in 1 .. partCount : sent[y].size >= 1
    BY <2>1, <2>3 DEF Least
  <2> QED
    BY <2>2, <2>4, <2>5, <2>6, <2>7 DEF Tiles
<1> QED
  BY <1>1, SplitHolds, PTL

\* No part breaks the limits of the service.
THEOREM KeepsServiceLimits == PlanSpec => []KeepsLimits
<1>1. SplitInv => KeepsLimits
  <2> SUFFICES ASSUME SplitInv, NEW y \in DOMAIN sent
               PROVE  /\ y <= limits.num
                      /\ sent[y].size <= limits.max
                      /\ y < partCount /\ limits.min <= limits.max => sent[y].size >= limits.min
    BY DEF KeepsLimits
  <2>1. /\ partSize \in Nat /\ size \in Nat /\ partCount \in Int
        /\ limits.num \in Int /\ limits.max \in Int /\ limits.min \in Int
    BY WidthAssumption, FileAssumption DEF SplitInv, PlanTypeOK, Word, Limits
  <2>2. y \in 1 .. partCount
    BY DEF SplitInv, PlanTypeOK
  <2>3. partSize >= 1
    <3>1. CASE partSize = 0
      <4>1. sent = << >>
        BY <3>1 DEF SplitInv, Begun
      <4> QED
        BY <4>1
    <3> QED
      BY <2>1, <3>1
  <2>4. /\ sent[y].size = Least(partSize, size - (y - 1) * partSize)
        /\ (y - 1) * partSize \in Nat /\ (y - 1) * partSize < size
    BY <2>2, <2>3, PieceBounds DEF SplitInv, SentPieces, PieceOf
  <2>5. partCount <= limits.num /\ partSize <= limits.max
        /\ (limits.min <= limits.max => partSize >= limits.min)
        /\ (partCount - 1) * partSize < size
    BY <2>1, <2>2, <2>3 DEF SplitInv, PlanFits
  <2>6. ASSUME y < partCount PROVE sent[y].size = partSize
    <3>1. y * partSize <= (partCount - 1) * partSize /\ y * partSize \in Nat
          /\ (partCount - 1) * partSize \in Nat
      BY <2>1, <2>2, <2>6, TimesMonotone
    <3>2. y * partSize = (y - 1) * partSize + partSize
      BY <2>1, <2>2
    <3> QED
      BY <2>1, <2>4, <2>5, <3>1, <3>2 DEF Least
  <2> QED
    BY <2>1, <2>2, <2>4, <2>5, <2>6 DEF Least
<1> QED
  BY <1>1, SplitHolds, PTL

-----------------------------------------------------------------------------
(* The ranges to sign.  The recursion over the parts is dealt with through the *)
(* least part, counted from the end, at which a claim would fail.            *)

LEMMA LeastNumber ==
  ASSUME NEW T \in SUBSET Nat, T # {}
  PROVE  \E n \in T : \A m \in T : n <= m
<1>1. PICK n \in T : \A m \in T : ~ (<<m, n>> \in OpToRel(<, Nat))
  BY NatLessThanWellFounded, WFMin
<1>2. \A m \in T : ~ (m < n)
  BY <1>1 DEF OpToRel
<1> QED
  BY <1>2

\* A run of missing parts has an end.
LEMMA RunEnds ==
  ASSUME partCount \in Word, NEW y \in 1 .. partCount, Missing(y)
  PROVE  /\ RunEnd(y) \in y .. partCount
         /\ \A r \in y .. RunEnd(y) : Missing(r)
         /\ ~ Missing(RunEnd(y) + 1)
<1> partCount \in Int /\ partCount + 1 \in Int
  BY WidthAssumption DEF Word
<1> DEFINE T == {q \in y .. partCount : ~ Missing(q + 1)}
<1>1. T \in SUBSET Nat /\ partCount \in T
  BY DEF Missing
<1>2. PICK e \in T : \A m \in T : e <= m
  BY <1>1, LeastNumber
<1>3. \A r \in y .. e : Missing(r)
  <2> SUFFICES ASSUME NEW r \in y .. e, ~ Missing(r) PROVE FALSE
    OBVIOUS
  <2>1. r # y /\ r - 1 \in y .. partCount /\ (r - 1) + 1 = r /\ r - 1 < e
    BY <1>2
  <2>2. r - 1 \in T
    BY <2>1
  <2> QED
    BY <1>2, <2>1, <2>2
<1>4. \E q \in y .. partCount : (\A r \in y .. q : Missing(r)) /\ ~ Missing(q + 1)
  BY <1>2, <1>3
<1> QED
  BY <1>4 DEF RunEnd

\* The recursion defines a function, here written without it.
LoopAt(y, f) ==
    IF y > partCount THEN <<>>
    ELSE IF ~ Missing(y) THEN f[y + 1]
    ELSE <<[first |-> y, last |-> RunEnd(y)]>> \o f[RunEnd(y) + 1]

LEMMA LoopDefined ==
  ASSUME partCount \in Word
  PROVE  \A y \in 1 .. Greatest(partCount, 0) + 1 : RangesFrom[y] = LoopAt(y, RangesFrom)
<1> DEFINE n == Greatest(partCount, 0)
           Solves(k, f) == f = [y \in n + 1 - k .. n + 1 |-> LoopAt(y, f)]
           T == {k \in 0 .. n : ~ \E f : Solves(k, f)}
<1>0. partCount \in Int /\ n \in Nat /\ partCount <= n
  BY WidthAssumption DEF Word, Greatest
<1>1. T = {}
  <2> SUFFICES ASSUME T # {} PROVE FALSE
    OBVIOUS
  <2>1. PICK k \in T : \A m \in T : k <= m
    <3> HIDE DEF Solves
    <3>1. T \in SUBSET Nat
      BY <1>0
    <3> HIDE DEF T
    <3> QED
      BY <3>1, LeastNumber
  <2>2. CASE k = 0
    <3> DEFINE f == [y \in n + 1 - 0 .. n + 1 |-> <<>>]
    <3>1. \A y \in n + 1 - 0 .. n + 1 : LoopAt(y, f) = <<>>
      BY <1>0 DEF LoopAt
    <3>2. Solves(0, f)
      BY <3>1
    <3> QED
      BY <2>1, <2>2, <3>2
  <2>3. CASE k # 0
    <3>1. k - 1 \in 0 .. n /\ k - 1 \notin T
      BY <1>0, <2>1, <2>3
    <3>2. PICK g : Solves(k - 1, g)
      BY <3>1
    <3> DEFINE start == n + 1 - k
               f == [y \in start .. n + 1 |-> IF y = start THEN LoopAt(start, g) ELSE g[y]]
    <3>3. start \in 1 .. n /\ n + 1 - (k - 1) = start + 1
      BY <1>0, <2>1, <2>3
    <3>4. \A y \in start + 1 .. n + 1 : g[y] = LoopAt(y, g) /\ f[y] = g[y]
      <4>1. g = [y \in start + 1 .. n + 1 |-> LoopAt(y, g)]
        BY <3>2, <3>3
      <4> HIDE DEF Solves
      <4>2. \A y \in start + 1 .. n + 1 : g[y] = LoopAt(y, g)
        BY <4>1
      <4> QED
        BY <3>3, <4>2
    <3>5. ASSUME NEW y \in start .. n + 1 PROVE LoopAt(y, f) = LoopAt(y, g)
      <4>1. CASE y > partCount
        BY <4>1 DEF LoopAt
      <4>2. CASE y <= partCount /\ ~ Missing(y)
        <5>1. y + 1 \in start + 1 .. n + 1
          BY <1>0, <3>3, <4>2
        <5>2. f[y + 1] = g[y + 1]
          BY <3>4, <5>1
        <5> HIDE DEF f
        <5> QED
          BY <4>2, <5>2 DEF LoopAt
      <4>3. CASE y <= partCount /\ Missing(y)
        <5>1. y \in 1 .. partCount
          BY <1>0, <3>3, <4>3
        <5>2. RunEnd(y) + 1 \in start + 1 .. n + 1
          BY <1>0, <3>3, <4>3, <5>1, RunEnds
        <5>3. f[RunEnd(y) + 1] = g[RunEnd(y) + 1]
          BY <3>4, <5>2
        <5> HIDE DEF f
        <5> QED
          BY <4>3, <5>3 DEF LoopAt
      <4> QED
        BY <1>0, <3>3, <4>1, <4>2, <4>3
    <3>6. ASSUME NEW y \in start .. n + 1 PROVE f[y] = LoopAt(y, f)
      <4>1. LoopAt(y, f) = LoopAt(y, g)
        BY <3>5
      <4>2. CASE y = start
        <5>1. f[y] = LoopAt(start, g)
          BY <4>2
        <5> HIDE DEF f
        <5> QED
          BY <4>1, <4>2, <5>1
      <4>3. CASE y # start
        <5>1. y \in start + 1 .. n + 1
          BY <3>3, <4>3
        <5>2. g[y] = LoopAt(y, g) /\ f[y] = g[y]
          BY <3>4, <5>1
        <5> HIDE DEF f
        <5> QED
          BY <4>1, <5>2
      <4> QED
        BY <4>2, <4>3
    <3>7. f = [y \in start .. n + 1 |-> LoopAt(y, f)]
      BY <3>6
    <3> QED
      BY <2>1, <3>7
  <2> QED
    BY <2>2, <2>3
<1>2. \E f : f = [y \in 1 .. n + 1 |-> LoopAt(y, f)]
  <2>1. n \in 0 .. n /\ n + 1 - n = 1
    BY <1>0
  <2> QED
    BY <1>1, <2>1
<1>3. RangesFrom = CHOOSE f : f = [y \in 1 .. n + 1 |-> LoopAt(y, f)]
  BY DEF RangesFrom, LoopAt
<1>4. RangesFrom = [y \in 1 .. n + 1 |-> LoopAt(y, RangesFrom)]
  BY <1>2, <1>3
<1> QED
  BY <1>4

\* What the loop has to return when it goes on from part p.
RunsFrom(y, s) ==
    /\ s \in Seq([first : 1 .. partCount, last : 1 .. partCount])
    /\ \A i \in 1 .. Len(s) :
         /\ y <= s[i].first /\ s[i].first <= s[i].last
         /\ \A r \in s[i].first .. s[i].last : Missing(r)
         /\ ~ Missing(s[i].last + 1)
         /\ y < s[i].first => ~ Missing(s[i].first - 1)
    /\ \A i \in 1 .. Len(s) - 1 : s[i].last < s[i + 1].first
    /\ \A q \in y .. partCount :
         Missing(q) => \E i \in 1 .. Len(s) : q \in s[i].first .. s[i].last

LEMMA RunTyped ==
  ASSUME partCount \in Word, NEW y, NEW s, RunsFrom(y, s), NEW i \in 1 .. Len(s)
  PROVE  s[i].first \in 1 .. partCount /\ s[i].last \in 1 .. partCount
<1>1. s[i] \in [first : 1 .. partCount, last : 1 .. partCount]
  BY ElementOfSeq DEF RunsFrom
<1> QED
  BY <1>1

\* A completed part is passed over.
LEMMA SkipsPart ==
  ASSUME partCount \in Word, NEW y \in 1 .. partCount, ~ Missing(y), NEW s, RunsFrom(y + 1, s)
  PROVE  RunsFrom(y, s)
<1> partCount \in Int
  BY WidthAssumption DEF Word
<1>1. ASSUME NEW i \in 1 .. Len(s)
      PROVE  y <= s[i].first /\ (y < s[i].first => ~ Missing(s[i].first - 1))
  <2>1. s[i].first \in Int /\ y + 1 <= s[i].first
    <3>1. s[i].first \in 1 .. partCount
      BY RunTyped
    <3> QED
      BY <3>1 DEF RunsFrom
  <2>2. CASE s[i].first = y + 1
    <3>1. s[i].first - 1 = y
      BY <2>2
    <3> QED
      BY <2>2, <3>1
  <2>3. CASE y + 1 < s[i].first
    <3>1. ~ Missing(s[i].first - 1)
      BY <2>3 DEF RunsFrom
    <3> QED
      BY <2>1, <3>1
  <2> QED
    BY <2>1, <2>2, <2>3
<1>2. ASSUME NEW q \in y .. partCount, Missing(q)
      PROVE  \E i \in 1 .. Len(s) : q \in s[i].first .. s[i].last
  <2>1. q \in y + 1 .. partCount
    BY <1>2
  <2> QED
    BY <1>2, <2>1 DEF RunsFrom
<1> QED
  BY <1>1, <1>2 DEF RunsFrom

\* A run of missing parts is put in front.
LEMMA AddsRun ==
  ASSUME partCount \in Word, NEW y \in 1 .. partCount, Missing(y),
         NEW s, RunsFrom(RunEnd(y) + 1, s)
  PROVE  RunsFrom(y, <<[first |-> y, last |-> RunEnd(y)]>> \o s)
<1> DEFINE e == RunEnd(y)
           run == [first |-> y, last |-> e]
           all == <<run>> \o s
           Span == [first : 1 .. partCount, last : 1 .. partCount]
<1>1. partCount \in Int /\ e \in y .. partCount /\ (\A r \in y .. e : Missing(r)) /\ ~ Missing(e + 1)
  BY RunEnds, WidthAssumption DEF Word
<1>2. s \in Seq(Span) /\ <<run>> \in Seq(Span) /\ Len(<<run>>) = 1 /\ <<run>>[1] = run
  BY <1>1 DEF RunsFrom
<1>3. all \in Seq(Span) /\ Len(all) = 1 + Len(s) /\ Len(s) \in Nat
  BY <1>2, ConcatProperties
<1>4. all[1] = run /\ \A i \in 2 .. Len(all) : i - 1 \in 1 .. Len(s) /\ all[i] = s[i - 1]
  BY <1>2, <1>3, ConcatProperties
<1> HIDE DEF all, e
<1>5. ASSUME NEW i \in 1 .. Len(s)
      PROVE  s[i].first \in Int /\ e + 1 < s[i].first
  <2>1. s[i].first \in Int /\ s[i].last \in Int /\ e + 1 <= s[i].first /\ s[i].first <= s[i].last
    <3>1. s[i].first \in 1 .. partCount /\ s[i].last \in 1 .. partCount
      BY RunTyped DEF e
    <3> QED
      BY <3>1 DEF RunsFrom, e
  <2>2. Missing(s[i].first)
    BY <2>1 DEF RunsFrom
  <2> QED
    BY <1>1, <2>1, <2>2
<1>6. ASSUME NEW i \in 1 .. Len(all)
      PROVE  /\ y <= all[i].first /\ all[i].first <= all[i].last
             /\ \A r \in all[i].first .. all[i].last : Missing(r)
             /\ ~ Missing(all[i].last + 1)
             /\ y < all[i].first => ~ Missing(all[i].first - 1)
  <2>1. CASE i = 1
    BY <1>1, <1>4, <2>1
  <2>2. CASE i # 1
    <3>1. i \in 2 .. Len(all)
      BY <1>3, <2>2
    <3>2. PICK j \in 1 .. Len(s) : all[i] = s[j]
      BY <1>4, <3>1
    <3> QED
      BY <1>1, <1>5, <3>2 DEF RunsFrom, e
  <2> QED
    BY <2>1, <2>2
<1>7. ASSUME NEW i \in 1 .. Len(all) - 1 PROVE all[i].last < all[i + 1].first
  <2>1. CASE i = 1
    <3>1. 2 \in 2 .. Len(all) /\ all[2] = s[1] /\ 1 \in 1 .. Len(s)
      BY <1>3, <1>4, <2>1
    <3> QED
      BY <1>1, <1>4, <1>5, <2>1, <3>1
  <2>2. CASE i # 1
    <3>1. i \in 2 .. Len(all) /\ i + 1 \in 2 .. Len(all) /\ i - 1 \in 1 .. Len(s) - 1
      BY <1>3, <2>2
    <3>2. all[i] = s[i - 1] /\ all[i + 1] = s[(i - 1) + 1]
      BY <1>4, <3>1
    <3> QED
      BY <3>1, <3>2 DEF RunsFrom
  <2> QED
    BY <2>1, <2>2
<1>8. ASSUME NEW q \in y .. partCount, Missing(q)
      PROVE  \E i \in 1 .. Len(all) : q \in all[i].first .. all[i].last
  <2>1. CASE q <= e
    <3>1. 1 \in 1 .. Len(all) /\ q \in y .. e
      BY <1>1, <1>3, <2>1
    <3>2. all[1].first = y /\ all[1].last = e
      BY <1>4
    <3> QED
      BY <3>1, <3>2
  <2>2. CASE e < q
    <3>0. q \in e + 1 .. partCount
      BY <1>1, <2>2
    <3>1. PICK j \in 1 .. Len(s) : q \in s[j].first .. s[j].last
      BY <1>8, <3>0 DEF RunsFrom, e
    <3>2. j + 1 \in 2 .. Len(all) /\ (j + 1) - 1 = j
      BY <1>3
    <3>3. all[j + 1] = s[j]
      BY <1>4, <3>2
    <3> QED
      BY <3>1, <3>2, <3>3
  <2> QED
    BY <1>1, <2>1, <2>2
<1>9. RunsFrom(y, all)
  BY <1>3, <1>6, <1>7, <1>8 DEF RunsFrom
<1> QED
  BY <1>9 DEF all, e

\* From every part on, the loop returns the runs of missing parts.
LEMMA RangesAreRuns ==
  ASSUME partCount \in Word
  PROVE  \A y \in 1 .. Greatest(partCount, 0) + 1 : RunsFrom(y, RangesFrom[y])
<1> DEFINE n == Greatest(partCount, 0)
           Right(k) == RunsFrom(n + 1 - k, RangesFrom[n + 1 - k])
           T == {k \in 0 .. n : ~ Right(k)}
<1>1. partCount \in Int /\ n \in Nat /\ (partCount <= n) /\ (partCount >= 1 => n = partCount)
  BY WidthAssumption DEF Word, Greatest
<1>2. T = {}
  <2> SUFFICES ASSUME T # {} PROVE FALSE
    OBVIOUS
  <2>1. PICK k \in T : \A m \in T : k <= m
    <3> HIDE DEF Right
    <3>1. T \in SUBSET Nat
      BY <1>1
    <3> HIDE DEF T
    <3> QED
      BY <3>1, LeastNumber
  <2> DEFINE y == n + 1 - k
  <2>2. k \in 0 .. n /\ y \in 1 .. n + 1 /\ ~ RunsFrom(y, RangesFrom[y])
    BY <1>1, <2>1
  <2>3. RangesFrom[y] = LoopAt(y, RangesFrom)
    BY <2>2, LoopDefined
  <2>4. \A q \in y + 1 .. n + 1 : RunsFrom(q, RangesFrom[q])
    <3> SUFFICES ASSUME NEW q \in y + 1 .. n + 1 PROVE RunsFrom(q, RangesFrom[q])
      OBVIOUS
    <3>1. n + 1 - q \in 0 .. n /\ n + 1 - q < k /\ n + 1 - (n + 1 - q) = q
      BY <1>1, <2>2
    <3>2. n + 1 - q \notin T
      BY <2>1, <2>2, <3>1
    <3>3. Right(n + 1 - q)
      <4> HIDE DEF Right
      <4> QED
        BY <3>1, <3>2
    <3> QED
      BY <3>1, <3>3
  <2> HIDE DEF y
  <2>5. CASE y > partCount
    <3>1. RangesFrom[y] = <<>>
      BY <2>3, <2>5 DEF LoopAt
    <3>2. RunsFrom(y, <<>>)
      <4>1. <<>> \in Seq([first : 1 .. partCount, last : 1 .. partCount])
        OBVIOUS
      <4>2. 1 .. Len(<<>>) = {} /\ 1 .. Len(<<>>) - 1 = {}
        OBVIOUS
      <4>3. y .. partCount = {}
        BY <1>1, <2>2, <2>5
      <4> QED
        BY <4>1, <4>2, <4>3, Zenon DEF RunsFrom
    <3> QED
      BY <2>2, <3>1, <3>2
  <2>6. CASE y <= partCount /\ ~ Missing(y)
    <3>1. y \in 1 .. partCount /\ y + 1 \in y + 1 .. n + 1
      BY <1>1, <2>2, <2>6
    <3>2. RunsFrom(y + 1, RangesFrom[y + 1]) /\ RangesFrom[y] = RangesFrom[y + 1]
      BY <1>1, <2>2, <2>3, <2>4, <2>6, <3>1 DEF LoopAt
    <3> QED
      BY <2>2, <2>6, <3>1, <3>2, SkipsPart
  <2>7. CASE y <= partCount /\ Missing(y)
    <3>1. y \in 1 .. partCount
      BY <1>1, <2>2, <2>7
    <3>2. RunEnd(y) + 1 \in y + 1 .. n + 1
      BY <1>1, <2>7, <3>1, RunEnds
    <3>3. RunsFrom(RunEnd(y) + 1, RangesFrom[RunEnd(y) + 1])
      BY <2>4, <3>2
    <3>4. RangesFrom[y] = <<[first |-> y, last |-> RunEnd(y)]>> \o RangesFrom[RunEnd(y) + 1]
      <4>1. ~ (y > partCount)
        BY <1>1, <3>1
      <4> QED
        BY <2>3, <2>7, <4>1, Zenon DEF LoopAt
    <3> QED
      BY <2>2, <2>7, <3>1, <3>3, <3>4, AddsRun
  <2> QED
    BY <1>1, <2>2, <2>5, <2>6, <2>7
<1>3. ASSUME NEW y \in 1 .. n + 1 PROVE RunsFrom(y, RangesFrom[y])
  <2>1. n + 1 - y \in 0 .. n /\ n + 1 - (n + 1 - y) = y
    BY <1>1
  <2>2. Right(n + 1 - y)
    <3> HIDE DEF Right
    <3> QED
      BY <1>2, <2>1
  <2> QED
    BY <2>1, <2>2
<1> QED
  BY <1>3

\* The ranges that are signed are the runs of the parts that are missing.
SignedRuns ==
    stage = "sending" /\ way = "chunks" => RunsFrom(1, signed)

\* An upload that is resumed asks for the missing parts: each of them is in one
\* range, none that is complete is in any, and the ranges are as long and in
\* such an order as they can be, for any number of parts.
THEOREM SignsOnlyMissing == PlanSpec => []SignsMissing
<1>1. PlanInit => SignedRuns
  BY DEF PlanInit, SignedRuns
<1>2. SplitInv /\ SignedRuns /\ [PlanNext]_planVars => SignedRuns'
  <2> SUFFICES ASSUME SplitInv, SignedRuns, [PlanNext]_planVars PROVE SignedRuns'
    OBVIOUS
  <2>1. CASE Sign
    <3>1. partCount \in Word /\ 1 \in 1 .. Greatest(partCount, 0) + 1
      BY WidthAssumption DEF SplitInv, PlanTypeOK, Greatest, Word
    <3>2. RunsFrom(1, MissingRanges)
      BY <3>1, RangesAreRuns DEF MissingRanges
    <3>3. UNCHANGED <<partCount, completed, way>>
      BY <2>1 DEF Sign, plan
    <3>4. \A s : RunsFrom(1, s) => RunsFrom(1, s)'
      BY <3>3 DEF RunsFrom, Missing
    <3> QED
      BY <2>1, <3>2, <3>3, <3>4 DEF Sign, SignedRuns, RunsFrom, Missing
  <2>2. CASE UNCHANGED <<partCount, completed, way, stage, signed>>
    BY <2>2 DEF SignedRuns, RunsFrom, Missing
  <2>3. CASE stage' # "sending"
    BY <2>3 DEF SignedRuns
  <2> QED
    BY <2>1, <2>2, <2>3 DEF PlanNext, Single, Plan, SendNext, FinishStream, WriteChunks, WriteChunk,
       CloseChunks, Fail, PlanTerminated, planVars, plan
<1>3. SplitInv /\ SignedRuns => SignsMissing
  <2> SUFFICES ASSUME SplitInv, RunsFrom(1, signed) PROVE SignsMissing
    BY DEF SignedRuns, SignsMissing
  <2>1. partCount \in Int /\ signed \in Seq([first : 1 .. partCount, last : 1 .. partCount])
    BY WidthAssumption DEF SplitInv, PlanTypeOK, Word, RunsFrom
  <2>2. DOMAIN signed = 1 .. Len(signed) /\ Len(signed) \in Nat
    BY <2>1
  <2>3. ASSUME NEW i \in 1 .. Len(signed) PROVE ~ Missing(signed[i].first - 1)
    <3>1. signed[i].first \in 1 .. partCount
      BY RunTyped DEF SplitInv, PlanTypeOK
    <3>2. CASE signed[i].first = 1
      BY <3>2 DEF Missing
    <3>3. CASE 1 < signed[i].first
      BY <3>3 DEF RunsFrom
    <3> QED
      BY <3>1, <3>2, <3>3
  <2> QED
    BY <2>2, <2>3 DEF RunsFrom, SignsMissing
<1> QED
  BY <1>1, <1>2, <1>3, SplitHolds, PTL DEF PlanSpec

-----------------------------------------------------------------------------
(* SyncContract: the invariant of the loop says what the options read so   *)
(* far have in common with the preconditions, in both directions: every    *)
(* option agrees with them, and each of them comes from an option.         *)

\* What has been read agrees with the preconditions ...
OptionsAgree == \A i \in 1 .. next - 1 :
    /\ options[i].id \in {NotGiven, p.id}
    /\ options[i].rev \in {NotGiven, p.rev}
    /\ options[i].absent \in {NotGiven, p.absent}

\* ... and they come from there.
ComesFromOptions ==
    /\ p.id # NotGiven => \E i \in 1 .. next - 1 : options[i].id = p.id
    /\ p.rev # NotGiven => \E i \in 1 .. next - 1 : options[i].rev = p.rev
    /\ p.absent # NotGiven => \E i \in 1 .. next - 1 : options[i].absent = p.absent

\* What the later steps have established.
Decided ==
    /\ outcome \in {"read", "go"} => next = Len(options) + 1 /\ Paired
    /\ outcome = "go" => Meets
    /\ outcome = "go" /\ kind = "upload" /\ p.id # NotGiven => editedrev = p.rev

ContractInv == ContractTypeOK /\ OptionsAgree /\ ComesFromOptions /\ Decided /\ RefusesForReason

-----------------------------------------------------------------------------

\* The initial state has read nothing.
LEMMA InitContractInv == ContractInit => ContractInv
<1> SUFFICES ASSUME ContractInit PROVE ContractInv
  OBVIOUS
<1> USE DEF ContractInit
<1>1. ContractTypeOK
  <2>1. options \in Seq(Given) /\ kind \in {"upload", "download"}
    BY OptionsAssumption
  <2>2. object \in Objects \union {NoObject}
    OBVIOUS
  <2>3. next \in 1 .. Len(options) + 1
    BY <2>1
  <2>4. p \in [id : DocIds \union {NotGiven}, rev : Revisions \union {NotGiven},
               absent : {"true", NotGiven}]
    BY DEF Nothing
  <2>5. forwarded \in Seq(Given)
    OBVIOUS
  <2> QED
    BY <2>1, <2>2, <2>3, <2>4, <2>5 DEF ContractTypeOK
<1>2. OptionsAgree
  BY DEF OptionsAgree
<1>3. ComesFromOptions
  BY DEF ComesFromOptions, Nothing
<1>4. Decided /\ RefusesForReason
  BY DEF Decided, RefusesForReason
<1> QED
  BY <1>1, <1>2, <1>3, <1>4 DEF ContractInv

\* The option that is read is one of the list.
LEMMA OptionTyped ==
    ASSUME ContractTypeOK, next <= Len(options)
    PROVE  /\ next \in 1 .. Len(options)
           /\ options[next] \in Given
  BY DEF ContractTypeOK

\* An option whose values are taken.
LEMMA TakenTyped ==
    ASSUME ContractTypeOK, next <= Len(options), ~ Bad(options[next])
    PROVE  LET o == options[next] IN
           /\ Taken(p.id, o.id) \in DocIds \union {NotGiven}
           /\ Taken(p.rev, o.rev) \in Revisions \union {NotGiven}
           /\ Taken(p.absent, o.absent) \in {"true", NotGiven}
<1> DEFINE o == options[next]
<1>1. /\ o.id \in DocIds \union {Empty, NotGiven}
      /\ o.rev \in Revisions \union {Empty, NotGiven}
      /\ o.absent \in {"true", "false", NotGiven}
  BY OptionTyped DEF Given
<1>2. o.id # Empty /\ o.rev # Empty /\ o.absent # "false"
  BY DEF Bad
<1>3. /\ p.id \in DocIds \union {NotGiven}
      /\ p.rev \in Revisions \union {NotGiven}
      /\ p.absent \in {"true", NotGiven}
  BY DEF ContractTypeOK
<1> QED
  BY <1>1, <1>2, <1>3 DEF Taken

\* Without a conflict, a value and what it is taken into agree.
LEMMA TakenAgrees ==
    ASSUME NEW have, NEW value, ~ Conflicts(have, value)
    PROVE  /\ value \in {NotGiven, Taken(have, value)}
           /\ have \in {NotGiven, Taken(have, value)}
           /\ Taken(have, value) \in {have, value}
  BY DEF Conflicts, TwiceIsConflict, Taken

-----------------------------------------------------------------------------
(* Reading an option *)

\* An option that is taken.
LEMMA TakesOption ==
    ASSUME ContractInv, ReadOption, ~ Bad(options[next])
    PROVE  ContractInv'
<1> DEFINE o == options[next]
<1> USE DEF ContractInv
<1>1. next <= Len(options) /\ outcome = "reading"
  BY DEF ReadOption
<1>2. /\ p' = [id |-> Taken(p.id, o.id), rev |-> Taken(p.rev, o.rev),
               absent |-> Taken(p.absent, o.absent)]
      /\ forwarded' = IF kind = "upload" \/ Consumes(o) THEN forwarded
                      ELSE Append(forwarded, o)
      /\ next' = next + 1
      /\ UNCHANGED <<outcome, kind, options, object, editedrev>>
  BY DEF ReadOption
<1>3. next \in 1 .. Len(options) /\ o \in Given /\ Len(options) \in Nat
  BY <1>1, OptionTyped DEF ContractTypeOK
<1>4. ContractTypeOK'
  <2>1. p' \in [id : DocIds \union {NotGiven}, rev : Revisions \union {NotGiven},
                absent : {"true", NotGiven}]
    BY <1>1, <1>2, TakenTyped
  <2>2. forwarded' \in Seq(Given)
    BY <1>2, <1>3 DEF ContractTypeOK
  <2>3. next' \in 1 .. Len(options') + 1
    BY <1>2, <1>3
  <2> QED
    BY <1>2, <2>1, <2>2, <2>3 DEF ContractTypeOK
<1>5. /\ p'.id = Taken(p.id, o.id)
      /\ p'.rev = Taken(p.rev, o.rev)
      /\ p'.absent = Taken(p.absent, o.absent)
  BY <1>2
<1>6. ~ Conflicts(p.id, o.id) /\ ~ Conflicts(p.rev, o.rev)
  BY DEF Bad
<1>7. /\ o.absent \in {NotGiven, p'.absent}
      /\ p.absent \in {NotGiven, p'.absent}
      /\ p'.absent \in {p.absent, o.absent}
  <2>1. o.absent \in {"true", NotGiven} /\ p.absent \in {"true", NotGiven}
    BY <1>3 DEF Bad, Given, ContractTypeOK
  <2> QED
    BY <1>5, <2>1 DEF Taken
<1>8. /\ o.id \in {NotGiven, p'.id} /\ p.id \in {NotGiven, p'.id} /\ p'.id \in {p.id, o.id}
      /\ o.rev \in {NotGiven, p'.rev} /\ p.rev \in {NotGiven, p'.rev}
      /\ p'.rev \in {p.rev, o.rev}
  BY <1>5, <1>6, TakenAgrees
<1>9. OptionsAgree'
  <2> SUFFICES ASSUME NEW i \in 1 .. next
               PROVE  /\ options[i].id \in {NotGiven, p'.id}
                      /\ options[i].rev \in {NotGiven, p'.rev}
                      /\ options[i].absent \in {NotGiven, p'.absent}
    BY <1>2, <1>3 DEF OptionsAgree
  <2>1. CASE i = next
    BY <2>1, <1>7, <1>8
  <2>2. CASE i # next
    <3>1. i \in 1 .. next - 1
      BY <2>2, <1>3
    <3>2. /\ options[i].id \in {NotGiven, p.id}
          /\ options[i].rev \in {NotGiven, p.rev}
          /\ options[i].absent \in {NotGiven, p.absent}
      BY <3>1 DEF OptionsAgree
    <3> QED
      BY <3>2, <1>7, <1>8
  <2> QED
    BY <2>1, <2>2
<1>10. ComesFromOptions'
  <2>1. next \in 1 .. next' - 1 /\ \A i \in 1 .. next - 1 : i \in 1 .. next' - 1
    BY <1>2, <1>3
  <2>2. p'.id # NotGiven => \E i \in 1 .. next' - 1 : options[i].id = p'.id
    BY <1>8, <2>1 DEF ComesFromOptions
  <2>3. p'.rev # NotGiven => \E i \in 1 .. next' - 1 : options[i].rev = p'.rev
    BY <1>8, <2>1 DEF ComesFromOptions
  <2>4. p'.absent # NotGiven => \E i \in 1 .. next' - 1 : options[i].absent = p'.absent
    BY <1>7, <2>1 DEF ComesFromOptions
  <2> QED
    BY <1>2, <2>2, <2>3, <2>4 DEF ComesFromOptions
<1>11. Decided' /\ RefusesForReason'
  BY <1>1, <1>2 DEF Decided, RefusesForReason
<1> QED
  BY <1>4, <1>9, <1>10, <1>11

\* An option that is refused has a reason for it.
LEMMA RefusesOption ==
    ASSUME ContractInv, ReadOption, Bad(options[next])
    PROVE  ContractInv'
<1> DEFINE o == options[next]
<1> USE DEF ContractInv
<1>1. next <= Len(options)
  BY DEF ReadOption
<1>2. outcome' = "refused" /\ UNCHANGED <<next, p, forwarded, kind, options, object, editedrev>>
  BY DEF ReadOption
<1>3. next \in 1 .. Len(options) /\ o \in Given /\ Len(options) \in Nat
  BY <1>1, OptionTyped DEF ContractTypeOK
<1>4. \A i \in 1 .. next - 1 : i \in 1 .. Len(options)
  BY <1>3
<1>5. /\ p.id # NotGiven => p.id \in DocIds /\ SaysId(p.id)
      /\ p.rev # NotGiven => p.rev \in Revisions /\ SaysRev(p.rev)
  BY <1>4 DEF ComesFromOptions, ContractTypeOK, SaysId, SaysRev
<1>6. /\ o.id \in DocIds \union {Empty, NotGiven}
      /\ o.rev \in Revisions \union {Empty, NotGiven}
  BY <1>3 DEF Given
<1>7. SaysId(o.id) /\ SaysRev(o.rev) /\ SaysAbsent(o.absent)
  BY <1>3 DEF SaysId, SaysRev, SaysAbsent
<1>8. \/ SaysId(Empty) \/ SaysRev(Empty) \/ SaysAbsent("false")
      \/ \E v, w \in DocIds : v # w /\ SaysId(v) /\ SaysId(w)
      \/ \E v, w \in Revisions : v # w /\ SaysRev(v) /\ SaysRev(w)
  <2>1. CASE o.id = Empty \/ o.rev = Empty \/ o.absent = "false"
    BY <2>1, <1>7
  <2>2. CASE Conflicts(p.id, o.id) /\ o.id # Empty
    <3>1. p.id # NotGiven /\ o.id # NotGiven /\ o.id # p.id
      BY <2>2 DEF Conflicts, TwiceIsConflict
    <3>2. p.id \in DocIds /\ o.id \in DocIds /\ SaysId(p.id) /\ SaysId(o.id)
      BY <2>2, <3>1, <1>5, <1>6, <1>7
    <3> QED
      BY <3>1, <3>2
  <2>3. CASE Conflicts(p.rev, o.rev) /\ o.rev # Empty
    <3>1. p.rev # NotGiven /\ o.rev # NotGiven /\ o.rev # p.rev
      BY <2>3 DEF Conflicts, TwiceIsConflict
    <3>2. p.rev \in Revisions /\ o.rev \in Revisions /\ SaysRev(p.rev) /\ SaysRev(o.rev)
      BY <2>3, <3>1, <1>5, <1>6, <1>7
    <3> QED
      BY <3>1, <3>2
  <2> QED
    BY <2>1, <2>2, <2>3 DEF Bad
<1>10. RefusesForReason'
  BY <1>2, <1>8 DEF RefusesForReason, SaysId, SaysRev, SaysAbsent
<1>11. ContractTypeOK'
  BY <1>2 DEF ContractTypeOK
<1>12. OptionsAgree' /\ ComesFromOptions' /\ Decided'
  BY <1>2 DEF OptionsAgree, ComesFromOptions, Decided
<1> QED
  BY <1>10, <1>11, <1>12

-----------------------------------------------------------------------------
(* The end of the options, and the check *)

\* Everything that was said has been read by then.
LEMMA AllRead ==
    ASSUME ContractInv, next > Len(options)
    PROVE  /\ next = Len(options) + 1
           /\ \A i \in 1 .. Len(options) :
                /\ options[i].id \in {NotGiven, p.id}
                /\ options[i].rev \in {NotGiven, p.rev}
                /\ options[i].absent \in {NotGiven, p.absent}
           /\ p.id # NotGiven => SaysId(p.id)
           /\ p.rev # NotGiven => SaysRev(p.rev)
           /\ p.absent # NotGiven => SaysAbsent(p.absent)
<1>1. next = Len(options) + 1
  BY DEF ContractInv, ContractTypeOK
<1>2. next - 1 = Len(options)
  BY <1>1 DEF ContractInv, ContractTypeOK
<1> QED
  BY <1>1, <1>2 DEF ContractInv, OptionsAgree, ComesFromOptions, SaysId, SaysRev, SaysAbsent

\* Whether an ID is said is whether one was read, and so for the revision.
LEMMA ReadIsSaid ==
    ASSUME ContractInv, next > Len(options)
    PROVE  /\ (\E v \in DocIds : SaysId(v)) <=> p.id # NotGiven
           /\ (\E v \in Revisions : SaysRev(v)) <=> p.rev # NotGiven
<1>1. p.id \in DocIds \union {NotGiven} /\ p.rev \in Revisions \union {NotGiven}
  BY DEF ContractInv, ContractTypeOK
<1>2. NotGiven \notin DocIds /\ NotGiven \notin Revisions
  BY ValuesAssumption
<1>3. ASSUME NEW v \in DocIds, SaysId(v) PROVE p.id # NotGiven
  BY <1>2, <1>3, AllRead DEF SaysId
<1>4. ASSUME NEW v \in Revisions, SaysRev(v) PROVE p.rev # NotGiven
  BY <1>2, <1>4, AllRead DEF SaysRev
<1> QED
  BY <1>1, <1>3, <1>4, AllRead

\* The options end.
LEMMA EndsOptions ==
    ASSUME ContractInv, EndOptions
    PROVE  ContractInv'
<1>1. next > Len(options) /\ outcome' = IF Paired THEN "read" ELSE "refused"
  BY DEF EndOptions
<1>2. UNCHANGED <<kind, options, object, next, p, forwarded, editedrev>>
  BY DEF EndOptions
<1>3. ContractTypeOK' /\ OptionsAgree' /\ ComesFromOptions'
  BY <1>1, <1>2 DEF ContractInv, ContractTypeOK, OptionsAgree, ComesFromOptions
<1>4. Decided'
  BY <1>1, <1>2, AllRead DEF Decided, Paired
<1>5. ASSUME ~ Paired
      PROVE  Halved \/ (SaysAbsent("true") /\ \E v \in DocIds : SaysId(v))
  <2>1. CASE ~ (p.id # NotGiven <=> p.rev # NotGiven)
    <3>1. /\ (\E v \in DocIds : SaysId(v)) <=> p.id # NotGiven
          /\ (\E v \in Revisions : SaysRev(v)) <=> p.rev # NotGiven
      BY <1>1, ReadIsSaid
    <3> QED
      BY <2>1, <3>1 DEF Halved
  <2>2. CASE p.absent # NotGiven /\ p.id # NotGiven
    <3>1. p.absent = "true"
      BY <2>2 DEF ContractInv, ContractTypeOK
    <3> QED
      BY <1>1, <2>2, <3>1, AllRead, ReadIsSaid
  <2> QED
    BY <1>5, <2>1, <2>2 DEF Paired
<1>6. RefusesForReason'
  BY <1>1, <1>2, <1>5 DEF RefusesForReason, Halved, SaysId, SaysRev, SaysAbsent
<1> QED
  BY <1>3, <1>4, <1>6 DEF ContractInv

\* The object is not the one that is named.
LEMMA MeetsNot ==
    ASSUME ContractInv, outcome = "read", ~ Meets
    PROVE  \/ SaysAbsent("true") /\ object.id # Empty
           \/ \E v \in DocIds : SaysId(v) /\ v # object.id
           \/ \E v \in Revisions : SaysRev(v) /\ v # object.rev
<1>1. next > Len(options) /\ Paired
  BY DEF ContractInv, Decided, ContractTypeOK
<1>2. p.absent # NotGiven => SaysAbsent(p.absent)
  BY <1>1, AllRead
<1>3. CASE p.absent # NotGiven
  <2>1. p.absent = "true"
    BY <1>3 DEF ContractInv, ContractTypeOK
  <2>2. SaysAbsent(p.absent)
    BY <1>2, <1>3
  <2> QED
    BY <1>3, <2>1, <2>2 DEF Meets
<1>4. CASE p.absent = NotGiven /\ p.id # NotGiven
  <2>1. p.id \in DocIds /\ p.rev \in Revisions
    BY <1>1, <1>4 DEF ContractInv, ContractTypeOK, Paired
  <2>2. SaysId(p.id) /\ SaysRev(p.rev)
    BY <1>1, <1>4, AllRead DEF Paired
  <2>3. object # [id |-> p.id, rev |-> p.rev]
    BY <1>4 DEF Meets
  <2>4. object = [id |-> object.id, rev |-> object.rev]
    BY DEF ContractInv, ContractTypeOK, Objects, NoObject
  <2> QED
    BY <2>1, <2>2, <2>3, <2>4
<1> QED
  BY <1>3, <1>4 DEF Meets

\* The check.
LEMMA Checks ==
    ASSUME ContractInv, Check
    PROVE  ContractInv'
<1>1. outcome = "read" /\ outcome' = IF Meets THEN "go" ELSE "refused"
  BY DEF Check
<1>2. UNCHANGED <<kind, options, object, next, p, forwarded>>
  BY DEF Check
<1>3. editedrev' = IF kind = "upload" /\ Meets
                   THEN IF p.id # NotGiven THEN p.rev ELSE object.rev
                   ELSE editedrev
  BY DEF Check
<1>4. Paired
  BY <1>1 DEF ContractInv, Decided
<1>5. editedrev' \in Revisions \union {Empty}
  <2>1. p.id # NotGiven => p.rev \in Revisions
    BY <1>4 DEF ContractInv, ContractTypeOK, Paired
  <2>2. object.rev \in Revisions \union {Empty} /\ editedrev \in Revisions \union {Empty}
    BY DEF ContractInv, ContractTypeOK, Objects, NoObject
  <2> QED
    BY <1>3, <2>1, <2>2
<1>6. ContractTypeOK'
  BY <1>1, <1>2, <1>5 DEF ContractInv, ContractTypeOK
<1>7. OptionsAgree' /\ ComesFromOptions'
  BY <1>2 DEF ContractInv, OptionsAgree, ComesFromOptions
<1>8. Meets' <=> Meets
  BY <1>2 DEF Meets
<1>9. Decided'
  BY <1>1, <1>2, <1>3, <1>8 DEF ContractInv, Decided, Paired
<1>10. RefusesForReason'
  BY <1>1, <1>2, MeetsNot DEF RefusesForReason, SaysId, SaysRev, SaysAbsent
<1> QED
  BY <1>6, <1>7, <1>9, <1>10 DEF ContractInv

-----------------------------------------------------------------------------
(* The theorems *)

\* Nothing changes.
LEMMA ContractStutters == ASSUME ContractInv, UNCHANGED contractVars PROVE ContractInv'
  BY DEF ContractInv, ContractTypeOK, OptionsAgree, ComesFromOptions, Decided, Paired, Meets, RefusesForReason,
         Halved, SaysId, SaysRev, SaysAbsent, contractVars

\* The invariant holds in every reachable state.
THEOREM ContractInvariant == ContractSpec => []ContractInv
<1>1. ContractInit => ContractInv
  BY InitContractInv
<1>2. ContractInv /\ [ContractNext]_contractVars => ContractInv'
  <2> SUFFICES ASSUME ContractInv, [ContractNext]_contractVars PROVE ContractInv'
    OBVIOUS
  <2>1. CASE ReadOption
    BY <2>1, TakesOption, RefusesOption
  <2>2. CASE EndOptions
    BY <2>2, EndsOptions
  <2>3. CASE Check
    BY <2>3, Checks
  <2>4. CASE ContractTerminated \/ UNCHANGED contractVars
    BY <2>4, ContractStutters DEF ContractTerminated
  <2> QED
    BY <2>1, <2>2, <2>3, <2>4 DEF ContractNext
<1> QED
  BY <1>1, <1>2, PTL DEF ContractSpec

\* Every variable keeps its type, for option lists of any length.
THEOREM ContractTyped == ContractSpec => []ContractTypeOK
<1>1. ContractInv => ContractTypeOK
  BY DEF ContractInv
<1> QED
  BY <1>1, ContractInvariant, PTL

\* A call is refused only for a reason, for option lists of any length.
THEOREM RefusedForReason == ContractSpec => []RefusesForReason
<1>1. ContractInv => RefusesForReason
  BY DEF ContractInv
<1> QED
  BY <1>1, ContractInvariant, PTL

\* What the invariant says of a call that goes ahead.
LEMMA Goes == ContractInv => GoesAsAsked
<1> SUFFICES ASSUME ContractInv, outcome = "go" PROVE GoesAsAsked
  BY DEF GoesAsAsked
<1>1. next > Len(options) /\ Paired /\ Meets
  BY DEF ContractInv, Decided, ContractTypeOK
<1>2. ~ Halved
  BY <1>1, ReadIsSaid DEF Halved, Paired
<1>3. /\ NotGiven # Empty /\ Empty \notin DocIds /\ Empty \notin Revisions
      /\ NotGiven # "true"
  BY ValuesAssumption
<1>4. /\ p.id \in DocIds \union {NotGiven} /\ p.rev \in Revisions \union {NotGiven}
      /\ p.absent \in {"true", NotGiven}
  BY DEF ContractInv, ContractTypeOK
<1>5. /\ p.id # NotGiven => p.id = object.id
      /\ p.rev # NotGiven => p.rev = object.rev
      /\ p.absent # NotGiven => object = NoObject
  <2>1. CASE p.absent # NotGiven
    <3>1. object.id = Empty /\ p.id = NotGiven /\ p.rev = NotGiven
      BY <1>1, <2>1 DEF Meets, Paired
    <3>2. object = NoObject
      BY <1>3, <3>1 DEF ContractInv, ContractTypeOK, Objects
    <3> QED
      BY <3>1, <3>2
  <2>2. CASE p.absent = NotGiven
    BY <1>1, <2>2 DEF Meets, Paired
  <2> QED
    BY <2>1, <2>2
<1>6. ASSUME NEW i \in 1 .. Len(options)
      PROVE  /\ options[i].id \in {NotGiven, object.id} /\ options[i].rev \in {NotGiven, object.rev}
             /\ options[i].id # Empty /\ options[i].rev # Empty
             /\ options[i].rev # NotGiven /\ kind = "upload" => editedrev = options[i].rev
             /\ options[i].absent # NotGiven => options[i].absent = "true" /\ object = NoObject
  <2>1. /\ options[i].id \in {NotGiven, p.id} /\ options[i].rev \in {NotGiven, p.rev}
        /\ options[i].absent \in {NotGiven, p.absent}
    BY <1>1, AllRead
  <2>2. options[i].rev # NotGiven /\ kind = "upload" => editedrev = options[i].rev
    BY <1>1, <2>1 DEF ContractInv, Decided, Paired
  <2> QED
    BY <1>3, <1>4, <1>5, <2>1, <2>2
<1> QED
  BY <1>2, <1>6 DEF GoesAsAsked

\* A call goes ahead only with what its options ask for, for option lists of
\* any length.
THEOREM GoesOnlyAsAsked == ContractSpec => []GoesAsAsked
  BY Goes, ContractInvariant, PTL

-----------------------------------------------------------------------------
(* What a download hands on *)

\* So far, everything but the preconditions has been handed on.
RestForwarded == kind = "download" => RestOf(forwarded, next - 1)

\* A precondition is left out ...
LEMMA RestSkips ==
    ASSUME NEW list, NEW n \in Nat, RestOf(list, n), Consumes(options[n + 1])
    PROVE  RestOf(list, n + 1)
<1>1. PICK from \in [1 .. Len(list) -> 1 .. n] :
        /\ \A i \in 1 .. Len(list) : list[i] = options[from[i]]
        /\ \A i, j \in 1 .. Len(list) : i < j => from[i] < from[j]
        /\ \A k \in 1 .. n :
             options[k].id = NotGiven /\ options[k].rev = NotGiven
               <=> \E i \in 1 .. Len(list) : from[i] = k
  BY DEF RestOf
<1>2. from \in [1 .. Len(list) -> 1 .. n + 1]
  OBVIOUS
<1>3. ASSUME NEW k \in 1 .. n + 1
      PROVE  options[k].id = NotGiven /\ options[k].rev = NotGiven
               <=> \E i \in 1 .. Len(list) : from[i] = k
  <2>1. CASE k \in 1 .. n
    BY <1>1, <2>1
  <2>2. CASE k = n + 1
    BY <2>2 DEF Consumes
  <2> QED
    BY <2>1, <2>2
<1> QED
  BY <1>1, <1>2, <1>3 DEF RestOf

\* ... and anything else comes last.
LEMMA RestGrows ==
    ASSUME NEW S, NEW list \in Seq(S), NEW n \in Nat, options[n + 1] \in S,
           RestOf(list, n), ~ Consumes(options[n + 1])
    PROVE  RestOf(Append(list, options[n + 1]), n + 1)
<1>1. PICK from \in [1 .. Len(list) -> 1 .. n] :
        /\ \A i \in 1 .. Len(list) : list[i] = options[from[i]]
        /\ \A i, j \in 1 .. Len(list) : i < j => from[i] < from[j]
        /\ \A k \in 1 .. n :
             options[k].id = NotGiven /\ options[k].rev = NotGiven
               <=> \E i \in 1 .. Len(list) : from[i] = k
  BY DEF RestOf
<1> DEFINE longer == Append(list, options[n + 1])
           to == [i \in 1 .. Len(list) + 1 |-> IF i = Len(list) + 1 THEN n + 1 ELSE from[i]]
<1>2. /\ Len(list) \in Nat /\ Len(longer) = Len(list) + 1
      /\ longer[Len(list) + 1] = options[n + 1]
      /\ \A i \in 1 .. Len(list) : longer[i] = list[i]
  OBVIOUS
<1>3. /\ to \in [1 .. Len(longer) -> 1 .. n + 1]
      /\ to[Len(list) + 1] = n + 1
      /\ \A i \in 1 .. Len(list) : to[i] = from[i] /\ to[i] \in 1 .. n
  BY <1>2
<1> HIDE DEF longer, to
<1>4. \A i \in 1 .. Len(longer) : i = Len(list) + 1 \/ i \in 1 .. Len(list)
  BY <1>2
<1>5. \A i \in 1 .. Len(longer) : longer[i] = options[to[i]]
  BY <1>1, <1>2, <1>3, <1>4
<1>6. \A i, j \in 1 .. Len(longer) : i < j => to[i] < to[j]
  BY <1>1, <1>2, <1>3, <1>4
<1>7. ASSUME NEW k \in 1 .. n + 1
      PROVE  options[k].id = NotGiven /\ options[k].rev = NotGiven
               <=> \E i \in 1 .. Len(longer) : to[i] = k
  <2>1. CASE k \in 1 .. n
    <3>1. (\E i \in 1 .. Len(list) : from[i] = k) <=> \E i \in 1 .. Len(longer) : to[i] = k
      BY <1>2, <1>3, <1>4, <2>1, SMTT(20)
    <3> QED
      BY <1>1, <2>1, <3>1
  <2>2. CASE k = n + 1
    BY <1>2, <1>3, <2>2 DEF Consumes
  <2> QED
    BY <2>1, <2>2
<1> QED
  BY <1>3, <1>5, <1>6, <1>7 DEF RestOf, longer

LEMMA RestReadOn == ASSUME ContractInv, RestForwarded, ReadOption PROVE RestForwarded'
<1>1. next \in 1 .. Len(options) /\ options[next] \in Given /\ forwarded \in Seq(Given)
  BY OptionTyped DEF ContractInv, ReadOption, ContractTypeOK
<1>2. UNCHANGED <<kind, options>>
  BY DEF ReadOption
<1>3. CASE UNCHANGED <<next, forwarded>>
  BY <1>2, <1>3, ZenonT(30) DEF RestForwarded, RestOf
<1>4. PICK n \in Nat : n = next - 1 /\ next = n + 1 /\ (next' = next + 1 => next' - 1 = n + 1)
  BY <1>1
<1>5. CASE next' = next + 1 /\ kind = "download" /\ Consumes(options[next]) /\ UNCHANGED forwarded
  <2>1. RestOf(forwarded, n) /\ Consumes(options[n + 1])
    BY <1>4, <1>5 DEF RestForwarded
  <2>2. RestOf(forwarded, n + 1)
    BY <1>4, <2>1, RestSkips
  <2>3. RestOf(forwarded', next' - 1)
    BY <1>4, <1>5, <2>2
  <2> QED
    BY <1>2, <2>3 DEF RestForwarded, RestOf
<1>6. CASE /\ next' = next + 1 /\ kind = "download" /\ ~ Consumes(options[next])
           /\ forwarded' = Append(forwarded, options[next])
  <2>1. RestOf(forwarded, n) /\ options[n + 1] \in Given /\ ~ Consumes(options[n + 1])
    BY <1>1, <1>4, <1>6 DEF RestForwarded
  <2>2. RestOf(Append(forwarded, options[n + 1]), n + 1)
    BY <1>1, <1>4, <2>1, RestGrows
  <2>3. RestOf(forwarded', next' - 1)
    BY <1>4, <1>6, <2>2
  <2> QED
    BY <1>2, <2>3 DEF RestForwarded, RestOf
<1>7. CASE kind = "upload"
  BY <1>2, <1>7 DEF RestForwarded
<1> QED
  BY <1>3, <1>5, <1>6, <1>7 DEF ReadOption, ContractInv, ContractTypeOK

\* A download hands on exactly what is no precondition, in the order of its
\* options, for option lists of any length.
THEOREM ForwardsOnlyRest == ContractSpec => []ForwardsRest
<1>1. ContractInit => RestForwarded
  <2> SUFFICES ASSUME ContractInit PROVE RestOf(<<>>, 0)
    BY DEF RestForwarded, ContractInit
  <2>1. Len(<<>>) = 0 /\ 1 .. 0 = {}
    OBVIOUS
  <2>2. [i \in 1 .. 0 |-> 0] \in [1 .. 0 -> 1 .. 0]
    BY <2>1
  <2> QED
    BY <2>1, <2>2 DEF RestOf
<1>2. ContractInv /\ RestForwarded /\ [ContractNext]_contractVars => RestForwarded'
  <2> SUFFICES ASSUME ContractInv, RestForwarded, [ContractNext]_contractVars PROVE RestForwarded'
    OBVIOUS
  <2>1. CASE UNCHANGED <<kind, options, next, forwarded>>
    BY <2>1 DEF RestForwarded, RestOf
  <2> QED
    BY <2>1, RestReadOn DEF ContractNext, EndOptions, Check, ContractTerminated, contractVars
<1>3. ContractInv /\ RestForwarded => ForwardsRest
  <2> SUFFICES ASSUME ContractInv, RestForwarded, kind = "download", outcome = "go"
               PROVE  RestOf(forwarded, Len(options))
    BY DEF ForwardsRest
  <2>1. next - 1 = Len(options)
    BY DEF ContractInv, Decided, ContractTypeOK
  <2> QED
    BY <2>1 DEF RestForwarded
<1> QED
  BY <1>1, <1>2, <1>3, ContractInvariant, PTL DEF ContractSpec

-----------------------------------------------------------------------------
(* The instance *)

\* A behaviour of the instance is one of each component, most of them at rest.
THEOREM CallsCompose ==
  CallsSpec => PlanSpec /\ ContractSpec /\ RootSpec /\ Spec
<1>1. CallsInit => PlanInit /\ ContractInit /\ RootInit /\ Init
  BY DEF CallsInit, PlanRests, ContractRests, RootRests, HandlesRest
<1>2. [CallsNext]_allVars =>
        /\ [PlanNext]_planVars /\ [ContractNext]_contractVars
        /\ [RootNext]_rootVars /\ [Next]_vars
  BY DEF CallsNext, allVars
<1> QED
  BY <1>1, <1>2, PTL DEF CallsSpec, PlanSpec, ContractSpec, RootSpec, Spec

\* The variables of the four components keep their types.
THEOREM CallsTyped == CallsSpec => []TypesOK
<1>1. PlanTypeOK /\ ContractTypeOK /\ RootTypeOK /\ TypeOK => TypesOK
  BY DEF TypesOK
<1> QED
  BY <1>1, CallsCompose, PlanTyped, ContractTyped, RootTyped, HandlesTyped, PTL
=============================================================================
