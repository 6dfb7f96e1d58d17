---------------------------- MODULE SyncContract ----------------------------
(***************************************************************************)
(* How the preconditions of a conditional upload or download are read from *)
(* the options of the call, one option after the other, and held against   *)
(* the object (pkudisk.go).  An upload gets them as metadata, which may     *)
(* carry several keys in one option, a download as headers, one each, and   *)
(* hands every other option on.                                            *)
(***************************************************************************)
EXTENDS Naturals, Sequences

CONSTANTS
    DocIds, Revisions,    \* non-empty values
    Empty,                \* the empty string
    NotGiven,             \* a key that is not in an option
    Uploads, Downloads    \* the lists of options of the calls

Given == [id : DocIds \union {Empty, NotGiven}, rev : Revisions \union {Empty, NotGiven},
          absent : {"true", "false", NotGiven}]

ASSUME ValuesAssumption ==
    /\ {Empty, NotGiven} \intersect (DocIds \union Revisions) = {}
    /\ Empty # NotGiven /\ NotGiven \notin {"true", "false"}
ASSUME OptionsAssumption ==
    /\ Uploads \subseteq Seq(Given) /\ Downloads \subseteq Seq(Given)
    /\ \A list \in Downloads : \A i \in 1 .. Len(list) : list[i].absent = NotGiven

VARIABLES
    kind,        \* "upload" or "download"
    options,     \* the options of the call
    object,      \* ID and revision of the object, empty when there is none
    next,        \* the next option to read
    p,           \* the preconditions read so far
    forwarded,   \* the options handed on by a download
    outcome,     \* "reading", "read", "go" or "refused"
    editedrev    \* the revision the upload edits

contractVars == <<kind, options, object, next, p, forwarded, outcome, editedrev>>

NoObject == [id |-> Empty, rev |-> Empty]
Objects  == [id : DocIds, rev : Revisions \union {Empty}]

Nothing == [id |-> NotGiven, rev |-> NotGiven, absent |-> NotGiven]

ContractInit ==
    /\ \/ kind = "upload" /\ options \in Uploads /\ object \in Objects \union {NoObject}
       \/ kind = "download" /\ options \in Downloads /\ object \in Objects
    /\ next = 1
    /\ p = Nothing
    /\ forwarded = <<>>
    /\ outcome = "reading"
    /\ editedrev = Empty

-----------------------------------------------------------------------------
(* Reading *)

\* Seeded faults: the last value wins; a value may not come twice.
LastWins(have, value) == FALSE
TwiceIsConflict(have, value) == have # NotGiven /\ value # NotGiven

Conflicts(have, value) == TwiceIsConflict(have, value) /\ value # have

Bad(option) ==
    \/ option.id = Empty \/ Conflicts(p.id, option.id)
    \/ option.rev = Empty \/ Conflicts(p.rev, option.rev)
    \/ option.absent = "false"

Taken(have, value) == IF value = NotGiven THEN have ELSE value

\* Seeded fault: the header with the revision is handed on, too.
ConsumesId(option) == option.id # NotGiven

Consumes(option) == option.id # NotGiven \/ option.rev # NotGiven

ReadOption ==
    /\ outcome = "reading" /\ next <= Len(options)
    /\ LET option == options[next] IN
       IF Bad(option)
       THEN outcome' = "refused" /\ UNCHANGED <<next, p, forwarded>>
       ELSE /\ p' = [id |-> Taken(p.id, option.id), rev |-> Taken(p.rev, option.rev),
                     absent |-> Taken(p.absent, option.absent)]
            /\ forwarded' = IF kind = "upload" \/ Consumes(option) THEN forwarded
                            ELSE Append(forwarded, option)
            /\ next' = next + 1
            /\ UNCHANGED outcome
    /\ UNCHANGED <<kind, options, object, editedrev>>

\* An ID and a revision come together, and not with expected-absent.
Paired == /\ p.id # NotGiven <=> p.rev # NotGiven
          /\ p.absent # NotGiven => p.id = NotGiven

EndOptions ==
    /\ outcome = "reading" /\ next > Len(options)
    /\ outcome' = IF Paired THEN "read" ELSE "refused"
    /\ UNCHANGED <<kind, options, object, next, p, forwarded, editedrev>>

\* checkObject, and its counterpart in Open.
Meets == IF p.absent # NotGiven THEN object.id = Empty
         ELSE p.id # NotGiven => object = [id |-> p.id, rev |-> p.rev]

\* An upload edits the expected revision, or the one the object has.
Check ==
    /\ outcome = "read"
    /\ outcome' = IF Meets THEN "go" ELSE "refused"
    /\ editedrev' = IF kind = "upload" /\ Meets
                    THEN IF p.id # NotGiven THEN p.rev ELSE object.rev
                    ELSE editedrev
    /\ UNCHANGED <<kind, options, object, next, p, forwarded>>

ContractTerminated == outcome \in {"go", "refused"} /\ UNCHANGED contractVars

ContractNext == ReadOption \/ EndOptions \/ Check \/ ContractTerminated

ContractSpec == ContractInit /\ [][ContractNext]_contractVars

-----------------------------------------------------------------------------
(* Properties *)

ContractTypeOK ==
    /\ kind \in {"upload", "download"}
    /\ options \in Seq(Given)
    /\ object \in Objects \union {NoObject}
    /\ next \in 1 .. Len(options) + 1
    /\ p \in [id : DocIds \union {NotGiven}, rev : Revisions \union {NotGiven},
              absent : {"true", NotGiven}]
    /\ forwarded \in Seq(Given)
    /\ outcome \in {"reading", "read", "go", "refused"}
    /\ editedrev \in Revisions \union {Empty}

SaysId(v)     == \E i \in 1 .. Len(options) : options[i].id = v
SaysRev(v)    == \E i \in 1 .. Len(options) : options[i].rev = v
SaysAbsent(v) == \E i \in 1 .. Len(options) : options[i].absent = v

\* Some ID is given without a revision, or the other way round.
Halved == ~ ((\E v \in DocIds : SaysId(v)) <=> (\E v \in Revisions : SaysRev(v)))

\* A call goes ahead only with an object that meets every single precondition
\* in its options, in whichever of them it stands and however often it is
\* given, and an upload then edits the revision they name.  A precondition is
\* never dropped: neither half of one, nor one that has no value.
GoesAsAsked ==
    outcome = "go" =>
        /\ \A i \in 1 .. Len(options) :
             /\ options[i].id \in {NotGiven, object.id} /\ options[i].rev \in {NotGiven, object.rev}
             /\ options[i].id # Empty /\ options[i].rev # Empty
             /\ options[i].rev # NotGiven /\ kind = "upload" => editedrev = options[i].rev
             /\ options[i].absent # NotGiven => options[i].absent = "true" /\ object = NoObject
        /\ ~ Halved

\* A call is refused only when its options contradict each other or the
\* contract, or the object is not the one they name.
RefusesForReason ==
    outcome = "refused" =>
        \/ SaysId(Empty) \/ SaysRev(Empty) \/ SaysAbsent("false")
        \/ \E v, w \in DocIds : v # w /\ SaysId(v) /\ SaysId(w)
        \/ \E v, w \in Revisions : v # w /\ SaysRev(v) /\ SaysRev(w)
        \/ Halved
        \/ SaysAbsent("true") /\ \E v \in DocIds : SaysId(v)
        \/ SaysAbsent("true") /\ object.id # Empty
        \/ \E v \in DocIds : SaysId(v) /\ v # object.id
        \/ \E v \in Revisions : SaysRev(v) /\ v # object.rev

\* The first n options without a precondition, in their order: from says where
\* each option of the list comes from.
RestOf(list, n) ==
    \E from \in [1 .. Len(list) -> 1 .. n] :
        /\ \A i \in 1 .. Len(list) : list[i] = options[from[i]]
        /\ \A i, j \in 1 .. Len(list) : i < j => from[i] < from[j]
        /\ \A k \in 1 .. n :
             options[k].id = NotGiven /\ options[k].rev = NotGiven
               <=> \E i \in 1 .. Len(list) : from[i] = k

\* A download hands on every option that is no precondition, in their order,
\* and no precondition to the object store.
ForwardsRest ==
    kind = "download" /\ outcome = "go" => RestOf(forwarded, Len(options))
=============================================================================
