------------------------- MODULE ConditionalReplace -------------------------
(***************************************************************************)
(* What an upload promises its caller, whichever protocol carries it: the  *)
(* destination is replaced in one step, only if it still is the version    *)
(* the writer looked at (and the version the caller expected, if it named  *)
(* one), and only by a whole file each part of which the source held while *)
(* the writer was at work.                                                 *)
(***************************************************************************)
EXTENDS UploadTypes

VARIABLES
    dest,     \* the destination: its revision and contents
    source,   \* what the source holds
    session   \* session[p]: what writer p has observed, or None

vars == <<dest, source, session>>

Session == [expected : Revs \union {None}, base : Revs \union {None},
            seen : [Parts -> SUBSET Bytes]]

TypeOK ==
    /\ dest \in [rev : Revs, data : Data]
    /\ source \in [Parts -> Bytes]
    /\ session \in [Procs -> Session \union {None}]

Init ==
    /\ dest = [rev |-> 0, data |-> NoData]
    /\ source \in [Parts -> Bytes]
    /\ session = [p \in Procs |-> None]

Begin(p) ==
    /\ session[p] = None
    /\ \E e \in {None, dest.rev} :
         session' = [session EXCEPT ![p] =
           [expected |-> e, base |-> None, seen |-> [k \in Parts |-> {source[k]}]]]
    /\ UNCHANGED <<dest, source>>

\* The writer looks the destination up.
Bind(p) ==
    /\ session[p] # None
    /\ session[p].base = None
    /\ session[p].expected \in {None, dest.rev}
    /\ session' = [session EXCEPT ![p].base = dest.rev]
    /\ UNCHANGED <<dest, source>>

Replace(p) ==
    /\ session[p] # None
    /\ session[p].base = dest.rev
    /\ session[p].expected \in {None, dest.rev}
    /\ \E r \in Ids \ {dest.rev}, d \in [Parts -> Bytes] :
         /\ \A k \in Parts : d[k] \in session[p].seen[k]
         /\ dest' = [rev |-> r, data |-> d]
    /\ session' = [session EXCEPT ![p] = None]
    /\ UNCHANGED source

Quit(p) ==
    /\ session[p] # None
    /\ session' = [session EXCEPT ![p] = None]
    /\ UNCHANGED <<dest, source>>

EditSource ==
    /\ source' \in [Parts -> Bytes]
    /\ session' = [p \in Procs |-> IF session[p] = None THEN None ELSE
         [session[p] EXCEPT !.seen =
            [k \in Parts |-> session[p].seen[k] \union {source'[k]}]]]
    /\ UNCHANGED dest

\* Another client replaces or deletes the destination.
Foreign ==
    /\ dest' \in [rev : Revs \ {dest.rev}, data : {NoData}]
    /\ UNCHANGED <<source, session>>

Next ==
    \/ \E p \in Procs : Begin(p) \/ Bind(p) \/ Replace(p) \/ Quit(p)
    \/ EditSource
    \/ Foreign

Spec == Init /\ [][Next]_vars
=============================================================================
