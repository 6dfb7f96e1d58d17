------------------------------ MODULE MCCalls ------------------------------
(***************************************************************************)
(* One instance for four components that are single calls: the plan of an  *)
(* upload's parts, the preconditions among the options, the root of a new  *)
(* Fs, and the objects callers hold.  They share no state, and a behaviour *)
(* exercises one of them, the subject; the others stay in an initial state.*)
(***************************************************************************)
EXTENDS PartPlan, SyncContract, RootLookup, FileHandles, TLC

VARIABLE subject

allVars == <<planVars, contractVars, rootVars, vars, subject>>

Symmetry == Permutations(DirIds) \union Permutations(Names)

-----------------------------------------------------------------------------
(* Lists of options *)

\* A header carries one key or none of the two.
Headers == {g \in Given : g.absent = NotGiven /\ NotGiven \in {g.id, g.rev}}

Lists(S, max) == UNION {[1 .. n -> S] : n \in 0 .. max}

MCUploads   == Lists(Given, 2)
MCDownloads == Lists(Headers, 4)

-----------------------------------------------------------------------------
(* An initial state of each component *)

PlanRests == /\ way = "stream" /\ size = 0 /\ limits = [min |-> 1, max |-> 1, num |-> 1]
             /\ PlanInit

ContractRests == kind = "upload" /\ options = <<>> /\ object = NoObject /\ ContractInit

RootRests == alive = Libraries /\ place = [x \in Entries |-> Nowhere] /\ root = <<>> /\ RootInit

HandlesRest ==
    LET file == NewFile(CHOOSE p0 \in Places : TRUE, CHOOSE r \in Revs : r.n = 1)
    IN  doc = [i \in Ids |-> IF i = 1 THEN file ELSE Gone] /\ Init

CallsInit ==
    \/ subject = "plan" /\ ContractRests /\ RootRests /\ HandlesRest /\ PlanInit
    \/ subject = "contract" /\ PlanRests /\ RootRests /\ HandlesRest /\ ContractInit
    \/ subject = "root" /\ PlanRests /\ ContractRests /\ HandlesRest /\ RootInit
    \/ subject = "handles" /\ PlanRests /\ ContractRests /\ RootRests /\ Init

CallsNext ==
    \/ subject = "plan" /\ PlanNext /\ UNCHANGED <<contractVars, rootVars, vars, subject>>
    \/ subject = "contract" /\ ContractNext /\ UNCHANGED <<planVars, rootVars, vars, subject>>
    \/ subject = "root" /\ RootNext /\ UNCHANGED <<planVars, contractVars, vars, subject>>
    \/ subject = "handles" /\ Next /\ UNCHANGED <<planVars, contractVars, rootVars, subject>>

CallsSpec == CallsInit /\ [][CallsNext]_allVars

\* The types of the four modules: plans, preconditions, lookups and handles.
TypesOK == PlanTypeOK /\ ContractTypeOK /\ RootTypeOK /\ TypeOK
=============================================================================
