------------------------------ MODULE MCTokens ------------------------------
(***************************************************************************)
(* One instance for the three components that access tokens come from:     *)
(* API requests with the token sources of auth = oauth, the token of the   *)
(* desktop client, and the log files it is read from.  They share no       *)
(* state, and a behaviour exercises one of them, the subject; the others   *)
(* stay in their initial states.                                           *)
(***************************************************************************)
EXTENDS ApiClient, DesktopToken, MCWalReader, TLC

CONSTANTS c1, c2, s1, s2

VARIABLE subject

allVars == <<vars, desktopVars, walVars, subject>>

\* Each goroutine has an Fs, and a token source, of its own.
OwnSources == (c1 :> s1) @@ (c2 :> s2)

TokensInit ==
    /\ Init /\ DesktopInit /\ WalInit
    /\ subject \in {"requests", "desktop", "wal"}

TokensNext ==
    \/ subject = "requests" /\ Next /\ UNCHANGED <<desktopVars, walVars, subject>>
    \/ subject = "desktop" /\ DesktopNext /\ UNCHANGED <<vars, walVars, subject>>
    \/ subject = "wal" /\ WalNext /\ UNCHANGED <<vars, desktopVars, subject>>

TokensSpec ==
    TokensInit /\ [][TokensNext]_allVars /\ Fairness /\ DesktopFairness

-----------------------------------------------------------------------------
(* Properties *)

\* The types of the three: API calls, token reads and log files.
TypesOK == TypeOK /\ DesktopTypeOK /\ WalTypeOK

\* Every request and every call of Token returns, whatever fails and whoever
\* else refreshes or writes: neither mutex is kept on any path.
EveryCallEnds == EveryCallReturns /\ EveryReadReturns
=============================================================================
