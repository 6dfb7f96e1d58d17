----------------------------- MODULE TokenSource -----------------------------
(***************************************************************************)
(* Access tokens of auth = oauth: oauthTokenProvider.Token of oauth.go, the *)
(* oauthutil.TokenSource of rclone it calls (external), the token saved in  *)
(* rclone's configuration and the authorization server (external).         *)
(*                                                                         *)
(* Every Fs of a process has a token source of its own; goroutines of one   *)
(* Fs share it.  All sources, and other rclone processes, save to the same  *)
(* configuration.  Tokens are numbered in the order the server issues them; *)
(* number n stands for the n-th access token and the n-th refresh token,    *)
(* and exchanging refresh token n ends it.                                 *)
(***************************************************************************)
EXTENDS Naturals

CONSTANTS
    Callers,      \* goroutines that send API requests
    Sources,      \* token sources, one for each Fs
    SourceOf,     \* the source of the Fs a goroutine works for
    None,         \* no goroutine
    MaxTries,     \* attempts of a source to refresh (5 in rclone)
    MaxTokens,    \* bound: tokens issued
    MaxFaults,    \* bound: requests and saves that fail
    MaxEnds,      \* bound: tokens that expire or are revoked
    MaxForeign    \* bound: refreshes by other processes

ASSUME SourceAssumption == SourceOf \in [Callers -> Sources]
ASSUME CallerAssumption == None \notin Callers
ASSUME LimitAssumption ==
    /\ MaxTries \in Nat \ {0} /\ MaxTokens \in Nat \ {0}
    /\ MaxFaults \in Nat /\ MaxEnds \in Nat /\ MaxForeign \in Nat

VARIABLES
    current,     \* the last token issued
    accepted,    \* access tokens the service accepts
    elapsed,     \* access tokens past their expiry time
    config,      \* the token in the configuration
    held,        \* held[s]: the token in memory of source s
    mutex,       \* oauthTokenMu: the goroutine that has it, or None
    fetch,       \* fetch[c]: the Token call of goroutine c
    ended,       \* tokens that expired, were revoked or were exchanged
                 \* elsewhere (history)
    exchanged,   \* refresh tokens this process exchanged, the new token
                 \* saved (history)
    faults, ends, foreign    \* counters of the bounds

serverVars == <<current, accepted, elapsed, ended>>
tokenVars  == <<serverVars, config, held, mutex, fetch, exchanged, faults, ends, foreign>>

Numbers == 1 .. MaxTokens
Token   == [n : Numbers, expired : BOOLEAN]

Inside == {"expiring", "unsaving", "checking", "submitting", "saving"}
NoFetch == [at |-> "idle", refresh |-> FALSE, tries |-> 0, got |-> 1]
Fetch == [at : {"idle", "waiting", "done", "failed"} \union Inside,
          refresh : BOOLEAN, tries : 0 .. MaxTries, got : Numbers]

TokenTypeOK ==
    /\ current \in Numbers
    /\ accepted \subseteq Numbers /\ elapsed \subseteq Numbers
    /\ ended \subseteq Numbers /\ exchanged \subseteq Numbers
    /\ config \in Token
    /\ held \in [Sources -> Token]
    /\ mutex \in Callers \union {None}
    /\ fetch \in [Callers -> Fetch]
    /\ faults \in 0 .. MaxFaults /\ ends \in 0 .. MaxEnds /\ foreign \in 0 .. MaxForeign

\* Every source begins with the token that rclone config saved.
TokenInit ==
    /\ current = 1
    /\ accepted = {1}
    /\ elapsed = {}
    /\ config = [n |-> 1, expired |-> FALSE]
    /\ held = [s \in Sources |-> config]
    /\ mutex = None
    /\ fetch = [c \in Callers |-> NoFetch]
    /\ ended = {}
    /\ exchanged = {}
    /\ faults = 0 /\ ends = 0 /\ foreign = 0

Fault == faults < MaxFaults /\ faults' = faults + 1

Mine(c) == held[SourceOf[c]]

\* oauth2.Token.Valid: by the clock of the client.
Valid(t) == ~ t.expired /\ t.n \notin elapsed

StartFetch(c, refresh) ==
    fetch' = [fetch EXCEPT ![c] = [@ EXCEPT !.at = "waiting", !.refresh = refresh, !.tries = 0]]
Goto(c, step) == fetch' = [fetch EXCEPT ![c].at = step]

\* Seeded fault: an error return does not unlock.
KeepMutex == mutex

Released == None

\* Token returns, and its deferred call unlocks the mutex.
Got(c, n) ==
    /\ fetch' = [fetch EXCEPT ![c].at = "done", ![c].got = n]
    /\ mutex' = None
FetchFails(c) == Goto(c, "failed") /\ mutex' = Released

-----------------------------------------------------------------------------
(* oauthTokenProvider.Token *)

\* Seeded fault: the sources do not wait for each other.
NoMutex == TRUE

Unlocked == mutex = None

\* Seeded fault: the token is expired before every request.
AlwaysExpire(c) == "expiring"

FirstStep(c) == IF fetch[c].refresh THEN "expiring" ELSE "checking"

Lock(c) ==
    /\ fetch[c].at = "waiting" /\ Unlocked
    /\ mutex' = c
    /\ Goto(c, FirstStep(c))
    /\ UNCHANGED <<serverVars, config, held, exchanged, faults, ends, foreign>>

Same(c) == config.n = Mine(c).n

\* TokenSource.Expire: the token in memory counts as expired; so does the one
\* in the configuration, if it is the same.
Expire(c) ==
    /\ fetch[c].at = "expiring"
    /\ held' = [held EXCEPT ![SourceOf[c]].expired = TRUE]
    /\ \/ Goto(c, IF Same(c) THEN "unsaving" ELSE "checking") /\ UNCHANGED <<mutex, faults>>
       \/ FetchFails(c) /\ Fault
    /\ UNCHANGED <<serverVars, config, exchanged, ends, foreign>>

SaveExpired(c) ==
    /\ fetch[c].at = "unsaving"
    /\ \/ config' = Mine(c) /\ Goto(c, "checking") /\ UNCHANGED <<mutex, faults>>
       \/ FetchFails(c) /\ Fault /\ UNCHANGED config
    /\ UNCHANGED <<serverVars, held, exchanged, ends, foreign>>

-----------------------------------------------------------------------------
(* TokenSource.Token (external) *)

UseCached(c) ==
    /\ fetch[c].at = "checking" /\ Valid(Mine(c))
    /\ Got(c, Mine(c).n)
    /\ UNCHANGED <<serverVars, config, held, exchanged, faults, ends, foreign>>

\* reReadToken: another source or process may have refreshed already.
Reread(c) == IF Valid(config) \/ ~ Same(c) THEN config ELSE Mine(c)

ReadConfig(c) ==
    /\ fetch[c].at = "checking" /\ ~ Valid(Mine(c))
    /\ held' = [held EXCEPT ![SourceOf[c]] = Reread(c)]
    /\ Goto(c, IF Valid(Reread(c)) THEN "saving" ELSE "submitting")
    /\ UNCHANGED <<serverVars, config, mutex, exchanged, faults, ends, foreign>>

\* The server exchanges the last refresh token it issued for a new pair.  It
\* may let the old access token live on.
Exchange(n) ==
    /\ n = current /\ current < MaxTokens
    /\ current' = current + 1
    /\ \E old \in {{}, {n}} : accepted' = (accepted \ old) \union {current + 1}

\* A request that got no answer is tried again; a refused one is final.
Submit(c) ==
    /\ fetch[c].at = "submitting"
    /\ \/ /\ Exchange(Mine(c).n)
          /\ held' = [held EXCEPT ![SourceOf[c]] = [n |-> current + 1, expired |-> FALSE]]
          /\ Goto(c, "saving")
          /\ UNCHANGED <<mutex, faults>>
       \/ /\ Mine(c).n # current
          /\ FetchFails(c)
          /\ UNCHANGED <<current, accepted, held, faults>>
       \/ /\ Fault
          /\ Exchange(Mine(c).n) \/ UNCHANGED <<current, accepted>>
          /\ IF fetch[c].tries + 1 < MaxTries
             THEN /\ fetch' = [fetch EXCEPT ![c].at = "checking", ![c].tries = @ + 1]
                  /\ UNCHANGED mutex
             ELSE FetchFails(c)
          /\ UNCHANGED held
    /\ UNCHANGED <<elapsed, ended, config, exchanged, ends, foreign>>

\* The token goes to the configuration; it stays in memory if that fails.
SaveToken(c) ==
    /\ fetch[c].at = "saving"
    /\ \/ /\ config' = Mine(c)
          /\ Got(c, Mine(c).n)
          /\ exchanged' = exchanged \union {n \in Numbers : n + 1 = Mine(c).n}
          /\ UNCHANGED faults
       \/ FetchFails(c) /\ Fault /\ UNCHANGED <<config, exchanged>>
    /\ UNCHANGED <<serverVars, held, ends, foreign>>

FetchToken(c) ==
    \/ Lock(c) \/ Expire(c) \/ SaveExpired(c)
    \/ UseCached(c) \/ ReadConfig(c) \/ Submit(c) \/ SaveToken(c)

-----------------------------------------------------------------------------
(* Environment *)

\* An access token expires, by the clock and perhaps at the server, or is
\* revoked before its time.
TokenEnds ==
    /\ ends < MaxEnds /\ ends' = ends + 1
    /\ \E n \in 1 .. current :
         /\ ended' = ended \union {n}
         /\ \/ elapsed' = elapsed \union {n} /\ accepted' \in {accepted, accepted \ {n}}
            \/ n \in accepted /\ accepted' = accepted \ {n} /\ UNCHANGED elapsed
    /\ UNCHANGED <<current, config, held, mutex, fetch, exchanged, faults, foreign>>

\* Another rclone process refreshes the token of the configuration.
ForeignRefresh ==
    /\ foreign < MaxForeign /\ foreign' = foreign + 1
    /\ Exchange(config.n)
    /\ config' = [n |-> current + 1, expired |-> FALSE]
    /\ ended' = ended \union {config.n}
    /\ UNCHANGED <<elapsed, held, mutex, fetch, exchanged, faults, ends>>
=============================================================================
