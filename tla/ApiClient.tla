------------------------------ MODULE ApiClient ------------------------------
(***************************************************************************)
(* Requests to the AnyShare API: apiClient.doWithClient, doJSON and         *)
(* retryTransient of api.go.  A request that is rejected for its token is   *)
(* sent once more with the next token; a read is repeated after a transient *)
(* error.                                                                  *)
(***************************************************************************)
EXTENDS TokenSource

CONSTANTS
    ReadAttempts,    \* transientReadAttempts
    MaxCalls         \* bound: calls in all

ASSUME CallAssumption == ReadAttempts \in Nat \ {0} /\ MaxCalls \in Nat

VARIABLES
    request,    \* request[c]: the call goroutine c makes
    calls       \* calls so far

vars == <<tokenVars, request, calls>>

\* again: the loop of doWithClient is in its second round.  attempt: that of
\* retryTransient.  effects: how often the service has carried the call out,
\* kept until the next call (history).
NoRequest == [at |-> "idle", write |-> FALSE, again |-> FALSE, attempt |-> 0, effects |-> 0]
Request == [at : {"idle", "sending", "delay"}, write : BOOLEAN, again : BOOLEAN,
            attempt : 0 .. ReadAttempts - 1, effects : Nat]

TypeOK ==
    /\ TokenTypeOK
    /\ request \in [Callers -> Request]
    /\ calls \in 0 .. MaxCalls

Init ==
    /\ TokenInit
    /\ request = [c \in Callers |-> NoRequest]
    /\ calls = 0

environment == <<serverVars, config, held, mutex, exchanged, ends, foreign>>

Begin(c) ==
    /\ request[c].at = "idle"
    /\ calls < MaxCalls /\ calls' = calls + 1
    /\ \E w \in BOOLEAN :
         request' = [request EXCEPT ![c] = [NoRequest EXCEPT !.at = "sending", !.write = w]]
    /\ StartFetch(c, FALSE)
    /\ UNCHANGED <<environment, faults>>

\* done: how often the last attempt took effect, 0 or 1.
Return(c, done) ==
    /\ request' = [request EXCEPT ![c].at = "idle", ![c].effects = @ + done]
    /\ fetch' = [fetch EXCEPT ![c] = NoFetch]

\* Seeded faults: requests that write are repeated as well, or one attempt more.
RepeatsAll(c)  == request[c].attempt + 1 < ReadAttempts
RepeatsMore(c) == ~ request[c].write /\ request[c].attempt < ReadAttempts

Repeats(c) == ~ request[c].write /\ request[c].attempt + 1 < ReadAttempts

\* A transient error: another attempt after a delay, if there is one left.
Transient(c, done) ==
    IF Repeats(c)
    THEN /\ request' = [request EXCEPT ![c].at = "delay", ![c].attempt = @ + 1,
                                         ![c].effects = @ + done]
         /\ UNCHANGED fetch
    ELSE Return(c, done)

\* Token fails, with an error that may wrap a time-out.
TokenFails(c) ==
    /\ request[c].at = "sending" /\ fetch[c].at = "failed"
    /\ Return(c, 0) \/ Transient(c, 0)
    /\ UNCHANGED <<environment, faults, calls>>

Accepted(c) == fetch[c].got \in accepted

\* The service carries the request out, refuses it or answers with a transient
\* error; or the connection fails, before or after it took effect.
Send(c) ==
    /\ request[c].at = "sending" /\ fetch[c].at = "done"
    /\ Accepted(c)
    /\ \/ Return(c, 1) /\ UNCHANGED faults
       \/ \E done \in {0, 1} : Fault /\ (Transient(c, done) \/ Return(c, done))
    /\ UNCHANGED <<environment, calls>>

\* The token is rejected: once more with the next one, or the call fails.
Rejected(c) ==
    /\ request[c].at = "sending" /\ fetch[c].at = "done"
    /\ ~ Accepted(c)
    /\ IF request[c].again
       THEN Return(c, 0)
       ELSE StartFetch(c, TRUE) /\ request' = [request EXCEPT ![c].again = TRUE]
    /\ UNCHANGED <<environment, faults, calls>>

\* The delay is over.
Repeat(c) ==
    /\ request[c].at = "delay"
    /\ request' = [request EXCEPT ![c].at = "sending", ![c].again = FALSE]
    /\ StartFetch(c, FALSE)
    /\ UNCHANGED <<environment, faults, calls>>

\* The context of the call ends during the delay.
Cancel(c) ==
    /\ request[c].at = "delay"
    /\ Return(c, 0)
    /\ UNCHANGED <<environment, faults, calls>>

Do(c) ==
    \/ FetchToken(c) /\ UNCHANGED <<request, calls>>
    \/ TokenFails(c) \/ Send(c) \/ Rejected(c) \/ Repeat(c) \/ Cancel(c)

Terminated ==
    /\ \A c \in Callers : request[c].at = "idle"
    /\ UNCHANGED vars

Next ==
    \/ \E c \in Callers : Begin(c) \/ Do(c)
    \/ (TokenEnds \/ ForeignRefresh) /\ UNCHANGED <<request, calls>>
    \/ Terminated

Spec == Init /\ [][Next]_vars

\* A goroutine runs on, and the mutex is handed to one that waits for it.
Fairness == \A c \in Callers : WF_vars(Do(c))

-----------------------------------------------------------------------------
(* Properties *)

\* What oauthTokenMu is for: no source of this process submits a refresh token
\* that another one has exchanged, once the new token is saved.
SubmittedOnce ==
    [][\A c \in Callers : Submit(c) => Mine(c).n \notin exchanged]_vars

\* As long as no other process refreshes, the configuration never goes back to
\* an older token: its refresh token would be one that is used up.
ConfigMovesOn == [][foreign' = 0 => config'.n >= config.n]_vars

\* With one goroutine to a source: a token is refreshed only when it expired,
\* was revoked or was replaced by another process, never because another
\* source's call was rejected while this one waited for the mutex.  So no call
\* of this process is rejected for a token that was in order.
RefreshesOnlySpent ==
    [][\A c \in Callers : Submit(c) => Mine(c).n \in ended]_vars

\* A call that writes takes effect at most once, however its token and its
\* connection fail.
AppliedOnce == \A c \in Callers : request[c].write => request[c].effects <= 1

\* Every call returns, also when a token cannot be had.
EveryCallReturns ==
    \A c \in Callers : request[c].at # "idle" ~> request[c].at = "idle"
=============================================================================
