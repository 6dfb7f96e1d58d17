--------------------------- MODULE ApiClientProofs ---------------------------
(***************************************************************************)
(* Theorems about ApiClient: its types, which refresh tokens are submitted, *)
(* what the configuration holds, and how often a call that writes takes     *)
(* effect.                                                                 *)
(***************************************************************************)
EXTENDS ApiClient, TLAPS

LEMMA NumbersNonEmpty == 1 \in Numbers
BY LimitAssumption DEF Numbers

\* The changes of a Token call keep its type.
LEMMA FetchTypes ==
  ASSUME TypeOK, NEW c \in Callers
  PROVE  /\ NoFetch \in Fetch
         /\ \A r \in BOOLEAN : StartFetch(c, r) => fetch' \in [Callers -> Fetch]
         /\ \A step \in Inside \union {"waiting", "failed"} :
               Goto(c, step) => fetch' \in [Callers -> Fetch]
         /\ \A n \in Numbers :
               Got(c, n) => fetch' \in [Callers -> Fetch] /\ mutex' = None
         /\ FetchFails(c) => fetch' \in [Callers -> Fetch] /\ mutex' = None
<1>1. fetch \in [Callers -> Fetch] /\ fetch[c] \in Fetch
  BY DEF TypeOK, TokenTypeOK
<1>2. NoFetch \in Fetch
  BY NumbersNonEmpty, LimitAssumption DEF NoFetch, Fetch
<1>3. ASSUME NEW r \in BOOLEAN, StartFetch(c, r) PROVE fetch' \in [Callers -> Fetch]
  <2>1. [fetch[c] EXCEPT !.at = "waiting", !.refresh = r, !.tries = 0] \in Fetch
    <3>1. 0 \in 0 .. MaxTries
      BY LimitAssumption
    <3> QED
      BY <1>1, <3>1 DEF Fetch
  <2>2. fetch' = [fetch EXCEPT ![c] = [fetch[c] EXCEPT !.at = "waiting", !.refresh = r,
                                                      !.tries = 0]]
    BY <1>1, <1>3 DEF StartFetch
  <2> QED
    BY <1>1, <2>1, <2>2
<1>4. ASSUME NEW step \in Inside \union {"waiting", "failed"}, Goto(c, step)
      PROVE  fetch' \in [Callers -> Fetch]
  BY <1>1, <1>4 DEF Goto, Fetch
<1>5. ASSUME NEW n \in Numbers, Got(c, n) PROVE fetch' \in [Callers -> Fetch]
  <2>1. [fetch[c] EXCEPT !.at = "done", !.got = n] \in Fetch
    BY <1>1 DEF Fetch
  <2>2. fetch' = [fetch EXCEPT ![c] = [fetch[c] EXCEPT !.at = "done", !.got = n]]
    BY <1>1, <1>5 DEF Got
  <2> QED
    BY <1>1, <2>1, <2>2
<1> QED
  BY <1>2, <1>3, <1>4, <1>5 DEF FetchFails, Got, Released

\* A call that returns or goes on keeps its type.
LEMMA RequestTypes ==
  ASSUME TypeOK, NEW c \in Callers, NEW done \in {0, 1}
  PROVE  /\ Return(c, done) => /\ request' \in [Callers -> Request]
                               /\ fetch' \in [Callers -> Fetch]
         /\ Transient(c, done) => /\ request' \in [Callers -> Request]
                                  /\ fetch' \in [Callers -> Fetch]
<1>1. request \in [Callers -> Request] /\ request[c] \in Request
  BY DEF TypeOK
<1>2. fetch \in [Callers -> Fetch] /\ NoFetch \in Fetch
  BY FetchTypes DEF TypeOK, TokenTypeOK
<1>3. Return(c, done) => request' \in [Callers -> Request]
  <2>1. [request[c] EXCEPT !.at = "idle", !.effects = @ + done] \in Request
    <3>1. request[c].effects + done \in Nat
      BY <1>1 DEF Request
    <3> QED
      BY <1>1, <3>1 DEF Request
  <2>2. Return(c, done) =>
          request' = [request EXCEPT ![c] = [request[c] EXCEPT !.at = "idle", !.effects = @ + done]]
    BY <1>1 DEF Return
  <2> QED
    BY <1>1, <2>1, <2>2
<1>4. ASSUME Repeats(c), Transient(c, done) PROVE request' \in [Callers -> Request]
  <2>1. [request[c] EXCEPT !.at = "delay", !.attempt = @ + 1, !.effects = @ + done] \in Request
    <3>1. request[c].effects + done \in Nat
      BY <1>1 DEF Request
    <3>2. request[c].attempt + 1 \in 0 .. ReadAttempts - 1
      BY <1>1, <1>4, CallAssumption DEF Request, Repeats
    <3> QED
      BY <1>1, <3>1, <3>2 DEF Request
  <2>2. request' = [request EXCEPT ![c] = [request[c] EXCEPT !.at = "delay", !.attempt = @ + 1,
                                                            !.effects = @ + done]]
    BY <1>1, <1>4 DEF Transient
  <2> QED
    BY <1>1, <2>1, <2>2
<1> QED
  BY <1>2, <1>3, <1>4 DEF Return, Transient

\* Every variable keeps its type.
THEOREM TypeCorrect == Spec => []TypeOK
<1>1. Init => TypeOK
  BY SourceAssumption, CallerAssumption, LimitAssumption, CallAssumption
     DEF Init, TokenInit, TypeOK, TokenTypeOK, Numbers, Token, Fetch, NoFetch, Inside,
         Request, NoRequest
<1>2. TypeOK /\ [Next]_vars => TypeOK'
  <2> SUFFICES ASSUME TypeOK, [Next]_vars PROVE TypeOK'
    OBVIOUS
  <2> USE SourceAssumption, CallerAssumption, LimitAssumption, CallAssumption
          DEF TypeOK, TokenTypeOK
  <2>1. ASSUME NEW c \in Callers, Begin(c) PROVE TypeOK'
    <3>1. fetch' \in [Callers -> Fetch]
      BY <2>1, FetchTypes DEF Begin
    <3>2. request' \in [Callers -> Request]
      <4>1. 0 \in 0 .. ReadAttempts - 1
        BY CallAssumption
      <4>2. PICK w \in BOOLEAN :
              request' = [request EXCEPT ![c] = [NoRequest EXCEPT !.at = "sending", !.write = w]]
        BY <2>1 DEF Begin
      <4>3. [NoRequest EXCEPT !.at = "sending", !.write = w] \in Request
        BY <4>1 DEF NoRequest, Request
      <4> QED
        BY <4>2, <4>3
    <3>3. calls' \in 0 .. MaxCalls
      BY <2>1 DEF Begin
    <3> QED
      BY <2>1, <3>1, <3>2, <3>3 DEF Begin, environment, serverVars
  <2>2. ASSUME NEW c \in Callers, Lock(c), UNCHANGED <<request, calls>> PROVE TypeOK'
    BY <2>2 DEF Lock, Goto, FirstStep, serverVars, Fetch, Inside
  <2>3. ASSUME NEW c \in Callers, Expire(c), UNCHANGED <<request, calls>> PROVE TypeOK'
    <3>1. held' \in [Sources -> Token]
      BY <2>3 DEF Expire, Token
    <3>2. fetch' \in [Callers -> Fetch] /\ mutex' \in Callers \union {None}
      BY <2>3, FetchTypes DEF Expire, Inside
    <3>3. faults' \in 0 .. MaxFaults
      BY <2>3 DEF Expire, Fault
    <3> QED
      BY <2>3, <3>1, <3>2, <3>3 DEF Expire, serverVars
  <2>4. ASSUME NEW c \in Callers, SaveExpired(c), UNCHANGED <<request, calls>> PROVE TypeOK'
    <3>1. config' \in Token
      BY <2>4 DEF SaveExpired, Mine
    <3>2. fetch' \in [Callers -> Fetch] /\ mutex' \in Callers \union {None}
      BY <2>4, FetchTypes DEF SaveExpired, Inside
    <3>3. faults' \in 0 .. MaxFaults
      BY <2>4 DEF SaveExpired, Fault
    <3> QED
      BY <2>4, <3>1, <3>2, <3>3 DEF SaveExpired, serverVars
  <2>5. ASSUME NEW c \in Callers, UseCached(c), UNCHANGED <<request, calls>> PROVE TypeOK'
    <3>1. Mine(c).n \in Numbers
      BY DEF Mine, Token
    <3>2. fetch' \in [Callers -> Fetch] /\ mutex' = None
      BY <2>5, <3>1, FetchTypes DEF UseCached
    <3> QED
      BY <2>5, <3>2 DEF UseCached, serverVars
  <2>6. ASSUME NEW c \in Callers, ReadConfig(c), UNCHANGED <<request, calls>> PROVE TypeOK'
    BY <2>6 DEF ReadConfig, Reread, Mine, Goto, serverVars, Fetch, Inside
  <2>7. ASSUME NEW c \in Callers, Submit(c), UNCHANGED <<request, calls>> PROVE TypeOK'
    <3>1. current' \in Numbers /\ accepted' \subseteq Numbers
      <4>1. current \in Nat /\ current >= 1 /\ current <= MaxTokens
        BY DEF Numbers
      <4>2. ASSUME Exchange(Mine(c).n) PROVE current' \in Numbers /\ accepted' \subseteq Numbers
        <5>1. current + 1 \in Numbers
          BY <4>1, <4>2 DEF Exchange, Numbers
        <5> QED
          BY <4>2, <5>1 DEF Exchange
      <4> QED
        BY <2>7, <4>2 DEF Submit
    <3>2. held' \in [Sources -> Token]
      <4>1. CASE held' = [held EXCEPT ![SourceOf[c]] = [n |-> current', expired |-> FALSE]]
        <5>1. [n |-> current', expired |-> FALSE] \in Token
          BY <3>1 DEF Token
        <5> QED
          BY <4>1, <5>1
      <4>2. CASE UNCHANGED held
        BY <4>2
      <4> QED
        BY <2>7, <4>1, <4>2 DEF Submit, Exchange
    <3>3. fetch' \in [Callers -> Fetch] /\ mutex' \in Callers \union {None}
      <4>1. CASE fetch' = [fetch EXCEPT ![c].at = "checking", ![c].tries = @ + 1]
                 /\ fetch[c].tries + 1 < MaxTries /\ UNCHANGED mutex
        <5>1. [fetch[c] EXCEPT !.at = "checking", !.tries = @ + 1] \in Fetch
          <6>1. fetch[c] \in Fetch /\ fetch[c].tries + 1 \in 0 .. MaxTries
            BY <4>1 DEF Fetch
          <6> QED
            BY <6>1 DEF Fetch, Inside
        <5>2. fetch' = [fetch EXCEPT ![c] = [fetch[c] EXCEPT !.at = "checking", !.tries = @ + 1]]
          BY <4>1
        <5> QED
          BY <4>1, <5>1, <5>2
      <4>2. CASE Goto(c, "saving") /\ UNCHANGED mutex
        BY <4>2, FetchTypes DEF Inside
      <4>3. CASE FetchFails(c)
        BY <4>3, FetchTypes
      <4> QED
        BY <2>7, <4>1, <4>2, <4>3 DEF Submit
    <3>4. faults' \in 0 .. MaxFaults
      BY <2>7 DEF Submit, Fault
    <3> QED
      BY <2>7, <3>1, <3>2, <3>3, <3>4 DEF Submit
  <2>8. ASSUME NEW c \in Callers, SaveToken(c), UNCHANGED <<request, calls>> PROVE TypeOK'
    <3> Mine(c) \in Token /\ Mine(c).n \in Numbers
      BY DEF Mine, Token
    <3>1. config' \in Token /\ exchanged' \subseteq Numbers
      BY <2>8 DEF SaveToken
    <3>2. fetch' \in [Callers -> Fetch] /\ mutex' \in Callers \union {None}
      BY <2>8, FetchTypes DEF SaveToken
    <3>3. faults' \in 0 .. MaxFaults
      BY <2>8 DEF SaveToken, Fault
    <3> QED
      BY <2>8, <3>1, <3>2, <3>3 DEF SaveToken, serverVars
  <2>9. ASSUME NEW c \in Callers, TokenFails(c) PROVE TypeOK'
    BY <2>9, RequestTypes DEF TokenFails, environment, serverVars
  <2>10. ASSUME NEW c \in Callers, Send(c) PROVE TypeOK'
    <3>1. request' \in [Callers -> Request] /\ fetch' \in [Callers -> Fetch]
      BY <2>10, RequestTypes DEF Send
    <3>2. faults' \in 0 .. MaxFaults
      BY <2>10 DEF Send, Fault
    <3> QED
      BY <2>10, <3>1, <3>2 DEF Send, environment, serverVars
  <2>11. ASSUME NEW c \in Callers, Rejected(c) PROVE TypeOK'
    <3>1. CASE request[c].again
      BY <2>11, <3>1, RequestTypes DEF Rejected, environment, serverVars
    <3>2. CASE ~ request[c].again
      <4>1. fetch' \in [Callers -> Fetch]
        BY <2>11, <3>2, FetchTypes DEF Rejected
      <4>2. request' \in [Callers -> Request]
        <5>1. [request[c] EXCEPT !.again = TRUE] \in Request
          BY DEF Request
        <5> QED
          BY <2>11, <3>2, <5>1 DEF Rejected
      <4> QED
        BY <2>11, <4>1, <4>2 DEF Rejected, environment, serverVars
    <3> QED
      BY <3>1, <3>2
  <2>12. ASSUME NEW c \in Callers, Repeat(c) PROVE TypeOK'
    <3>1. fetch' \in [Callers -> Fetch]
      BY <2>12, FetchTypes DEF Repeat
    <3>2. request' \in [Callers -> Request]
      <4>1. [request[c] EXCEPT !.at = "sending", !.again = FALSE] \in Request
        BY ZenonT(30) DEF Request
      <4> QED
        BY <2>12, <4>1 DEF Repeat
    <3> QED
      BY <2>12, <3>1, <3>2 DEF Repeat, environment, serverVars
  <2>16. ASSUME NEW c \in Callers, Cancel(c) PROVE TypeOK'
    BY <2>16, RequestTypes DEF Cancel, environment, serverVars
  <2>13. ASSUME TokenEnds, UNCHANGED <<request, calls>> PROVE TypeOK'
    <3>1. PICK n \in 1 .. current : /\ ended' = ended \union {n}
                                   /\ \/ /\ elapsed' = elapsed \union {n}
                                         /\ accepted' \in {accepted, accepted \ {n}}
                                      \/ accepted' = accepted \ {n} /\ UNCHANGED elapsed
      BY <2>13 DEF TokenEnds
    <3>2. n \in Numbers
      BY DEF Numbers
    <3>3. ended' \subseteq Numbers /\ elapsed' \subseteq Numbers /\ accepted' \subseteq Numbers
      BY <3>1, <3>2
    <3>4. ends' \in 0 .. MaxEnds
      BY <2>13 DEF TokenEnds
    <3> QED
      BY <2>13, <3>3, <3>4 DEF TokenEnds
  <2>14. ASSUME ForeignRefresh, UNCHANGED <<request, calls>> PROVE TypeOK'
    <3>1. current + 1 \in Numbers /\ config.n \in Numbers
      BY <2>14 DEF ForeignRefresh, Exchange, Numbers, Token
    <3>2. accepted' \subseteq Numbers /\ ended' \subseteq Numbers /\ current' \in Numbers
      BY <2>14, <3>1 DEF ForeignRefresh, Exchange
    <3>3. config' \in Token
      BY <2>14, <3>1 DEF ForeignRefresh, Token
    <3>4. foreign' \in 0 .. MaxForeign
      BY <2>14 DEF ForeignRefresh
    <3> QED
      BY <2>14, <3>2, <3>3, <3>4 DEF ForeignRefresh
  <2>15. CASE UNCHANGED vars
    BY <2>15 DEF vars, tokenVars, serverVars
  <2> QED
    BY <2>1, <2>2, <2>3, <2>4, <2>5, <2>6, <2>7, <2>8, <2>9, <2>10, <2>11, <2>12, <2>13, <2>14,
       <2>15, <2>16 DEF Next, Do, FetchToken, Terminated
<1> QED
  BY <1>1, <1>2, PTL DEF Spec

-----------------------------------------------------------------------------
(* Which refresh tokens are submitted *)

\* A goroutine inside Token has the mutex.
Exclusive == \A c \in Callers : fetch[c].at \in Inside => mutex = c

\* Where Token has compared the token in memory with the configuration's.
Compared == {"unsaving", "submitting", "saving"}

\* No token that was exchanged, and its successor saved, is in the
\* configuration; nor in the memory of a source that has compared the two.
ExchangedGone ==
    /\ \A n \in exchanged : n < config.n
    /\ \A c \in Callers : fetch[c].at \in Compared => \A n \in exchanged : n < Mine(c).n

\* As long as no other process refreshes, such a source is not behind the
\* configuration.
NotBehind ==
    foreign = 0 => \A c \in Callers : fetch[c].at \in Compared => config.n <= Mine(c).n

Issued == config.n <= current /\ \A s \in Sources : held[s].n <= current

Lineage == Exclusive /\ Issued /\ ExchangedGone /\ NotBehind

Outside(c) == Begin(c) \/ TokenFails(c) \/ Send(c) \/ Rejected(c) \/ Repeat(c) \/ Cancel(c)

\* Outside Token nothing happens to the tokens.
LEMMA OutsideFrame ==
  ASSUME TypeOK, NEW c \in Callers, Outside(c)
  PROVE  /\ UNCHANGED environment
         /\ \A d \in Callers \ {c} : fetch'[d] = fetch[d]
         /\ fetch'[c] = fetch[c] \/ fetch'[c].at \notin Inside
<1> fetch \in [Callers -> Fetch]
  BY DEF TypeOK, TokenTypeOK
<1>1. ASSUME NEW r \in BOOLEAN, StartFetch(c, r)
      PROVE  /\ \A d \in Callers \ {c} : fetch'[d] = fetch[d]
             /\ fetch'[c].at = "waiting"
  BY <1>1 DEF StartFetch, Fetch
<1>2. ASSUME fetch' = [fetch EXCEPT ![c] = NoFetch]
      PROVE  /\ \A d \in Callers \ {c} : fetch'[d] = fetch[d]
             /\ fetch'[c].at = "idle"
  BY <1>2 DEF NoFetch
<1>3. CASE UNCHANGED fetch
  BY <1>3 DEF Outside, Begin, TokenFails, Send, Rejected, Repeat, Cancel
<1>4. UNCHANGED environment
  BY DEF Outside, Begin, TokenFails, Send, Rejected, Repeat, Cancel
<1>5. \/ \E r \in BOOLEAN : StartFetch(c, r)
      \/ fetch' = [fetch EXCEPT ![c] = NoFetch]
      \/ UNCHANGED fetch
  <2>1. CASE TokenFails(c) \/ Send(c)
    BY <2>1 DEF TokenFails, Send, Transient, Return
  <2> QED
    BY <2>1 DEF Outside, Begin, Rejected, Repeat, Cancel, Return
<1> QED
  BY <1>1, <1>2, <1>3, <1>4, <1>5 DEF Inside

\* One goroutine at a time is inside Token.
LEMMA FetchFrame ==
  ASSUME TypeOK, Exclusive, NEW c \in Callers, FetchToken(c)
  PROVE  /\ \A d \in Callers \ {c} : fetch'[d] = fetch[d] /\ fetch[d].at \notin Inside
         /\ fetch'[c].at \in Inside => mutex' = c
<1> fetch \in [Callers -> Fetch]
  BY DEF TypeOK, TokenTypeOK
<1>1. mutex = c \/ mutex = None
  BY DEF FetchToken, Lock, Unlocked, Expire, SaveExpired, UseCached, ReadConfig, Submit, SaveToken,
         Exclusive, Inside
<1>2. \A d \in Callers \ {c} : fetch[d].at \notin Inside
  BY <1>1, CallerAssumption DEF Exclusive
<1>3. ASSUME NEW step, Goto(c, step)
      PROVE  (\A d \in Callers \ {c} : fetch'[d] = fetch[d]) /\ fetch'[c].at = step
  BY <1>3 DEF Goto, Fetch
<1>4. \A n \in Numbers : Got(c, n) => /\ \A d \in Callers \ {c} : fetch'[d] = fetch[d]
                                     /\ fetch'[c].at = "done"
  BY DEF Got, Fetch
<1>5. FetchFails(c) => /\ \A d \in Callers \ {c} : fetch'[d] = fetch[d]
                       /\ fetch'[c].at = "failed"
  BY <1>3 DEF FetchFails
<1>6. Mine(c).n \in Numbers
  BY SourceAssumption DEF TypeOK, TokenTypeOK, Mine, Token
<1>7. \/ \E step \in Inside : Goto(c, step)
      \/ FetchFails(c)
      \/ Got(c, Mine(c).n)
      \/ fetch' = [fetch EXCEPT ![c].at = "checking", ![c].tries = @ + 1]
  <2>1. CASE Lock(c) \/ Expire(c) \/ SaveExpired(c)
    BY <2>1 DEF Lock, FirstStep, Expire, SaveExpired, Inside
  <2>2. CASE UseCached(c) \/ ReadConfig(c)
    BY <2>2 DEF UseCached, ReadConfig, Inside
  <2>3. CASE Submit(c)
    BY <2>3 DEF Submit, Inside
  <2>4. CASE SaveToken(c)
    BY <2>4 DEF SaveToken
  <2> QED
    BY <2>1, <2>2, <2>3, <2>4 DEF FetchToken
<1>8. \A d \in Callers \ {c} : fetch'[d] = fetch[d]
  <2>1. CASE fetch' = [fetch EXCEPT ![c].at = "checking", ![c].tries = @ + 1]
    BY <2>1
  <2> QED
    BY <1>3, <1>4, <1>5, <1>6, <1>7, <2>1
<1>9. ASSUME fetch'[c].at \in Inside PROVE mutex' = c
  <2>1. ~ FetchFails(c) /\ ~ Got(c, Mine(c).n)
    BY <1>4, <1>5, <1>6, <1>9 DEF Inside
  <2>2. CASE Lock(c)
    BY <2>2 DEF Lock
  <2>3. mutex = c \/ Lock(c)
    BY DEF FetchToken, Expire, SaveExpired, UseCached, ReadConfig, Submit, SaveToken, Exclusive,
           Inside
  <2>4. UNCHANGED mutex \/ Lock(c)
    BY <2>1 DEF FetchToken, Expire, SaveExpired, UseCached, ReadConfig, Submit, SaveToken
  <2> QED
    BY <2>2, <2>3, <2>4
<1> QED
  BY <1>2, <1>8, <1>9

LEMMA OutsideLineage ==
  ASSUME TypeOK, Lineage, NEW c \in Callers, Outside(c)
  PROVE  Lineage'
<1>1. /\ UNCHANGED <<current, config, held, mutex, exchanged, foreign>>
      /\ \A d \in Callers : fetch'[d].at \in Inside => fetch'[d] = fetch[d]
  BY OutsideFrame DEF environment, serverVars
<1>2. \A d \in Callers : fetch'[d].at \in Compared => fetch[d].at \in Compared
  BY <1>1 DEF Compared, Inside
<1>3. Exclusive' /\ Issued'
  BY <1>1 DEF Lineage, Exclusive, Issued
<1>4. ExchangedGone' /\ NotBehind'
  BY <1>1, <1>2 DEF Lineage, ExchangedGone, NotBehind, Mine
<1> QED
  BY <1>3, <1>4 DEF Lineage

LEMMA FetchLineage ==
  ASSUME TypeOK, Lineage, NEW c \in Callers, FetchToken(c)
  PROVE  Lineage'
<1> Mine(c) \in Token /\ Mine(c).n \in Nat /\ config \in Token /\ config.n \in Nat
    /\ current \in Nat /\ SourceOf[c] \in Sources
  BY SourceAssumption DEF TypeOK, TokenTypeOK, Mine, Token, Numbers
<1> fetch \in [Callers -> Fetch] /\ held \in [Sources -> Token] /\ exchanged \subseteq Numbers
  BY DEF TypeOK, TokenTypeOK
<1> \A s \in Sources : held[s].n \in Nat
  BY DEF Token, Numbers
<1>1. /\ \A d \in Callers \ {c} : fetch'[d] = fetch[d] /\ fetch[d].at \notin Inside
      /\ fetch'[c].at \in Inside => mutex' = c
  BY FetchFrame DEF Lineage
<1>2. Exclusive'
  BY <1>1 DEF Exclusive
<1>3. \A d \in Callers : fetch'[d].at \in Compared => d = c
  BY <1>1 DEF Compared, Inside
<1>4. UNCHANGED foreign
  BY DEF FetchToken, Lock, Expire, SaveExpired, UseCached, ReadConfig, Submit, SaveToken
<1>5. SUFFICES /\ Issued'
               /\ \A n \in exchanged' : n < config'.n
               /\ fetch'[c].at \in Compared =>
                    /\ \A n \in exchanged' : n < Mine(c)'.n
                    /\ foreign = 0 => config'.n <= Mine(c)'.n
  BY <1>2, <1>3, <1>4 DEF Lineage, ExchangedGone, NotBehind
<1>6. /\ config.n <= current /\ \A s \in Sources : held[s].n <= current
      /\ \A n \in exchanged : n < config.n
      /\ fetch[c].at \in Compared =>
           /\ \A n \in exchanged : n < Mine(c).n
           /\ foreign = 0 => config.n <= Mine(c).n
  BY DEF Lineage, Issued, ExchangedGone, NotBehind
<1>7. CASE Lock(c) \/ UseCached(c)
  <2>1. UNCHANGED <<current, config, held, exchanged>>
    BY <1>7 DEF Lock, UseCached, serverVars
  <2>2. fetch'[c].at \notin Compared
    BY <1>7 DEF Lock, Goto, FirstStep, UseCached, Got, Compared, Fetch
  <2> QED
    BY <1>6, <2>1, <2>2 DEF Issued
<1>8. CASE Expire(c)
  <2>1. UNCHANGED <<current, config, exchanged>>
    BY <1>8 DEF Expire, serverVars
  <2>2. held' = [held EXCEPT ![SourceOf[c]].expired = TRUE]
    BY <1>8 DEF Expire
  <2>3. (\A s \in Sources : held'[s].n = held[s].n) /\ Mine(c)'.n = Mine(c).n
    BY <2>2 DEF Mine, Token
  <2>4. fetch'[c].at \in Compared => Same(c)
    BY <1>8 DEF Expire, Goto, FetchFails, Compared, Fetch
  <2> QED
    BY <1>6, <2>1, <2>3, <2>4 DEF Issued, Same
<1>9. CASE SaveExpired(c)
  <2>1. UNCHANGED <<current, held, exchanged>>
    BY <1>9 DEF SaveExpired, serverVars
  <2>2. fetch[c].at \in Compared /\ fetch'[c].at \notin Compared
    BY <1>9 DEF SaveExpired, Goto, FetchFails, Compared, Fetch
  <2>3. config' = Mine(c) \/ config' = config
    BY <1>9 DEF SaveExpired
  <2> QED
    BY <1>6, <2>1, <2>2, <2>3 DEF Issued, Mine
<1>10. CASE ReadConfig(c)
  <2>1. UNCHANGED <<current, config, exchanged>>
    BY <1>10 DEF ReadConfig, serverVars
  <2>2. held' = [held EXCEPT ![SourceOf[c]] = Reread(c)]
    BY <1>10 DEF ReadConfig
  <2>3. Reread(c).n = config.n
    BY DEF Reread, Same
  <2>4. Mine(c)'.n = config.n /\ \A s \in Sources : held'[s].n <= current
    BY <1>6, <2>2, <2>3 DEF Mine
  <2> QED
    BY <1>6, <2>1, <2>4 DEF Issued
<1>11. CASE Submit(c)
  <2>1. UNCHANGED <<config, exchanged>> /\ fetch[c].at \in Compared
    BY <1>11 DEF Submit, Compared
  <2>2. current' = current \/ current' = current + 1
    BY <1>11 DEF Submit, Exchange
  <2>3. CASE UNCHANGED held
    BY <1>6, <2>1, <2>2, <2>3 DEF Issued, Mine
  <2>4. CASE held' = [held EXCEPT ![SourceOf[c]] = [n |-> current + 1, expired |-> FALSE]]
             /\ current' = current + 1
    <3>1. Mine(c)'.n = current + 1 /\ \A s \in Sources : held'[s].n <= current + 1
      BY <1>6, <2>4 DEF Mine
    <3> QED
      BY <1>6, <2>1, <2>4, <3>1 DEF Issued, Numbers
  <2> QED
    BY <1>11, <2>3, <2>4 DEF Submit, Exchange
<1>12. CASE SaveToken(c)
  <2>1. UNCHANGED <<current, held>> /\ fetch[c].at \in Compared
    BY <1>12 DEF SaveToken, serverVars, Compared
  <2>2. fetch'[c].at \notin Compared
    BY <1>12 DEF SaveToken, Got, Goto, FetchFails, Compared, Fetch
  <2>3. CASE config' = Mine(c) /\ exchanged' = exchanged \union {n \in Numbers : n + 1 = Mine(c).n}
    <3>1. \A n \in exchanged' : n < config'.n
      BY <1>6, <2>1, <2>3 DEF Numbers
    <3> QED
      BY <1>6, <2>1, <2>2, <2>3, <3>1 DEF Issued, Mine
  <2>4. CASE UNCHANGED <<config, exchanged>>
    BY <1>6, <2>1, <2>2, <2>4 DEF Issued
  <2> QED
    BY <1>12, <2>3, <2>4 DEF SaveToken
<1> QED
  BY <1>7, <1>8, <1>9, <1>10, <1>11, <1>12 DEF FetchToken

LEMMA EnvironmentLineage ==
  ASSUME TypeOK, Lineage, TokenEnds \/ ForeignRefresh
  PROVE  Lineage'
<1> config \in Token /\ config.n \in Nat /\ current \in Nat /\ exchanged \subseteq Nat
  BY DEF TypeOK, TokenTypeOK, Token, Numbers
<1> \A s \in Sources : held[s].n \in Nat
  BY DEF TypeOK, TokenTypeOK, Token, Numbers
<1>1. CASE TokenEnds
  BY <1>1 DEF TokenEnds, Lineage, Exclusive, Issued, ExchangedGone, NotBehind, Mine
<1>2. CASE ForeignRefresh
  <2>1. /\ UNCHANGED <<held, mutex, fetch, exchanged>>
        /\ config.n = current /\ config'.n = current + 1 /\ current' = current + 1
    BY <1>2 DEF ForeignRefresh, Exchange
  <2>2. foreign' # 0
    BY <1>2 DEF ForeignRefresh, TypeOK, TokenTypeOK
  <2>3. Exclusive' /\ Issued'
    BY <2>1 DEF Lineage, Exclusive, Issued
  <2>4. ExchangedGone' /\ NotBehind'
    BY <2>1, <2>2 DEF Lineage, ExchangedGone, NotBehind, Mine
  <2> QED
    BY <2>3, <2>4 DEF Lineage
<1> QED
  BY <1>1, <1>2

LEMMA LineageHolds == Spec => [](TypeOK /\ Lineage)
<1>1. Init => Lineage
  BY LimitAssumption DEF Init, TokenInit, NoFetch, Lineage, Exclusive, Issued, ExchangedGone,
     NotBehind, Inside, Compared
<1>2. TypeOK /\ Lineage /\ [Next]_vars => Lineage'
  <2> SUFFICES ASSUME TypeOK, Lineage, [Next]_vars PROVE Lineage'
    OBVIOUS
  <2>1. CASE UNCHANGED vars
    BY <2>1 DEF vars, tokenVars, serverVars, Lineage, Exclusive, Issued, ExchangedGone, NotBehind,
       Mine
  <2> QED
    BY <2>1, OutsideLineage, FetchLineage, EnvironmentLineage DEF Next, Do, Outside, Terminated
<1> QED
  BY <1>1, <1>2, TypeCorrect, PTL DEF Spec

\* oauthTokenMu does its work: no source submits a refresh token that another
\* one of this process has exchanged, once the new token is saved.
THEOREM SubmitsTokensOnce == Spec => SubmittedOnce
<1>1. ASSUME TypeOK, Lineage, NEW c \in Callers, Submit(c) PROVE Mine(c).n \notin exchanged
  <2>1. \A n \in exchanged : n < Mine(c).n
    BY <1>1 DEF Lineage, ExchangedGone, Submit, Compared
  <2>2. Mine(c).n \in Nat
    BY <1>1, SourceAssumption DEF TypeOK, TokenTypeOK, Mine, Token, Numbers
  <2> QED
    BY <2>1, <2>2
<1>2. TypeOK /\ Lineage => \A c \in Callers : Submit(c) => Mine(c).n \notin exchanged
  BY <1>1
<1> QED
  BY <1>2, LineageHolds, PTL DEF SubmittedOnce

\* While no other process refreshes, the saved token is never replaced by an
\* older one.
THEOREM SavedTokenMovesOn == Spec => ConfigMovesOn
<1>1. ASSUME TypeOK, Lineage, [Next]_vars, foreign' = 0 PROVE config'.n >= config.n
  <2> config.n \in Nat
    BY <1>1 DEF TypeOK, TokenTypeOK, Token, Numbers
  <2>1. CASE UNCHANGED config
    BY <2>1
  <2>2. CASE \E c \in Callers : SaveExpired(c) \/ SaveToken(c)
    <3>1. PICK c \in Callers : SaveExpired(c) \/ SaveToken(c)
      BY <2>2
    <3>2. foreign = 0 /\ fetch[c].at \in Compared /\ config' \in {config, Mine(c)}
      BY <1>1, <3>1 DEF SaveExpired, SaveToken, Compared
    <3>3. config.n <= Mine(c).n /\ Mine(c).n \in Nat
      BY <1>1, <3>2, SourceAssumption DEF Lineage, NotBehind, TypeOK, TokenTypeOK, Mine, Token,
         Numbers
    <3> QED
      BY <3>2, <3>3
  <2>3. ~ ForeignRefresh
    BY <1>1 DEF ForeignRefresh, TypeOK, TokenTypeOK
  <2>4. ASSUME NEW c \in Callers, Outside(c) PROVE UNCHANGED config
    BY <1>1, <2>4, OutsideFrame DEF environment
  <2>5. ASSUME NEW c \in Callers, FetchToken(c)
        PROVE  SaveExpired(c) \/ SaveToken(c) \/ UNCHANGED config
    BY <2>5 DEF FetchToken, Lock, Expire, UseCached, ReadConfig, Submit
  <2>6. TokenEnds => UNCHANGED config
    BY DEF TokenEnds
  <2>7. UNCHANGED vars => UNCHANGED config
    BY DEF vars, tokenVars
  <2> QED
    BY <1>1, <2>1, <2>2, <2>3, <2>4, <2>5, <2>6, <2>7 DEF Next, Do, Outside, Terminated
<1> QED
  BY <1>1, LineageHolds, PTL DEF ConfigMovesOn, Spec

-----------------------------------------------------------------------------
(* Which tokens are refreshed, with one goroutine to a source *)

OneSourceEach == \A c, d \in Callers : SourceOf[c] = SourceOf[d] => c = d

Expiring(c) == \/ fetch[c].at = "waiting" /\ fetch[c].refresh
               \/ fetch[c].at \in {"expiring", "submitting"}

\* What no longer counts as valid has come to its end, and a goroutine is about
\* to expire or refresh only such a token.
ServerSpent == elapsed \subseteq ended /\ \A n \in 1 .. current : n \in accepted \union ended
MarkedSpent == /\ config.expired => config.n \in ended
               /\ \A s \in Sources : held[s].expired => held[s].n \in ended
CallSpent(c) == /\ Expiring(c) => Mine(c).n \in ended
                /\ fetch[c].at = "done" => fetch[c].got = Mine(c).n

Spent == ServerSpent /\ MarkedSpent /\ \A c \in Callers : CallSpent(c)

\* The part that OutsideFrame does not say.
LEMMA OutsideSpent ==
  ASSUME TypeOK, Lineage, Spent, NEW c \in Callers, Outside(c)
  PROVE  Spent'
<1> fetch \in [Callers -> Fetch] /\ accepted \subseteq Numbers /\ current \in Nat
  BY DEF TypeOK, TokenTypeOK, Numbers
<1>1. /\ UNCHANGED <<current, accepted, elapsed, ended, config, held>>
      /\ \A d \in Callers \ {c} : fetch'[d] = fetch[d]
  BY OutsideFrame DEF environment, serverVars
<1>2. ServerSpent' /\ MarkedSpent' /\ \A d \in Callers \ {c} : CallSpent(d)'
  BY <1>1 DEF Spent, ServerSpent, MarkedSpent, CallSpent, Expiring, Mine
<1>3. CallSpent(c)'
  <2>1. CASE UNCHANGED fetch
    BY <1>1, <2>1 DEF Spent, CallSpent, Expiring, Mine
  <2>2. CASE fetch' = [fetch EXCEPT ![c] = NoFetch]
    BY <2>2 DEF CallSpent, Expiring, NoFetch
  <2>3. CASE StartFetch(c, FALSE)
    <3>1. fetch'[c].at = "waiting" /\ ~ fetch'[c].refresh
      BY <2>3 DEF StartFetch, Fetch
    <3> QED
      BY <3>1 DEF CallSpent, Expiring
  <2>4. CASE StartFetch(c, TRUE) /\ Rejected(c)
    <3>1. fetch'[c].at = "waiting"
      BY <2>4 DEF StartFetch, Fetch
    <3>2. fetch[c].got = Mine(c).n /\ fetch[c].got \notin accepted
      BY <2>4 DEF Rejected, Accepted, Spent, CallSpent
    <3>3. Mine(c).n \in 1 .. current
      BY SourceAssumption DEF Lineage, Issued, TypeOK, TokenTypeOK, Mine, Token, Numbers
    <3>4. Mine(c).n \in ended
      BY <3>2, <3>3 DEF Spent, ServerSpent
    <3> QED
      BY <1>1, <3>1, <3>4 DEF CallSpent, Mine
  <2>5. CASE TokenFails(c) \/ Send(c)
    BY <2>1, <2>2, <2>5 DEF TokenFails, Send, Transient, Return
  <2> QED
    BY <2>2, <2>3, <2>4, <2>5 DEF Outside, Begin, Rejected, Repeat, Cancel, Return
<1> QED
  BY <1>2, <1>3 DEF Spent

\* The other goroutines have sources of their own, which a Token call leaves
\* alone.
LEMMA OthersSpent ==
  ASSUME OneSourceEach, TypeOK, Lineage, Spent, NEW c \in Callers, FetchToken(c)
  PROVE  \A d \in Callers \ {c} : CallSpent(d)'
<1>1. \A d \in Callers \ {c} : fetch'[d] = fetch[d]
  BY FetchFrame DEF Lineage
<1>2. \A s \in Sources \ {SourceOf[c]} : held'[s] = held[s]
  BY DEF FetchToken, Lock, Expire, SaveExpired, UseCached, ReadConfig, Submit, SaveToken,
         TypeOK, TokenTypeOK
<1>3. \A d \in Callers \ {c} : Mine(d)' = Mine(d)
  BY <1>2, SourceAssumption DEF OneSourceEach, Mine
<1>4. ended' = ended
  BY DEF FetchToken, Lock, Expire, SaveExpired, UseCached, ReadConfig, Submit, SaveToken,
         serverVars
<1> QED
  BY <1>1, <1>3, <1>4 DEF Spent, CallSpent, Expiring

LEMMA FetchSpent ==
  ASSUME OneSourceEach, TypeOK, Lineage, Spent, NEW c \in Callers, FetchToken(c)
  PROVE  Spent'
<1> /\ fetch \in [Callers -> Fetch] /\ held \in [Sources -> Token] /\ SourceOf[c] \in Sources
    /\ Mine(c) \in Token /\ config \in Token /\ Mine(c) = held[SourceOf[c]]
  BY SourceAssumption DEF TypeOK, TokenTypeOK, Mine
<1> /\ elapsed \subseteq ended
    /\ config.expired => config.n \in ended
    /\ Mine(c).expired => Mine(c).n \in ended
    /\ \A s \in Sources : held[s].expired => held[s].n \in ended
    /\ CallSpent(c)
  BY DEF Spent, ServerSpent, MarkedSpent
<1>1. SUFFICES ServerSpent' /\ MarkedSpent' /\ CallSpent(c)'
  BY OthersSpent DEF Spent
<1>2. CASE Lock(c)
  <2>1. UNCHANGED <<current, accepted, elapsed, ended, config, held>>
    BY <1>2 DEF Lock, serverVars
  <2>2. /\ fetch'[c].at \in {"expiring", "checking"}
        /\ (fetch'[c].at = "expiring" => Expiring(c))
    BY <1>2 DEF Lock, Goto, Fetch, FirstStep, Expiring
  <2>3. CallSpent(c)'
    BY <2>1, <2>2 DEF CallSpent, Expiring, Mine
  <2> QED
    BY <2>1, <2>3 DEF Spent, ServerSpent, MarkedSpent
<1>3. CASE Expire(c)
  <2>1. UNCHANGED <<current, accepted, elapsed, ended, config>>
    BY <1>3 DEF Expire, serverVars
  <2>2. Mine(c).n \in ended
    BY <1>3 DEF Expire, CallSpent, Expiring
  <2>3. held' = [held EXCEPT ![SourceOf[c]].expired = TRUE]
    BY <1>3 DEF Expire
  <2>4. \A s \in Sources : held'[s].expired => held'[s].n \in ended
    BY <2>2, <2>3 DEF Token
  <2>5. fetch'[c].at \in {"unsaving", "checking", "failed"}
    BY <1>3 DEF Expire, FetchFails, Goto, Fetch
  <2> QED
    BY <2>1, <2>4, <2>5 DEF Spent, ServerSpent, MarkedSpent, CallSpent, Expiring
<1>4. CASE SaveExpired(c)
  <2>1. UNCHANGED <<current, accepted, elapsed, ended, held>> /\ config' \in {config, Mine(c)}
    BY <1>4 DEF SaveExpired, serverVars
  <2>2. fetch'[c].at \in {"checking", "failed"}
    BY <1>4 DEF SaveExpired, FetchFails, Goto, Fetch
  <2> QED
    BY <2>1, <2>2 DEF Spent, ServerSpent, MarkedSpent, CallSpent, Expiring
<1>5. CASE UseCached(c)
  <2>1. UNCHANGED <<current, accepted, elapsed, ended, held, config>>
    BY <1>5 DEF UseCached, serverVars
  <2>2. fetch'[c].at = "done" /\ fetch'[c].got = Mine(c).n
    BY <1>5 DEF UseCached, Got, Fetch
  <2>3. CallSpent(c)'
    BY <2>1, <2>2 DEF CallSpent, Expiring, Mine
  <2> QED
    BY <2>1, <2>3 DEF Spent, ServerSpent, MarkedSpent
<1>6. CASE ReadConfig(c)
  <2>1. UNCHANGED <<current, accepted, elapsed, ended, config>>
    BY <1>6 DEF ReadConfig, serverVars
  <2>2. held' = [held EXCEPT ![SourceOf[c]] = Reread(c)]
    BY <1>6 DEF ReadConfig
  <2>8. Reread(c) = config \/ Reread(c) = Mine(c)
    BY DEF Reread
  <2>9. Reread(c).expired => Reread(c).n \in ended
    <3>1. CASE Reread(c) = config
      BY <3>1, Zenon
    <3>2. CASE Reread(c) = Mine(c)
      BY <3>2, Zenon
    <3> QED
      BY <2>8, <3>1, <3>2
  <2>3. ASSUME NEW s \in Sources, held'[s].expired PROVE held'[s].n \in ended
    <3>1. CASE s = SourceOf[c]
      <4>1. held'[s] = Reread(c)
        BY <2>2, <3>1
      <4> QED
        BY <2>3, <2>9, <4>1
    <3>2. CASE s # SourceOf[c]
      <4>1. held'[s] = held[s]
        BY <2>2, <3>2
      <4> QED
        BY <2>3, <4>1
    <3> QED
      BY <3>1, <3>2
  <2>4. fetch'[c].at = IF Valid(Reread(c)) THEN "saving" ELSE "submitting"
    BY <1>6 DEF ReadConfig, Goto, Fetch
  <2>5. ~ Valid(Reread(c)) => Reread(c).n \in ended
    <3>1. Reread(c).n \in elapsed => Reread(c).n \in ended
      OBVIOUS
    <3> QED
      BY <2>9, <3>1, Zenon DEF Valid
  <2>6. Mine(c)' = Reread(c)
    BY <2>2 DEF Mine
  <2>7. CallSpent(c)'
    BY <2>1, <2>4, <2>5, <2>6 DEF CallSpent, Expiring
  <2> QED
    BY <2>1, <2>3, <2>7 DEF Spent, ServerSpent, MarkedSpent
<1>7. CASE Submit(c)
  <2>1. UNCHANGED <<elapsed, ended, config>> /\ Mine(c).n \in ended
    BY <1>7 DEF Submit, CallSpent, Expiring
  <2>2. ServerSpent'
    <3>1. CASE Exchange(Mine(c).n)
      BY <2>1, <3>1 DEF Exchange, Spent, ServerSpent, TypeOK, TokenTypeOK, Numbers
    <3>2. CASE UNCHANGED <<current, accepted>>
      BY <2>1, <3>2 DEF Spent, ServerSpent
    <3> QED
      BY <1>7, <3>1, <3>2 DEF Submit
  <2>3. \/ UNCHANGED held
        \/ held' = [held EXCEPT ![SourceOf[c]] = [n |-> current + 1, expired |-> FALSE]]
    BY <1>7 DEF Submit
  <2>6. ASSUME NEW s \in Sources, held'[s].expired PROVE held'[s].n \in ended
    <3>1. held'[s] = held[s] \/ held'[s] = [n |-> current + 1, expired |-> FALSE]
      BY <2>3
    <3>2. held'[s] # [n |-> current + 1, expired |-> FALSE]
      BY <2>6
    <3> QED
      BY <2>6, <3>1, <3>2
  <2>4. MarkedSpent'
    <3>1. config' = config /\ ended' = ended
      BY <2>1
    <3>2. config'.expired => config'.n \in ended'
      BY <3>1, Zenon
    <3>3. \A s \in Sources : held'[s].expired => held'[s].n \in ended'
      BY <2>6, <3>1, Zenon
    <3> QED
      BY <3>2, <3>3, Zenon DEF MarkedSpent
  <2>5. fetch'[c].at \in {"saving", "failed", "checking"}
    BY <1>7 DEF Submit, FetchFails, Goto, Fetch
  <2> QED
    BY <2>2, <2>4, <2>5 DEF CallSpent, Expiring
<1>8. CASE SaveToken(c)
  <2>1. UNCHANGED <<current, accepted, elapsed, ended, held>> /\ config' \in {config, Mine(c)}
    BY <1>8 DEF SaveToken, serverVars
  <2>2. \/ fetch'[c].at = "done" /\ fetch'[c].got = Mine(c).n
        \/ fetch'[c].at = "failed"
    BY <1>8 DEF SaveToken, Got, FetchFails, Goto, Fetch
  <2>3. CallSpent(c)'
    BY <2>1, <2>2 DEF CallSpent, Expiring, Mine
  <2> QED
    BY <2>1, <2>3 DEF Spent, ServerSpent, MarkedSpent
<1> QED
  BY <1>2, <1>3, <1>4, <1>5, <1>6, <1>7, <1>8 DEF FetchToken

LEMMA EnvironmentSpent ==
  ASSUME TypeOK, Spent, TokenEnds \/ ForeignRefresh
  PROVE  Spent'
<1>1. CASE TokenEnds
  <2>1. PICK n \in 1 .. current : /\ ended' = ended \union {n}
                                 /\ elapsed' \subseteq elapsed \union {n}
                                 /\ accepted \ {n} \subseteq accepted'
    BY <1>1 DEF TokenEnds
  <2>2. UNCHANGED <<current, config, held, fetch>>
    BY <1>1 DEF TokenEnds
  <2> QED
    BY <2>1, <2>2 DEF Spent, ServerSpent, MarkedSpent, CallSpent, Expiring, Mine
<1>2. CASE ForeignRefresh
  <2>1. /\ ended' = ended \union {config.n} /\ current' = current + 1
        /\ accepted' \union ended' = accepted \union ended \union {config.n, current + 1}
    BY <1>2 DEF ForeignRefresh, Exchange
  <2>2. UNCHANGED <<elapsed, held, fetch>> /\ ~ config'.expired
    BY <1>2 DEF ForeignRefresh
  <2>3. ServerSpent'
    BY <2>1, <2>2 DEF Spent, ServerSpent, TypeOK, TokenTypeOK, Numbers
  <2> QED
    BY <2>1, <2>2, <2>3 DEF Spent, MarkedSpent, CallSpent, Expiring, Mine
<1> QED
  BY <1>1, <1>2

\* With one goroutine to a source, only a token that expired, was revoked or
\* was replaced by another process is refreshed: waiting for the mutex while
\* another source refreshes never costs a second refresh.
THEOREM RefreshesSpentTokens == OneSourceEach => (Spec => RefreshesOnlySpent)
<1> SUFFICES ASSUME OneSourceEach PROVE Spec => RefreshesOnlySpent
  OBVIOUS
<1>1. Init => Spent
  BY DEF Init, TokenInit, NoFetch, Spent, ServerSpent, MarkedSpent, CallSpent, Expiring
<1>2. TypeOK /\ Lineage /\ Spent /\ [Next]_vars => Spent'
  <2> SUFFICES ASSUME TypeOK, Lineage, Spent, [Next]_vars PROVE Spent'
    OBVIOUS
  <2>1. CASE UNCHANGED vars
    BY <2>1 DEF vars, tokenVars, serverVars, Spent, ServerSpent, MarkedSpent, CallSpent, Expiring,
       Mine
  <2> QED
    BY <2>1, OutsideSpent, FetchSpent, EnvironmentSpent DEF Next, Do, Outside, Terminated
<1>3. TypeOK /\ Spent => \A c \in Callers : Submit(c) => Mine(c).n \in ended
  BY DEF Spent, CallSpent, Expiring, Submit
<1> QED
  BY <1>1, <1>2, <1>3, LineageHolds, PTL DEF Spec, RefreshesOnlySpent

-----------------------------------------------------------------------------
(* Calls that write *)

WritesOnce ==
    \A c \in Callers : request[c].write =>
        /\ request[c].at # "delay"
        /\ request[c].at = "sending" => request[c].effects = 0
        /\ request[c].effects <= 1

\* A call that writes is carried out at most once, whatever becomes of its
\* token and its connection.
THEOREM WritesApplyOnce == Spec => []AppliedOnce
<1>1. Init => WritesOnce
  BY DEF Init, NoRequest, WritesOnce
<1>2. TypeOK /\ WritesOnce /\ [Next]_vars => WritesOnce'
  <2> SUFFICES ASSUME TypeOK, WritesOnce, [Next]_vars PROVE WritesOnce'
    OBVIOUS
  <2> request \in [Callers -> Request]
    BY DEF TypeOK
  <2>1. CASE UNCHANGED request
    BY <2>1 DEF WritesOnce
  <2>2. ASSUME NEW c \in Callers, Begin(c) PROVE WritesOnce'
    BY <2>2 DEF Begin, NoRequest, WritesOnce
  <2>3. ASSUME NEW c \in Callers, NEW done \in {0, 1}, Return(c, done),
               request[c].at = "sending" \/ done = 0
        PROVE  WritesOnce'
    BY <2>3 DEF Return, WritesOnce, Request
  <2>4. ASSUME NEW c \in Callers, NEW done \in {0, 1}, Transient(c, done), Repeats(c)
        PROVE  WritesOnce'
    BY <2>4 DEF Transient, Repeats, WritesOnce, Request
  <2>5. ASSUME NEW c \in Callers, Repeat(c) PROVE WritesOnce'
    BY <2>5 DEF Repeat, WritesOnce, Request
  <2>6. ASSUME NEW c \in Callers, Rejected(c) PROVE WritesOnce'
    <3>1. CASE request[c].again
      BY <2>3, <2>6, <3>1 DEF Rejected
    <3>2. CASE ~ request[c].again
      BY <2>6, <3>2 DEF Rejected, WritesOnce, Request
    <3> QED
      BY <3>1, <3>2
  <2>7. ASSUME NEW c \in Callers, TokenFails(c) \/ Send(c) \/ Cancel(c) PROVE WritesOnce'
    BY <2>3, <2>4, <2>7 DEF TokenFails, Send, Cancel, Transient
  <2> QED
    BY <2>1, <2>2, <2>5, <2>6, <2>7 DEF Next, Do, Terminated, vars
<1>3. WritesOnce => AppliedOnce
  BY DEF WritesOnce, AppliedOnce
<1> QED
  BY <1>1, <1>2, <1>3, TypeCorrect, PTL DEF Spec
=============================================================================
