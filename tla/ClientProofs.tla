---------------------------- MODULE ClientProofs ----------------------------
(***************************************************************************)
(* Proofs about Client, for any number of calls, any retry options, any    *)
(* backoff with a limit, any lifetimes of tokens that exceed the timeout   *)
(* of the http.Client and any lifetime of idempotency keys.                *)
(***************************************************************************)
EXTENDS Client, TLAPS

\* A token arrives at most a timeout after it was issued, so ExpiresAt is late by
\* no more than that.
InTime(token) == token.left =< token.honoured + HttpTimeout

\* A goroutine with what it is about to do justified.  Every retry has waited
\* for at least a tick, so elapsed time bounds the attempts; a token request
\* asks for the scope of the operation.
Good(call) ==
    /\ call \in Goroutine
    /\ call.attempt =< call.elapsed + 1
    /\ call.pc = "lookup" => call.rest = 0
    /\ call.pc = "token" => call.rest =< HttpTimeout
    /\ call.pc = "pause" =>
          /\ Repeats(call.retry)
          /\ call.attempt =< MaxElapsed /\ call.attempt =< call.elapsed + call.rest
    /\ call.pc \in {"token", "store"} => call.op.scope \in call.token.scopes
    /\ call.pc = "store" => call.token.honoured > 0 /\ InTime(call.token)

\* The books of the server: a key that has not lapsed stands for an execution of
\* its call.
Accounted ==
    /\ \A r \in wire : r.key = <<r.call, 1>> /\ calls[r.call].pc # "idle"
    /\ \A c \in Call, n \in Attempts : keys[<<c, n>>] > 0 => executed[c] > 0
    /\ \A c \in Call : calls[c].pc = "idle" => executed[c] = 0

\* What is left of a key and the time since the execution under it make up its
\* lifetime, so that the key of a call executed lately has not lapsed.
Remembered == \A c \in Call : keys[<<c, 1>>] + since[c] >= KeyLifetime

\* A call without retries sends one request, which is on the wire or handled.
Unsent == {"idle", "lookup", "token", "store"}
SingleShot ==
    \A c \in Call : ~Repeats(calls[c].retry) =>
        /\ executed[c] =< 1
        /\ calls[c].pc \in Unsent => executed[c] = 0 /\ \A r \in wire : r.call # c
        /\ \A r \in wire : r.call = c => executed[c] = 0
        /\ \A r, s \in wire : r.call = c /\ s.call = c => r = s

Inv ==
    /\ TypeOK /\ \A c \in Call : Good(calls[c])
    /\ InTime(session) /\ TokenFits
    /\ Accounted /\ Remembered /\ SingleShot /\ ResultTrue

\* A call that has not begun, and one that has returned, is good.
LEMMA NewCallGood ==
    /\ NewCall \in Goroutine /\ Good(NewCall) /\ NoToken \in Token /\ InTime(NoToken)
    /\ 1 \in Attempts
<1>1. NoToken \in Token /\ InTime(NoToken)
  BY ClientAssumption DEF NoToken, Token, InTime
<1>2. 1 \in Attempts /\ 0 \in 0..(MaxElapsed + 1)
  BY ClientAssumption DEF Attempts
<1>3. Reading \in Operation
  BY DEF Reading, Operation, Scope
<1>4. NewCall \in Goroutine
  BY <1>1, <1>2, <1>3 DEF NewCall, Goroutine, Pc, RetryOption, Result
<1> QED
  BY <1>1, <1>2, <1>4 DEF Good, NewCall

LEMMA ReturnedGood ==
    ASSUME NEW op \in Operation, NEW retry \in RetryOption, NEW result \in Result,
           NEW pc \in {"done", "lookup"}
    PROVE  Good([NewCall EXCEPT !.pc = pc, !.op = op, !.retry = retry,
                                !.result = result])
BY NewCallGood DEF NewCall, Good, Goroutine, Pc

\* The initial state satisfies the invariant.
LEMMA InitInv == Init => Inv
<1> SUFFICES ASSUME Init PROVE Inv
  OBVIOUS
<1>1. TypeOK
  <2>1. 0 \in 0..KeyLifetime /\ KeyLifetime \in 0..KeyLifetime
    BY ClientAssumption
  <2> QED
    BY <2>1, NewCallGood DEF Init, TypeOK
<1>2. \A c \in Call : Good(calls[c]) /\ calls[c].result = "none"
  BY NewCallGood DEF Init, NewCall
<1>3. InTime(session)
  BY NewCallGood DEF Init
<1>4. TokenFits /\ Accounted /\ SingleShot
  BY DEF Init, TokenFits, Accounted, SingleShot
<1>6. Remembered
  <2> SUFFICES ASSUME NEW c \in Call PROVE keys[<<c, 1>>] + since[c] >= KeyLifetime
    BY DEF Remembered
  <2>1. <<c, 1>> \in Call \X Attempts
    BY NewCallGood
  <2>2. keys[<<c, 1>>] = 0 /\ since[c] = KeyLifetime
    BY <2>1 DEF Init
  <2> QED
    BY <2>2, ClientAssumption
<1>5. ResultTrue
  BY <1>2 DEF ResultTrue
<1> QED
  BY <1>1, <1>2, <1>3, <1>4, <1>5, <1>6 DEF Inv

\* What every call knows of itself.
LEMMA CallType ==
    ASSUME Inv, NEW c \in Call
    PROVE  /\ Good(calls[c]) /\ calls[c] \in Goroutine
           /\ calls[c].op \in Operation /\ calls[c].retry \in RetryOption
           /\ calls[c].pc \in Pc /\ calls[c].result \in Result
           /\ calls[c].attempt \in Attempts /\ calls[c].attempt \in Int
           /\ calls[c].elapsed \in Int /\ calls[c].rest \in Nat
           /\ calls[c].token \in Token /\ calls[c].late \in BOOLEAN
           /\ calls[c].op.scope \in Scope
BY DEF Inv, TypeOK, Goroutine, Operation, Attempts

\* A call that fails.
LEMMA FailedGood ==
    ASSUME Inv, NEW c \in Call, calls' = Returned(c, "error")
    PROVE  \E call \in Goroutine :
              /\ calls' = [calls EXCEPT ![c] = call] /\ Good(call)
              /\ call.op = calls[c].op /\ call.retry = calls[c].retry
              /\ call.pc = "done" /\ call.result = "error"
<1> DEFINE call == [NewCall EXCEPT !.pc = "done", !.op = calls[c].op,
                                   !.retry = calls[c].retry, !.result = "error"]
<1>1. Good(call)
  BY CallType, ReturnedGood DEF Result
<1>2. call.op = calls[c].op /\ call.retry = calls[c].retry /\ call.pc = "done"
      /\ call.result = "error"
  BY DEF NewCall
<1>3. calls' = [calls EXCEPT ![c] = call]
  BY DEF Returned
<1> HIDE DEF call
<1> QED
  BY <1>1, <1>2, <1>3 DEF Good

\* The end of an attempt: the call returns, or pauses if it repeats.
LEMMA ConcludeGood ==
    ASSUME Inv, NEW c \in Call, NEW outcome, Conclude(c, outcome)
    PROVE  \E call \in Goroutine :
              /\ calls' = [calls EXCEPT ![c] = call] /\ Good(call)
              /\ call.op = calls[c].op /\ call.retry = calls[c].retry
              /\ call.pc \in {"done", "pause"}
              /\ call.result = "ok" => outcome = 200 \/ calls[c].result = "ok"
<1>1. CASE \E result \in {"ok", "error"} :
              /\ calls' = Returned(c, result) /\ result = ResultOf(outcome)
  <2>1. PICK result \in {"ok", "error"} :
           calls' = Returned(c, result) /\ result = ResultOf(outcome)
    BY <1>1
  <2> DEFINE call == [NewCall EXCEPT !.pc = "done", !.op = calls[c].op,
                                     !.retry = calls[c].retry, !.result = result]
  <2>2. Good(call)
    BY CallType, ReturnedGood DEF Result
  <2>3. call.op = calls[c].op /\ call.retry = calls[c].retry /\ call.pc = "done"
        /\ call.result = result
    BY DEF NewCall
  <2>4. calls' = [calls EXCEPT ![c] = call]
    BY <2>1 DEF Returned
  <2>5. result = "ok" => outcome = 200
    BY <2>1 DEF ResultOf
  <2> HIDE DEF call
  <2> QED
    BY <2>2, <2>3, <2>4, <2>5 DEF Good
<1>2. CASE \E pause \in Intervals :
              /\ Retryable(c, outcome) /\ ~GivesUp(c, pause)
              /\ calls' = [calls EXCEPT ![c].pc = "pause", ![c].rest = pause]
  <2>1. PICK pause \in Intervals :
           /\ Retryable(c, outcome) /\ ~GivesUp(c, pause)
           /\ calls' = [calls EXCEPT ![c].pc = "pause", ![c].rest = pause]
    BY <1>2
  <2> DEFINE call == [calls[c] EXCEPT !.pc = "pause", !.rest = pause]
  <2>2. pause \in Nat \ {0}
    BY ClientAssumption
  <2>3. calls[c].elapsed + pause =< MaxElapsed
    BY <2>1, <2>2, CallType, ClientAssumption DEF GivesUp
  <2>4. /\ call \in Goroutine /\ call.op = calls[c].op /\ call.retry = calls[c].retry
        /\ call.pc = "pause" /\ call.rest = pause /\ call.result = calls[c].result
        /\ call.attempt = calls[c].attempt /\ call.elapsed = calls[c].elapsed
    BY <2>2, CallType DEF Goroutine, Pc
  <2>5. calls' = [calls EXCEPT ![c] = call]
    BY <2>1 DEF Inv, TypeOK
  <2>6. Repeats(calls[c].retry)
    BY <2>1 DEF Retryable
  <2> HIDE DEF call
  <2>7. calls[c].attempt =< calls[c].elapsed + 1
    BY CallType DEF Good
  <2>8. Good(call)
    BY <2>2, <2>3, <2>4, <2>6, <2>7, CallType, ClientAssumption DEF Good
  <2> QED
    BY <2>4, <2>5, <2>8
<1> QED
  BY <1>1, <1>2 DEF Conclude, ResultOf

\* A call moves on.  Nothing is sent or executed; the session is one of a good
\* token.
LEMMA Moved ==
    ASSUME Inv, NEW c \in Call, NEW call, Good(call),
           calls' = [calls EXCEPT ![c] = call],
           call.op = calls[c].op, call.retry = calls[c].retry,
           call.pc # "idle", calls[c].pc # "idle",
           calls[c].pc \in Unsent \/ call.pc \notin Unsent \/ Repeats(call.retry),
           call.result = "ok" => executed[c] > 0,
           wire' \subseteq wire, session' \in Token, InTime(session'),
           dead' \in BOOLEAN, UNCHANGED <<keys, deleted, executed, since>>
    PROVE  Inv'
<1>1. \A d \in Call : \/ d # c /\ calls'[d] = calls[d]
                      \/ d = c /\ calls'[d] = call
  BY DEF Inv, TypeOK
<1>2. TypeOK'
  BY DEF Inv, TypeOK, Good
<1>3. \A d \in Call : Good(calls'[d])
  BY <1>1 DEF Inv
<1>4. TokenFits'
  BY DEF Inv, TokenFits
<1>5. Accounted'
  <2>1. \A r \in wire' : r.call \in Call
    BY DEF Inv, TypeOK, Request
  <2> QED
    BY <1>1, <2>1 DEF Inv, Accounted
<1>6. SingleShot'
  BY <1>1 DEF Inv, SingleShot
<1>7. ResultTrue' /\ Remembered'
  BY <1>1 DEF Inv, ResultTrue, Remembered
<1> QED
  BY <1>2, <1>3, <1>4, <1>5, <1>6, <1>7 DEF Inv

\* An attempt concludes without any execution.
LEMMA ConcludeInv ==
    ASSUME Inv, NEW c \in Call, NEW outcome, Conclude(c, outcome),
           calls[c].pc # "idle", outcome = 200 => executed[c] > 0,
           wire' \subseteq wire, session' \in Token, InTime(session'),
           dead' \in BOOLEAN, UNCHANGED <<keys, deleted, executed, since>>
    PROVE  Inv'
<1>1. PICK call \in Goroutine :
         /\ calls' = [calls EXCEPT ![c] = call] /\ Good(call)
         /\ call.op = calls[c].op /\ call.retry = calls[c].retry
         /\ call.pc \in {"done", "pause"}
         /\ call.result = "ok" => outcome = 200 \/ calls[c].result = "ok"
  BY ConcludeGood
<1>2. call.result = "ok" => executed[c] > 0
  BY <1>1 DEF Inv, ResultTrue
<1> QED
  BY <1>1, <1>2, Moved DEF Unsent

\* A request is sent with a token that fits, by a call that has sent none in
\* this attempt.
LEMMA SendInv ==
    ASSUME Inv, NEW c \in Call, NEW token \in Token,
           calls[c].pc \in {"lookup", "store"}, Do(c, token),
           calls[c].op.scope \in token.scopes, token.honoured > 0,
           session' \in Token, InTime(session'),
           UNCHANGED <<dead, keys, deleted, executed, since>>
    PROVE  Inv'
<1>1. CASE calls[c].late
  <2>1. Conclude(c, Temporary) /\ UNCHANGED wire
    BY <1>1 DEF Do
  <2> QED
    BY <2>1, ConcludeInv DEF Temporary, Inv, TypeOK
<1>2. CASE ~calls[c].late
  <2> DEFINE call == [calls[c] EXCEPT !.pc = "wait", !.token = NoToken]
             request == [call |-> c, attempt |-> calls[c].attempt, key |-> <<c, 1>>,
                         covered |-> TRUE, honoured |-> TRUE]
  <2>1. calls' = [calls EXCEPT ![c] = call]
    BY <1>2 DEF Do, Inv, TypeOK
  <2>2. wire' = wire \cup {request}
    BY <1>2 DEF Do, IdempotencyKey, hasRequiredScopes
  <2>3. /\ call \in Goroutine /\ call.pc = "wait" /\ call.op = calls[c].op
        /\ call.retry = calls[c].retry /\ call.result = calls[c].result
        /\ call.attempt = calls[c].attempt /\ call.elapsed = calls[c].elapsed
    BY CallType, NewCallGood DEF Goroutine, Pc
  <2>4. Good(call)
    BY <2>3, CallType DEF Good
  <2>5. /\ request \in Request /\ request.call = c /\ request.key = <<c, 1>>
        /\ request.covered /\ request.honoured
    BY CallType, NewCallGood DEF Request
  <2> HIDE DEF call, request
  <2>6. \A d \in Call : \/ d # c /\ calls'[d] = calls[d]
                        \/ d = c /\ calls'[d] = call
    BY <2>1 DEF Inv, TypeOK
  <2>7. TypeOK'
    BY <2>1, <2>2, <2>3, <2>5 DEF Inv, TypeOK
  <2>8. \A d \in Call : Good(calls'[d])
    BY <2>4, <2>6 DEF Inv
  <2>9. TokenFits'
    BY <2>2, <2>5 DEF Inv, TokenFits
  <2>10. Accounted'
    <3>1. \A r \in wire : r.call \in Call
      BY DEF Inv, TypeOK, Request
    <3> QED
      BY <2>2, <2>3, <2>5, <2>6, <3>1 DEF Inv, Accounted
  <2>11. SingleShot'
    <3> SUFFICES ASSUME NEW d \in Call, ~Repeats(calls'[d].retry)
                 PROVE  /\ executed[d] =< 1
                        /\ calls'[d].pc \in Unsent =>
                              executed[d] = 0 /\ \A r \in wire' : r.call # d
                        /\ \A r \in wire' : r.call = d => executed[d] = 0
                        /\ \A r, t \in wire' : r.call = d /\ t.call = d => r = t
      BY DEF SingleShot
    <3>1. CASE d # c
      BY <2>2, <2>5, <2>6, <3>1 DEF Inv, SingleShot
    <3>2. CASE d = c
      <4>1. executed[d] = 0 /\ \A r \in wire : r.call # d
        BY <2>3, <2>6, <3>2 DEF Inv, SingleShot, Unsent
      <4> QED
        BY <2>2, <2>3, <2>6, <3>2, <4>1 DEF Unsent
    <3> QED
      BY <3>1, <3>2
  <2>12. ResultTrue' /\ Remembered'
    BY <2>3, <2>6 DEF Inv, ResultTrue, Remembered
  <2> QED
    BY <2>7, <2>8, <2>9, <2>10, <2>11, <2>12 DEF Inv
<1> QED
  BY <1>1, <1>2

\* A token of the session that is not about to expire is honoured, since the
\* margin exceeds the time it may have been under way.
LEMMA FindSessionInv == ASSUME Inv, NEW c \in Call, FindSession(c) PROVE Inv'
<1>1. session \in Token /\ session.left \in Int /\ session.honoured \in Int
  BY DEF Inv, TypeOK, Token
<1>2. session.left > Margin /\ calls[c].op.scope \in session.scopes
  BY <1>1, ClientAssumption DEF FindSession, Usable, hasRequiredScopes, hasTokenExpired
<1>3. session.honoured > 0
  BY <1>1, <1>2, ClientAssumption DEF Inv, InTime
<1>4. InTime(session')
  BY DEF Inv, FindSession
<1> QED
  BY <1>1, <1>2, <1>3, <1>4, SendInv DEF FindSession

LEMMA StoreSessionInv == ASSUME Inv, NEW c \in Call, StoreSession(c) PROVE Inv'
<1>1. /\ calls[c].token \in Token /\ calls[c].token.honoured > 0
      /\ calls[c].op.scope \in calls[c].token.scopes /\ InTime(calls[c].token)
  BY CallType DEF StoreSession, Good
<1> QED
  BY <1>1, SendInv DEF StoreSession

LEMMA doTokenRequestInv == ASSUME Inv, NEW c \in Call, doTokenRequest(c) PROVE Inv'
<1> DEFINE scopes == getScopes(calls[c].op, session)
           call == [calls[c] EXCEPT !.pc = "token", !.token.scopes = scopes]
<1>1. scopes \in SUBSET Scope /\ calls[c].op.scope \in scopes
  BY CallType DEF getScopes, Inv, TypeOK, Token
<1>2. calls' = [calls EXCEPT ![c] = call]
  BY DEF doTokenRequest, Inv, TypeOK
<1> HIDE DEF scopes
<1>3. [calls[c].token EXCEPT !.scopes = scopes] \in Token
  BY <1>1, CallType DEF Token
<1>4. /\ call \in Goroutine /\ call.pc = "token" /\ call.op = calls[c].op
      /\ call.retry = calls[c].retry /\ call.result = calls[c].result
      /\ call.attempt = calls[c].attempt /\ call.elapsed = calls[c].elapsed
      /\ call.rest = calls[c].rest /\ call.token.scopes = scopes
  BY <1>3, CallType DEF Goroutine, Pc, Token
<1> HIDE DEF call
<1>5. calls[c].rest = 0
  BY CallType DEF doTokenRequest, Good
<1>6. Good(call)
  BY <1>1, <1>4, <1>5, CallType, ClientAssumption DEF Good
<1> QED
  BY <1>2, <1>4, <1>6, Moved DEF doTokenRequest, Unsent, Inv, TypeOK, ResultTrue

\* The token left the server "lag" ticks ago, at most a timeout.
LEMMA TokenResponseInv == ASSUME Inv, NEW c \in Call, TokenResponse(c) PROVE Inv'
<1>1. PICK life \in Lifetimes, lag \in 0..calls[c].rest, stated \in BOOLEAN :
         calls' = [calls EXCEPT ![c].pc = "store", ![c].rest = 0,
             ![c].token = [scopes |-> calls[c].token.scopes, honoured |-> life - lag,
                           left |-> IF stated THEN life ELSE 0]]
  BY DEF TokenResponse
<1> DEFINE token == [scopes |-> calls[c].token.scopes, honoured |-> life - lag,
                     left |-> IF stated THEN life ELSE 0]
           call == [calls[c] EXCEPT !.pc = "store", !.rest = 0, !.token = token]
<1>2. /\ calls[c].rest =< HttpTimeout /\ calls[c].rest \in Nat
      /\ calls[c].op.scope \in calls[c].token.scopes
      /\ calls[c].token.scopes \in SUBSET Scope
  BY CallType DEF TokenResponse, Good, Token
<1>3. life \in Nat /\ lag \in Nat /\ lag =< HttpTimeout /\ life > HttpTimeout
      /\ HttpTimeout \in Nat
  BY <1>2, ClientAssumption
<1>4. token \in Token /\ token.honoured > 0 /\ InTime(token)
  BY <1>2, <1>3 DEF Token, InTime
<1>5. calls' = [calls EXCEPT ![c] = call]
  BY <1>1 DEF Inv, TypeOK
<1>6. token.scopes = calls[c].token.scopes
  OBVIOUS
<1> HIDE DEF token
<1>7. /\ call \in Goroutine /\ call.pc = "store" /\ call.op = calls[c].op
      /\ call.retry = calls[c].retry /\ call.result = calls[c].result
      /\ call.attempt = calls[c].attempt /\ call.elapsed = calls[c].elapsed
      /\ call.token = token
  BY <1>4, CallType DEF Goroutine, Pc
<1> HIDE DEF call
<1>8. Good(call)
  BY <1>2, <1>4, <1>6, <1>7, CallType DEF Good
<1> QED
  BY <1>5, <1>7, <1>8, Moved DEF TokenResponse, Unsent, Inv, TypeOK, ResultTrue

\* Attempts that end without an answer.
LEMMA ErrorInv ==
    ASSUME Inv, NEW c \in Call, TokenError(c) \/ TransportError(c) PROVE Inv'
<1>1. PICK outcome \in {Temporary, Permanent} : Conclude(c, outcome)
  BY DEF TokenError, TransportError
<1>2. outcome # 200
  BY DEF Temporary, Permanent
<1> QED
  BY <1>1, <1>2, ConcludeInv DEF TokenError, TransportError, Inv, TypeOK

\* A pause has lasted: the next attempt, or the timeout of the operation.
LEMMA NextAttemptInv == ASSUME Inv, NEW c \in Call, NextAttempt(c) PROVE Inv'
<1>1. CASE calls[c].late
  <2>1. PICK call \in Goroutine :
           /\ calls' = [calls EXCEPT ![c] = call] /\ Good(call)
           /\ call.op = calls[c].op /\ call.retry = calls[c].retry
           /\ call.pc = "done" /\ call.result = "error"
    BY <1>1, FailedGood DEF NextAttempt
  <2> QED
    BY <2>1, Moved DEF NextAttempt, Unsent, Inv, TypeOK
<1>2. CASE ~calls[c].late
  <2> DEFINE call == [calls[c] EXCEPT !.pc = "lookup", !.attempt = @ + 1]
  <2>1. calls' = [calls EXCEPT ![c] = call]
    BY <1>2 DEF NextAttempt, Inv, TypeOK
  <2>2. /\ calls[c].attempt =< MaxElapsed /\ calls[c].attempt =< calls[c].elapsed
        /\ calls[c].rest = 0 /\ Repeats(calls[c].retry)
    BY CallType DEF NextAttempt, Good
  <2>3. calls[c].attempt + 1 \in Attempts
    BY <2>2, CallType, ClientAssumption DEF Attempts
  <2>4. /\ call \in Goroutine /\ call.pc = "lookup" /\ call.op = calls[c].op
        /\ call.retry = calls[c].retry /\ call.result = calls[c].result
        /\ call.attempt = calls[c].attempt + 1 /\ call.elapsed = calls[c].elapsed
        /\ call.rest = 0
    BY <2>2, <2>3, CallType DEF Goroutine, Pc
  <2> HIDE DEF call
  <2>5. Good(call)
    BY <2>2, <2>4, CallType DEF Good
  <2> QED
    BY <2>1, <2>2, <2>4, <2>5, Moved DEF NextAttempt, Inv, TypeOK, ResultTrue
<1> QED
  BY <1>1, <1>2

LEMMA TimeoutInv == ASSUME Inv, NEW c \in Call, Timeout(c) PROVE Inv'
<1> DEFINE call == [calls[c] EXCEPT !.late = TRUE]
<1>1. calls' = [calls EXCEPT ![c] = call]
  BY DEF Timeout, Inv, TypeOK
<1>2. /\ call \in Goroutine /\ call.pc = calls[c].pc /\ call.op = calls[c].op
      /\ call.retry = calls[c].retry /\ call.result = calls[c].result
      /\ call.attempt = calls[c].attempt /\ call.elapsed = calls[c].elapsed
      /\ call.rest = calls[c].rest /\ call.token = calls[c].token
  BY CallType DEF Goroutine
<1> HIDE DEF call
<1>3. Good(call)
  BY <1>2, CallType DEF Good
<1> QED
  BY <1>1, <1>2, <1>3, Moved DEF Timeout, Unsent, Inv, TypeOK, ResultTrue

\* An operation is called.
LEMMA InvokeInv ==
    ASSUME Inv, NEW c \in Call, NEW op \in Operation, Invoke(c, op) PROVE Inv'
<1> DEFINE call == [NewCall EXCEPT !.pc = "lookup", !.op = op,
                                   !.retry = RetryConfig(Options[c])]
<1>1. calls' = [calls EXCEPT ![c] = call] /\ calls[c].pc = "idle"
  BY DEF Invoke
<1>2. RetryConfig(Options[c]) \in RetryOption
  BY ClientAssumption DEF RetryConfig
<1>3. /\ call.pc = "lookup" /\ call.result = "none" /\ call.rest = 0
      /\ call.attempt = 1 /\ call.elapsed = 0 /\ call \in Goroutine
  BY <1>2, NewCallGood DEF NewCall, Goroutine, Pc
<1> HIDE DEF call
<1>5. Good(call)
  BY <1>3 DEF Good
<1>6. UNCHANGED <<session, dead, wire, keys, deleted, executed, since>>
  BY DEF Invoke
<1>7. \A d \in Call : \/ d # c /\ calls'[d] = calls[d]
                      \/ d = c /\ calls'[d] = call
  BY <1>1 DEF Inv, TypeOK
<1>8. executed[c] = 0 /\ \A r \in wire : r.call # c /\ r.call \in Call
  BY <1>1 DEF Inv, TypeOK, Request, Accounted
<1>9. TypeOK' /\ InTime(session') /\ TokenFits'
  BY <1>1, <1>3, <1>6 DEF Inv, TypeOK, TokenFits
<1>10. \A d \in Call : Good(calls'[d])
  BY <1>5, <1>7 DEF Inv
<1>11. Accounted'
  BY <1>3, <1>6, <1>7, <1>8 DEF Inv, Accounted
<1>12. SingleShot'
  BY <1>6, <1>7, <1>8 DEF Inv, SingleShot
<1>13. ResultTrue' /\ Remembered'
  BY <1>3, <1>6, <1>7 DEF Inv, ResultTrue, Remembered
<1> QED
  BY <1>9, <1>10, <1>11, <1>12, <1>13 DEF Inv

LEMMA OperateInv == ASSUME Inv, NEW c \in Call, Operate(c) PROVE Inv'
<1>1. Reading \in Operation /\ Writing \in Operation /\ Keyed \in Operation
      /\ Once \in Operation
  BY DEF Reading, Writing, Keyed, Once, Operation, Scope
<1> QED
  BY <1>1, InvokeInv
  DEF Operate, GetManyConfigs, GetDeliveries, GetDelivery, GetDeliveryAttempts,
      TestConfig, InsertConfig, UpdateConfig, ActivateConfig, DeactivateConfig,
      ChangeConfigSecret, DeleteConfig, ReplayDelivery, ReplayDeliveries

\* An answer moves the call that waits for it, or none; no answer touches the
\* session.
LEMMA Answered ==
    ASSUME Inv, NEW request \in wire, NEW status \in {200, 401, 404, 503},
           Answer(request, status)
    PROVE  LET c == request.call IN
           /\ c \in Call /\ calls[c].pc # "idle"
           /\ wire' = wire \ {request} /\ UNCHANGED <<session, dead>>
           /\ \E call \in Goroutine :
                /\ calls' = [calls EXCEPT ![c] = call] /\ Good(call)
                /\ call.op = calls[c].op /\ call.retry = calls[c].retry
                /\ call = calls[c] \/ call.pc \in {"done", "pause"}
                /\ call.result = "ok" => status = 200 \/ calls[c].result = "ok"
<1>1. PICK c \in Call : c = request.call /\ calls[c].pc # "idle"
  BY DEF Inv, TypeOK, Request, Accounted
<1>2. wire' = wire \ {request} /\ UNCHANGED <<session, dead>>
  BY <1>1 DEF Answer, AfterError, MatchStatusCodes, Codes
<1>3. CASE UNCHANGED calls
  <2>1. calls' = [calls EXCEPT ![c] = calls[c]]
    BY <1>3 DEF Inv, TypeOK
  <2>2. calls[c] \in Goroutine /\ Good(calls[c])
    BY <1>1, CallType
  <2> DEFINE old == calls[c]
  <2>3. old = calls[c]
    OBVIOUS
  <2> HIDE DEF old
  <2>4. /\ calls' = [calls EXCEPT ![c] = old] /\ Good(old) /\ old \in Goroutine
        /\ old.op = calls[c].op /\ old.retry = calls[c].retry
        /\ old.result = "ok" => calls[c].result = "ok"
    BY <2>1, <2>2, <2>3
  <2> QED
    BY <1>1, <1>2, <2>3, <2>4
<1>4. CASE Conclude(c, status)
  BY <1>1, <1>2, <1>4, ConcludeGood
<1>5. CASE calls' = Returned(c, "error")
  <2>1. PICK call \in Goroutine :
           /\ calls' = [calls EXCEPT ![c] = call] /\ Good(call)
           /\ call.op = calls[c].op /\ call.retry = calls[c].retry
           /\ call.pc = "done" /\ call.result = "error"
    BY <1>1, <1>5, FailedGood
  <2> QED
    BY <1>1, <1>2, <2>1
<1> QED
  BY <1>1, <1>3, <1>4, <1>5 DEF Answer

\* The server answers without executing anything: it refuses, or has done it.
LEMMA AnswerInv ==
    ASSUME Inv, NEW request \in wire, AnswerAgain(request) \/ Refuse(request)
    PROVE  Inv'
<1> DEFINE c == request.call
<1>1. PICK status \in {200, 401, 404, 503} :
         Answer(request, status) /\ (status = 200 => keys[request.key] > 0)
  BY DEF AnswerAgain, Refuse
<1>2. request.key = <<c, 1>>
  BY DEF Inv, Accounted
<1>3. status = 200 => executed[c] > 0
  <2>1. c \in Call /\ 1 \in Attempts
    BY NewCallGood DEF Inv, TypeOK, Request
  <2> QED
    BY <1>1, <1>2, <2>1 DEF Inv, Accounted
<1>4. /\ c \in Call /\ calls[c].pc # "idle"
      /\ wire' = wire \ {request} /\ UNCHANGED <<session, dead>>
  BY <1>1, Answered
<1>5. PICK call \in Goroutine :
         /\ calls' = [calls EXCEPT ![c] = call] /\ Good(call)
         /\ call.op = calls[c].op /\ call.retry = calls[c].retry
         /\ call = calls[c] \/ call.pc \in {"done", "pause"}
         /\ call.result = "ok" => status = 200 \/ calls[c].result = "ok"
  BY <1>1, Answered
<1>6. call.result = "ok" => executed[c] > 0
  BY <1>3, <1>4, <1>5 DEF Inv, ResultTrue
<1>7. UNCHANGED <<keys, deleted, executed, since>>
  BY DEF AnswerAgain, Refuse
<1>8. call.pc # "idle"
        /\ (calls[c].pc \in Unsent \/ call.pc \notin Unsent \/ Repeats(call.retry))
  BY <1>4, <1>5 DEF Unsent
<1>9. session' \in Token /\ InTime(session') /\ dead' \in BOOLEAN
  BY <1>4 DEF Inv, TypeOK
<1> QED
  BY <1>4, <1>5, <1>6, <1>7, <1>8, <1>9, Moved

\* The server executes a request: of a call without retries for the first time,
\* and under a key that starts a new lifetime.
LEMMA ExecuteInv == ASSUME Inv, NEW request \in wire, Execute(request) PROVE Inv'
<1> DEFINE c == request.call
<1>1. /\ c \in Call /\ calls[c].pc # "idle"
      /\ wire' = wire \ {request} /\ UNCHANGED <<session, dead>>
  BY Answered DEF Execute
<1>2. PICK call \in Goroutine :
         /\ calls' = [calls EXCEPT ![c] = call] /\ Good(call)
         /\ call.op = calls[c].op /\ call.retry = calls[c].retry
         /\ call = calls[c] \/ call.pc \in {"done", "pause"}
  BY Answered DEF Execute
<1>3. request.key = <<c, 1>> /\ request \in Request /\ request.key \in Call \X Attempts
  BY DEF Inv, TypeOK, Accounted, Request
<1>4. \A d \in Call : \/ d # c /\ calls'[d] = calls[d] /\ executed'[d] = executed[d]
                      \/ d = c /\ calls'[d] = call /\ executed'[d] = executed[d] + 1
  BY <1>1, <1>2 DEF Execute, Inv, TypeOK
<1>5. \A d \in Call : executed[d] \in Nat
  BY DEF Inv, TypeOK
<1>6. /\ keys' = keys \/ keys' = [keys EXCEPT ![<<c, 1>>] = KeyLifetime]
      /\ since' = since \/ since' = [since EXCEPT ![c] = 0]
      /\ since' = since \/ keys' = [keys EXCEPT ![<<c, 1>>] = KeyLifetime]
  BY <1>3 DEF Execute
<1>7. TypeOK'
  <2>1. deleted' \in BOOLEAN
    BY DEF Execute
  <2>2. executed' \in [Call -> Nat]
    BY <1>1, <1>5 DEF Execute, Inv, TypeOK
  <2>3. KeyLifetime \in 0..KeyLifetime /\ 0 \in 0..KeyLifetime
    BY ClientAssumption
  <2>4. /\ keys' \in [Call \X Attempts -> 0..KeyLifetime]
        /\ since' \in [Call -> 0..KeyLifetime]
    BY <1>6, <2>3 DEF Inv, TypeOK
  <2>5. calls' \in [Call -> Goroutine]
    BY <1>2 DEF Inv, TypeOK
  <2> QED
    BY <1>1, <2>1, <2>2, <2>4, <2>5 DEF Inv, TypeOK
<1>8. \A d \in Call : Good(calls'[d])
  BY <1>2, <1>4 DEF Inv
<1>9. InTime(session') /\ TokenFits'
  BY <1>1 DEF Inv, TokenFits
<1>10. \A d \in Call, n \in Attempts : keys'[<<d, n>>] = keys[<<d, n>>] \/ d = c
  BY <1>3, <1>6 DEF Inv, TypeOK
<1>11. Accounted'
  <2>1. \A r \in wire' : r.key = <<r.call, 1>> /\ calls'[r.call].pc # "idle"
    <3>1. \A r \in wire : r.call \in Call
      BY DEF Inv, TypeOK, Request
    <3> QED
      BY <1>1, <1>2, <1>4, <3>1 DEF Inv, Accounted
  <2>2. \A d \in Call, n \in Attempts : keys'[<<d, n>>] > 0 => executed'[d] > 0
    BY <1>4, <1>5, <1>10 DEF Inv, Accounted
  <2>3. \A d \in Call : calls'[d].pc = "idle" => executed'[d] = 0
    BY <1>1, <1>2, <1>4 DEF Inv, Accounted
  <2> QED
    BY <2>1, <2>2, <2>3 DEF Accounted
<1>14. Remembered'
  <2> SUFFICES ASSUME NEW d \in Call PROVE keys'[<<d, 1>>] + since'[d] >= KeyLifetime
    BY DEF Remembered
  <2>1. /\ keys[<<d, 1>>] \in Nat /\ since[d] \in Nat /\ KeyLifetime \in Nat
        /\ since'[d] \in Nat /\ <<d, 1>> \in Call \X Attempts
    BY <1>7, NewCallGood, ClientAssumption DEF Inv, TypeOK
  <2>2. keys[<<d, 1>>] + since[d] >= KeyLifetime
    BY DEF Inv, Remembered
  <2>3. CASE d # c
    <3>1. keys'[<<d, 1>>] = keys[<<d, 1>>] /\ since'[d] = since[d]
      BY <1>1, <1>6, <1>10, <2>3, NewCallGood DEF Inv, TypeOK
    <3> QED
      BY <2>2, <3>1
  <2>4. CASE d = c /\ keys' = [keys EXCEPT ![<<c, 1>>] = KeyLifetime]
    <3>1. keys'[<<d, 1>>] = KeyLifetime
      BY <2>1, <2>4 DEF Inv, TypeOK
    <3> QED
      BY <2>1, <3>1
  <2>5. CASE keys' = keys /\ since' = since
    BY <2>2, <2>5
  <2> QED
    BY <1>6, <2>3, <2>4, <2>5
<1>12. SingleShot'
  <2> SUFFICES ASSUME NEW d \in Call, ~Repeats(calls'[d].retry)
               PROVE  /\ executed'[d] =< 1
                      /\ calls'[d].pc \in Unsent =>
                            executed'[d] = 0 /\ \A r \in wire' : r.call # d
                      /\ \A r \in wire' : r.call = d => executed'[d] = 0
                      /\ \A r, t \in wire' : r.call = d /\ t.call = d => r = t
    BY DEF SingleShot
  <2>1. CASE d # c
    BY <1>1, <1>4, <2>1 DEF Inv, SingleShot
  <2>2. CASE d = c
    <3>1. ~Repeats(calls[c].retry)
      BY <1>2, <1>4, <2>2
    <3>2. /\ executed[c] = 0 /\ calls[c].pc \notin Unsent
          /\ \A r \in wire : r.call = c => r = request
      BY <1>1, <3>1 DEF Inv, SingleShot
    <3>3. call.pc \notin Unsent
      BY <1>2, <3>2 DEF Unsent
    <3> QED
      BY <1>1, <1>4, <2>2, <3>2, <3>3
  <2> QED
    BY <2>1, <2>2
<1>13. ResultTrue'
  <2> SUFFICES ASSUME NEW d \in Call, calls'[d].result = "ok" PROVE executed'[d] > 0
    BY DEF ResultTrue
  <2> QED
    BY <1>4, <1>5 DEF Inv, ResultTrue
<1> QED
  BY <1>7, <1>8, <1>9, <1>11, <1>12, <1>13, <1>14 DEF Inv

\* The process dies: every call that had begun is over.
LEMMA DeathInv == ASSUME Inv, ConcurrentMapAccess PROVE Inv'
<1>1. \A c \in Call : calls'[c] = Killed(calls[c])
  BY DEF ConcurrentMapAccess
<1>2. \A c \in Call :
         /\ Good(calls'[c]) /\ calls'[c].op = calls[c].op
         /\ calls'[c].retry = calls[c].retry /\ calls'[c].result = calls[c].result
         /\ \/ calls'[c].pc = "idle" /\ calls[c].pc = "idle"
            \/ calls'[c].pc = "done" /\ calls[c].pc # "idle"
  <2> SUFFICES ASSUME NEW c \in Call, calls[c].pc # "idle"
               PROVE  /\ Good(Killed(calls[c])) /\ Killed(calls[c]).op = calls[c].op
                      /\ Killed(calls[c]).retry = calls[c].retry
                      /\ Killed(calls[c]).result = calls[c].result
                      /\ Killed(calls[c]).pc = "done"
    BY <1>1 DEF Killed, Inv
  <2>1. Killed(calls[c]) = [NewCall EXCEPT !.pc = "done", !.op = calls[c].op,
                               !.retry = calls[c].retry, !.result = calls[c].result]
    BY DEF Killed
  <2>2. Good(Killed(calls[c]))
    <3>1. /\ calls[c].op \in Operation /\ calls[c].retry \in RetryOption
          /\ calls[c].result \in Result
      BY CallType
    <3>2. Good([NewCall EXCEPT !.pc = "done", !.op = calls[c].op,
                               !.retry = calls[c].retry, !.result = calls[c].result])
      BY <3>1, ReturnedGood
    <3> QED
      BY <2>1, <3>2
  <2> QED
    BY <2>1, <2>2 DEF NewCall
<1>3. /\ session' = NoToken /\ dead' = TRUE
      /\ UNCHANGED <<wire, keys, deleted, executed, since>>
  BY DEF ConcurrentMapAccess
<1>4. calls' \in [Call -> Goroutine]
  BY <1>2 DEF ConcurrentMapAccess, Good
<1>5. TypeOK' /\ InTime(session') /\ TokenFits'
  BY <1>3, <1>4, NewCallGood DEF Inv, TypeOK, TokenFits
<1>6. \A r \in wire : r.call \in Call
  BY DEF Inv, TypeOK, Request
<1>7. Accounted'
  BY <1>2, <1>3, <1>6 DEF Inv, Accounted
<1>8. SingleShot'
  BY <1>2, <1>3 DEF Inv, SingleShot, Unsent
<1>9. ResultTrue' /\ Remembered'
  BY <1>2, <1>3 DEF Inv, ResultTrue, Remembered
<1> QED
  BY <1>2, <1>5, <1>7, <1>8, <1>9 DEF Inv

\* A token that ages stays in time.
LEMMA AgedInTime ==
    ASSUME NEW token \in Token, InTime(token)
    PROVE  Aged(token) \in Token /\ InTime(Aged(token))
<1>1. token.left \in Nat /\ token.honoured \in Nat /\ HttpTimeout \in Nat
  BY ClientAssumption DEF Token
<1>2. /\ Older(token.left) \in Nat /\ Older(token.honoured) \in Nat
      /\ Older(token.left) =< Older(token.honoured) + HttpTimeout
  BY <1>1 DEF Older, InTime
<1>3. /\ Aged(token) \in Token /\ Aged(token).left = Older(token.left)
      /\ Aged(token).honoured = Older(token.honoured)
  BY <1>2 DEF Aged, Token
<1> QED
  BY <1>2, <1>3 DEF InTime

\* Time passes.
LEMMA TickInv == ASSUME Inv, Tick PROVE Inv'
<1>1. \A c \in Call :
         /\ Good(calls'[c]) /\ calls'[c].op = calls[c].op
         /\ calls'[c].retry = calls[c].retry /\ calls'[c].result = calls[c].result
         /\ calls'[c].pc = calls[c].pc
  <2> SUFFICES ASSUME NEW c \in Call
               PROVE  /\ Good(calls'[c]) /\ calls'[c].op = calls[c].op
                      /\ calls'[c].retry = calls[c].retry
                      /\ calls'[c].result = calls[c].result
                      /\ calls'[c].pc = calls[c].pc
    OBVIOUS
  <2> DEFINE old == calls[c]
             elapsed == IF /\ old.pc \in {"token", "wait", "pause"}
                           /\ Repeats(old.retry) /\ old.elapsed =< MaxElapsed
                        THEN old.elapsed + 1 ELSE old.elapsed
             rest == CASE old.pc = "token" -> old.rest + 1
                       [] old.pc = "pause" -> Older(old.rest)
                       [] OTHER -> old.rest
  <2>1. calls'[c] = [old EXCEPT !.elapsed = elapsed, !.rest = rest]
    BY DEF Tick
  <2>2. /\ elapsed \in 0..(MaxElapsed + 1) /\ elapsed \in Int
        /\ elapsed = old.elapsed \/ elapsed = old.elapsed + 1
        /\ old.pc = "pause" /\ Repeats(old.retry) =>
              elapsed = old.elapsed + 1 \/ elapsed > MaxElapsed
    <3>1. old.elapsed \in 0..(MaxElapsed + 1) /\ MaxElapsed \in Nat
      BY CallType, ClientAssumption DEF Goroutine
    <3> QED
      BY <3>1
  <2>3. /\ rest \in Nat
        /\ old.pc = "token" => rest =< HttpTimeout
        /\ old.pc = "pause" => old.rest =< rest + 1
    <3>1. old.rest \in Nat /\ HttpTimeout \in Nat
      BY CallType, ClientAssumption
    <3>2. old.pc = "token" => old.rest < HttpTimeout
      BY DEF Tick
    <3>3. Older(old.rest) \in Nat /\ old.rest =< Older(old.rest) + 1
      BY <3>1 DEF Older
    <3>4. CASE old.pc = "token"
      BY <3>1, <3>2, <3>4
    <3>5. CASE old.pc = "pause"
      BY <3>3, <3>5
    <3> QED
      BY <3>1, <3>4, <3>5
  <2> HIDE DEF elapsed, rest
  <2>4. /\ calls'[c] \in Goroutine /\ calls'[c].op = old.op
        /\ calls'[c].retry = old.retry /\ calls'[c].result = old.result
        /\ calls'[c].pc = old.pc /\ calls'[c].attempt = old.attempt
        /\ calls'[c].elapsed = elapsed /\ calls'[c].rest = rest
        /\ calls'[c].token = old.token
    BY <2>1, <2>2, <2>3, CallType DEF Goroutine
  <2>5. old.pc # "lookup" /\ old.pc # "store"
    BY DEF Tick
  <2>6. /\ old.attempt \in Int /\ old.elapsed \in Int /\ old.rest \in Int
        /\ old.attempt =< old.elapsed + 1 /\ Good(old)
    BY CallType DEF Good
  <2>7. old.pc = "pause" => old.attempt =< elapsed + rest
    BY <2>2, <2>3, <2>6, ClientAssumption DEF Good
  <2>8. Good(calls'[c])
    BY <2>2, <2>3, <2>4, <2>5, <2>6, <2>7 DEF Good
  <2> QED
    BY <2>4, <2>8
<1>2. session' = Aged(session) /\ UNCHANGED <<dead, wire, deleted, executed>>
  BY DEF Tick
<1>3. session' \in Token /\ InTime(session')
  BY <1>2, AgedInTime DEF Inv, TypeOK
<1>4. calls' \in [Call -> Goroutine]
  BY <1>1 DEF Tick, Good
<1>5. \A k \in Call \X Attempts :
         /\ keys'[k] \in 0..KeyLifetime /\ keys[k] \in Nat
         /\ keys[k] =< keys'[k] + 1 /\ keys'[k] =< keys[k]
  <2> SUFFICES ASSUME NEW k \in Call \X Attempts
               PROVE  /\ keys'[k] \in 0..KeyLifetime /\ keys[k] \in Nat
                      /\ keys[k] =< keys'[k] + 1 /\ keys'[k] =< keys[k]
    OBVIOUS
  <2>1. keys[k] \in 0..KeyLifetime /\ k \in DOMAIN keys
    BY DEF Inv, TypeOK
  <2>2. keys'[k] = Older(keys[k])
    BY <2>1 DEF Tick
  <2>3. KeyLifetime \in Nat
    BY ClientAssumption
  <2> QED
    BY ONLY <2>1, <2>2, <2>3 DEF Older
<1>6. \A c \in Call :
         /\ since'[c] \in 0..KeyLifetime /\ since[c] \in Nat
         /\ since'[c] = since[c] + 1 \/ since'[c] = KeyLifetime
  <2> SUFFICES ASSUME NEW c \in Call
               PROVE  /\ since'[c] \in 0..KeyLifetime /\ since[c] \in Nat
                      /\ since'[c] = since[c] + 1 \/ since'[c] = KeyLifetime
    OBVIOUS
  <2>1. since[c] \in 0..KeyLifetime
    BY DEF Inv, TypeOK
  <2>2. since'[c] = IF since[c] < KeyLifetime THEN since[c] + 1 ELSE KeyLifetime
    BY DEF Tick
  <2>3. KeyLifetime \in Nat
    BY ClientAssumption
  <2> QED
    BY ONLY <2>1, <2>2, <2>3
<1>7. /\ keys' \in [Call \X Attempts -> 0..KeyLifetime]
      /\ since' \in [Call -> 0..KeyLifetime]
  BY <1>5, <1>6 DEF Tick, Inv, TypeOK
<1>8. TypeOK' /\ TokenFits'
  BY <1>2, <1>3, <1>4, <1>7 DEF Inv, TypeOK, TokenFits
<1>9. \A r \in wire : r.call \in Call
  BY DEF Inv, TypeOK, Request
<1>10. Accounted'
  <2>1. \A c \in Call, n \in Attempts : keys'[<<c, n>>] > 0 => keys[<<c, n>>] > 0
    BY <1>5
  <2> QED
    BY <1>1, <1>2, <1>9, <2>1 DEF Inv, Accounted
<1>11. Remembered'
  <2> SUFFICES ASSUME NEW c \in Call PROVE keys'[<<c, 1>>] + since'[c] >= KeyLifetime
    BY DEF Remembered
  <2>1. <<c, 1>> \in Call \X Attempts /\ KeyLifetime \in Nat
    BY NewCallGood, ClientAssumption
  <2>2. keys[<<c, 1>>] + since[c] >= KeyLifetime
    BY DEF Inv, Remembered
  <2> QED
    BY <1>5, <1>6, <2>1, <2>2
<1>12. SingleShot' /\ ResultTrue'
  BY <1>1, <1>2, <1>9 DEF Inv, SingleShot, ResultTrue
<1> QED
  BY <1>1, <1>3, <1>8, <1>10, <1>11, <1>12 DEF Inv

\* Every step keeps the invariant.
LEMMA NextInv == Inv /\ [Next]_vars => Inv'
<1> SUFFICES ASSUME Inv, [Next]_vars PROVE Inv'
  OBVIOUS
<1>1. CASE \E c \in Call : Operate(c) \/ Proceed(c) \/ Timeout(c)
  BY <1>1, OperateInv, FindSessionInv, doTokenRequestInv, StoreSessionInv,
     TokenResponseInv, ErrorInv, NextAttemptInv, TimeoutInv DEF Proceed
<1>2. CASE \E request \in wire :
             Execute(request) \/ AnswerAgain(request) \/ Refuse(request)
  BY <1>2, ExecuteInv, AnswerInv
<1>3. CASE ConcurrentMapAccess \/ Tick
  BY <1>3, DeathInv, TickInv
<1>4. CASE UNCHANGED vars
  BY <1>4 DEF vars, Inv, TypeOK, TokenFits, Accounted, Remembered, SingleShot,
               ResultTrue
<1> QED
  BY <1>1, <1>2, <1>3, <1>4 DEF Next

\* The inductive invariant holds in every state.
LEMMA InvHolds == Spec => []Inv
BY InitInv, NextInv, PTL DEF Spec

\* The state keeps its type; with it, utils.Retry makes no more attempts than
\* MaxElapsedTime has room for.
THEOREM ClientTypeCorrect == Spec => []TypeOK
<1>1. Inv => TypeOK
  BY DEF Inv
<1> QED
  BY <1>1, InvHolds, PTL

\* Every request carries a token with its scope that the server still honours,
\* however many goroutines overwrite the session of clientCredentialsHook.
THEOREM TokensFit == Spec => []TokenFits
<1>1. Inv => TokenFits
  BY DEF Inv
<1> QED
  BY <1>1, InvHolds, PTL

\* Only the server executes, one request at a time.
LEMMA OnlyExecute ==
    ASSUME Inv, [Next]_vars, NEW c \in Call, executed'[c] # executed[c]
    PROVE  \E request \in wire : Execute(request) /\ request.call = c
<1>1. ~(\E d \in Call : Operate(d) \/ Proceed(d) \/ Timeout(d))
  BY DEF Operate, Proceed, Timeout, Invoke, GetManyConfigs, GetDeliveries,
         GetDelivery, GetDeliveryAttempts, TestConfig, InsertConfig, UpdateConfig,
         ActivateConfig, DeactivateConfig, ChangeConfigSecret, DeleteConfig,
         ReplayDelivery, ReplayDeliveries, FindSession, doTokenRequest,
         StoreSession, TokenResponse, TokenError, TransportError, NextAttempt
<1>2. ~(\E request \in wire : AnswerAgain(request) \/ Refuse(request))
  BY DEF AnswerAgain, Refuse
<1>3. ~ConcurrentMapAccess /\ ~Tick /\ ~UNCHANGED vars
  BY DEF ConcurrentMapAccess, Tick, vars
<1>4. PICK request \in wire : Execute(request)
  BY <1>1, <1>2, <1>3 DEF Next
<1>5. request.call = c
  BY <1>4 DEF Execute, Inv, TypeOK
<1> QED
  BY <1>4, <1>5

\* A call without retries is executed once, and a replay under its
\* Idempotency-Key only again when the lifetime of the key has passed since the
\* server last executed it.
THEOREM CallsExecutedOnce == Spec => ExecutedOnce
<1> DEFINE Again(c) == executed[c] > 0 /\ executed'[c] > executed[c]
           Allowed(c) == /\ Repeats(calls[c].retry)
                         /\ calls[c].op.keyed => since[c] = KeyLifetime
<1>1. Inv /\ [Next]_vars => \A c \in Call : Again(c) => Allowed(c)
  <2> SUFFICES ASSUME Inv, [Next]_vars, NEW c \in Call, Again(c) PROVE Allowed(c)
    OBVIOUS
  <2>1. executed[c] \in Nat /\ executed'[c] # executed[c]
    BY DEF Inv, TypeOK
  <2>2. PICK request \in wire : Execute(request) /\ request.call = c
    BY <2>1, OnlyExecute
  <2>3. Repeats(calls[c].retry)
    BY <2>1, <2>2 DEF Inv, SingleShot
  <2>4. ASSUME calls[c].op.keyed PROVE since[c] = KeyLifetime
    <3>1. request.key = <<c, 1>>
      BY <2>2 DEF Inv, Accounted
    <3>2. keys[<<c, 1>>] = 0
      BY <2>2, <2>4, <3>1 DEF Execute
    <3>3. keys[<<c, 1>>] + since[c] >= KeyLifetime
      BY DEF Inv, Remembered
    <3>4. since[c] \in 0..KeyLifetime /\ KeyLifetime \in Nat
      BY ClientAssumption DEF Inv, TypeOK
    <3> QED
      BY <3>2, <3>3, <3>4
  <2> QED
    BY <2>3, <2>4
<1>2. Inv /\ [Next]_vars =>
        [\A c \in Call : executed[c] > 0 /\ executed'[c] > executed[c] =>
             /\ Repeats(calls[c].retry)
             /\ calls[c].op.keyed => since[c] = KeyLifetime]_vars
  BY <1>1
<1> QED
  BY <1>2, InvHolds, PTL DEF Spec, ExecutedOnce

\* A result is returned only for a call that was executed.
THEOREM ResultsTrue == Spec => []ResultTrue
<1>1. Inv => ResultTrue
  BY DEF Inv
<1> QED
  BY <1>1, InvHolds, PTL
=============================================================================
