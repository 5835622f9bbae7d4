------------------------------- MODULE Client -------------------------------
(***************************************************************************)
(* The Go client of the API (pkg/client): calls of several goroutines on   *)
(* one SDK value, with OAuth2 client credentials, retries and a timeout.   *)
(*                                                                         *)
(* A call runs attempts.  An attempt finds or obtains an access token in   *)
(* BeforeRequest, sends the request and waits for the answer; utils.Retry  *)
(* repeats it after a pause.  The goroutines share the map of sessions     *)
(* (one entry: the credentials do not change), which nothing synchronises. *)
(* A request may be lost, be handled after its caller gave up on it, or be *)
(* answered in vain.  Time counts in ticks of about a minute; the steps of *)
(* a goroutine between two waits take none.                                *)
(***************************************************************************)
EXTENDS Integers

CONSTANTS
    Call,           \* calls, each of a goroutine of its own
    GlobalRetry,    \* WithRetryConfig of the SDK
    Options,        \* WithRetries of each call: "nil" when it is not given
    MaxElapsed,     \* MaxElapsedTime of the backoff, in ticks; zero is no limit
    Intervals,      \* its pauses, in ticks
    Lifetimes,      \* lifetimes of access tokens, in ticks
    Margin,         \* the 60 seconds of hasTokenExpired
    HttpTimeout,    \* Timeout of the http.Client, also 60 seconds
    KeyLifetime     \* how long the server answers from an idempotency key

RetryOption == {"nil", "once", "backoff", "connection"}

ASSUME ClientAssumption ==
    /\ GlobalRetry \in RetryOption /\ Options \in [Call -> RetryOption]
    /\ MaxElapsed \in Nat \ {0} /\ Intervals \subseteq Nat \ {0} /\ Intervals # {}
    /\ HttpTimeout \in Nat /\ Margin \in Nat /\ HttpTimeout =< Margin
    /\ \A life \in Lifetimes : life \in Nat /\ life > HttpTimeout
    /\ KeyLifetime \in Nat \ {0}

VARIABLES
    calls,      \* the goroutine of each call
    session,    \* sessions[sessionKey]: an access token, or NoToken
    dead,       \* the runtime has killed the process
    wire,       \* requests sent and not yet handled by the server
    keys,       \* time each idempotency key of the server has left; 0 is none
    deleted,    \* the config the calls are about has been deleted
    executed,   \* history: how often the server executed each call
    since       \* history: time since it last did so under a key, as far as
                \* KeyLifetime

vars == <<calls, session, dead, wire, keys, deleted, executed, since>>

Scope == {"webhooks:read", "webhooks:write"}

\* What tells the operations of the API apart here: the scope they need, and
\* whether they carry an Idempotency-Key or can succeed only once.
Operation == [scope : Scope, keyed : BOOLEAN, once : BOOLEAN]
Reading == [scope |-> "webhooks:read", keyed |-> FALSE, once |-> FALSE]
Writing == [Reading EXCEPT !.scope = "webhooks:write"]
Keyed == [Writing EXCEPT !.keyed = TRUE]
Once == [Writing EXCEPT !.once = TRUE]

\* A token: its scopes, the time until ExpiresAt, and the time the server will
\* still honour it.
NoToken == [scopes |-> {}, left |-> 0, honoured |-> 0]
Token == [scopes : SUBSET Scope, left : Nat, honoured : Nat]

Pc == {"idle", "lookup", "token", "store", "wait", "pause", "done"}
Attempts == 1..(MaxElapsed + 1)
Result == {"none", "ok", "error"}

NewCall == [pc |-> "idle", op |-> Reading, retry |-> "nil", attempt |-> 1,
            elapsed |-> 0, rest |-> 0, late |-> FALSE, token |-> NoToken,
            result |-> "none"]

Goroutine == [pc : Pc, op : Operation, retry : RetryOption,
              attempt : Attempts, elapsed : 0..(MaxElapsed + 1), rest : Nat,
              late : BOOLEAN, token : Token, result : Result]

\* What the server gets to see of a request, and whether its token is good.
Request == [call : Call, attempt : Attempts, key : Call \X Attempts,
            covered : BOOLEAN, honoured : BOOLEAN]

TypeOK ==
    /\ calls \in [Call -> Goroutine]
    /\ session \in Token
    /\ dead \in BOOLEAN /\ deleted \in BOOLEAN
    /\ wire \subseteq Request
    /\ keys \in [Call \X Attempts -> 0..KeyLifetime]
    /\ executed \in [Call -> Nat] /\ since \in [Call -> 0..KeyLifetime]

Init ==
    /\ calls = [c \in Call |-> NewCall]
    /\ session = NoToken /\ dead = FALSE
    /\ wire = {} /\ keys = [k \in Call \X Attempts |-> 0] /\ deleted = FALSE
    /\ executed = [c \in Call |-> 0] /\ since = [c \in Call |-> KeyLifetime]
-----------------------------------------------------------------------------
(***************************************************************************)
(* The operations.  They share their code but for the request they make.   *)
(***************************************************************************)
\* The option of the call, or else the configuration of the SDK.
RetryConfig(option) == IF option = "nil" THEN GlobalRetry ELSE option

\* Without a backoff strategy utils.Retry runs the attempt once, like a call
\* without any configuration.
Repeats(retry) == retry \in {"backoff", "connection"}

Invoke(c, op) ==
    /\ ~dead /\ calls[c].pc = "idle"
    /\ calls' = [calls EXCEPT ![c] =
          [NewCall EXCEPT !.pc = "lookup", !.op = op,
                          !.retry = RetryConfig(Options[c])]]
    /\ UNCHANGED <<session, dead, wire, keys, deleted, executed, since>>

GetManyConfigs(c) == Invoke(c, Reading)
GetDeliveries(c) == Invoke(c, Reading)
GetDelivery(c) == Invoke(c, Reading)
GetDeliveryAttempts(c) == Invoke(c, Reading)
TestConfig(c) == Invoke(c, Reading)
InsertConfig(c) == Invoke(c, Writing)
UpdateConfig(c) == Invoke(c, Writing)
ActivateConfig(c) == Invoke(c, Writing)
DeactivateConfig(c) == Invoke(c, Writing)
ChangeConfigSecret(c) == Invoke(c, Writing)
DeleteConfig(c) == Invoke(c, Once)
ReplayDelivery(c) == Invoke(c, Keyed)
ReplayDeliveries(c) == Invoke(c, Keyed)
-----------------------------------------------------------------------------
(***************************************************************************)
(* The end of an attempt: a status, or an error of the transport.          *)
(***************************************************************************)
\* Errors take the place of a status: ones that call themselves temporary or a
\* timeout, and others.
Temporary == -1
Permanent == -2

RetriedStatus == {429, 500, 502, 503, 504}

Retryable(c, outcome) ==
    /\ Repeats(calls[c].retry)
    /\ \/ outcome \in RetriedStatus
       \/ outcome = Temporary /\ calls[c].retry = "connection"

\* Variant: any status below 500 is a success.
ResultLenient(outcome) == IF outcome \in 0..499 THEN "ok" ELSE "error"

ResultOf(outcome) == IF outcome = 200 THEN "ok" ELSE "error"

Returned(c, result) ==
    [calls EXCEPT ![c] = [NewCall EXCEPT !.pc = "done", !.op = calls[c].op,
                                         !.retry = calls[c].retry,
                                         !.result = result]]

\* Variant: the backoff has no limit.
NeverGivesUp(c, pause) == FALSE

\* NextBackOff answers Stop.
GivesUp(c, pause) == calls[c].elapsed + pause > MaxElapsed

\* What utils.Retry and the operation make of the outcome of an attempt.
Conclude(c, outcome) ==
    \/ /\ ~Retryable(c, outcome)
       /\ calls' = Returned(c, ResultOf(outcome))
    \/ /\ Retryable(c, outcome)
       /\ \E pause \in Intervals :
             calls' = IF GivesUp(c, pause) THEN Returned(c, ResultOf(outcome))
                      ELSE [calls EXCEPT ![c].pc = "pause", ![c].rest = pause]

\* The pause is not cut short by the timeout, which is looked at after it.
NextAttempt(c) ==
    /\ ~dead /\ calls[c].pc = "pause" /\ calls[c].rest = 0
    /\ calls' = IF calls[c].late THEN Returned(c, "error")
                ELSE [calls EXCEPT ![c].pc = "lookup", ![c].attempt = @ + 1]
    /\ UNCHANGED <<session, dead, wire, keys, deleted, executed, since>>

\* The timeout of the operation passes while it waits for something: the context
\* of its requests is done.
Timeout(c) ==
    /\ ~dead /\ calls[c].pc \in {"token", "wait", "pause"} /\ ~calls[c].late
    /\ calls' = [calls EXCEPT ![c].late = TRUE]
    /\ UNCHANGED <<session, dead, wire, keys, deleted, executed, since>>
-----------------------------------------------------------------------------
(***************************************************************************)
(* BeforeRequest of clientCredentialsHook, and Client.Do.                  *)
(***************************************************************************)
hasRequiredScopes(token, op) == op.scope \in token.scopes

\* Variant: the token is used up to its last second.
ExpiredLate(token) == token.left =< 0

hasTokenExpired(token) == token.left =< Margin

getScopes(op, token) == {op.scope} \cup token.scopes

\* Variant: a key of its own for every attempt.
KeyOfAttempt(c) == <<c, calls[c].attempt>>

\* The header is set once, before the first attempt.
IdempotencyKey(c) == <<c, 1>>

\* Do sends nothing when the context of the request is done already.
Do(c, token) ==
    \/ /\ calls[c].late
       /\ Conclude(c, Temporary) /\ UNCHANGED wire
    \/ /\ ~calls[c].late
       /\ calls' = [calls EXCEPT ![c].pc = "wait", ![c].token = NoToken]
       /\ wire' = wire \cup
             {[call |-> c, attempt |-> calls[c].attempt, key |-> IdempotencyKey(c),
               covered |-> hasRequiredScopes(token, calls[c].op),
               honoured |-> token.honoured > 0]}

Usable(c) ==
    hasRequiredScopes(session, calls[c].op) /\ ~hasTokenExpired(session)

FindSession(c) ==
    /\ ~dead /\ calls[c].pc = "lookup" /\ Usable(c)
    /\ Do(c, session)
    /\ UNCHANGED <<session, dead, keys, deleted, executed, since>>

\* The token request runs under the context of the caller, which has no timeout
\* of the SDK.
doTokenRequest(c) ==
    /\ ~dead /\ calls[c].pc = "lookup" /\ ~Usable(c)
    /\ calls' = [calls EXCEPT ![c].pc = "token",
                    ![c].token.scopes = getScopes(calls[c].op, session)]
    /\ UNCHANGED <<session, dead, wire, keys, deleted, executed, since>>

\* The answer was written "lag" ticks ago; it may leave out expires_in.
TokenResponse(c) ==
    /\ ~dead /\ calls[c].pc = "token"
    /\ \E life \in Lifetimes, lag \in 0..calls[c].rest, stated \in BOOLEAN :
          calls' = [calls EXCEPT ![c].pc = "store", ![c].rest = 0,
              ![c].token = [scopes |-> @.scopes, honoured |-> life - lag,
                            left |-> IF stated THEN life ELSE 0]]
    /\ UNCHANGED <<session, dead, wire, keys, deleted, executed, since>>

\* Variant: a token that cannot be had is asked for again.
TokenErrorRetried(c) ==
    /\ ~dead /\ calls[c].pc = "token"
    /\ calls' = [calls EXCEPT ![c].pc = "lookup", ![c].rest = 0]
    /\ UNCHANGED <<session, dead, wire, keys, deleted, executed, since>>

\* No answer, a bad status, a bad body: the call fails, whatever its retries.
TokenError(c) ==
    /\ ~dead /\ calls[c].pc = "token"
    /\ Conclude(c, Permanent)
    /\ UNCHANGED <<session, dead, wire, keys, deleted, executed, since>>

StoreSession(c) ==
    /\ ~dead /\ calls[c].pc = "store"
    /\ session' = calls[c].token
    /\ Do(c, calls[c].token)
    /\ UNCHANGED <<dead, keys, deleted, executed, since>>

\* A map written by one goroutine while another one uses it: the runtime may
\* notice, and then ends the process.
Killed(call) ==
    IF call.pc = "idle" THEN call
    ELSE [NewCall EXCEPT !.pc = "done", !.op = call.op, !.retry = call.retry,
                         !.result = call.result]

ConcurrentMapAccess ==
    /\ ~dead
    /\ \E c, d \in Call :
          c # d /\ calls[c].pc = "store" /\ calls[d].pc \in {"store", "lookup"}
    /\ dead' = TRUE
    /\ calls' = [c \in Call |-> Killed(calls[c])]
    /\ session' = NoToken
    /\ UNCHANGED <<wire, keys, deleted, executed, since>>
-----------------------------------------------------------------------------
(***************************************************************************)
(* The answer, or its absence.                                             *)
(***************************************************************************)
\* "default" is neither a status nor a range of them.
Codes == {}

MatchStatusCodes(codes, status) == status \in codes

\* AfterError drops the session when it gets to see a 401.
AfterError(status) ==
    session' = IF MatchStatusCodes(Codes, status) /\ status = 401
               THEN NoToken ELSE session

\* The answer reaches the call if it still waits for it.  The body of a success
\* may be unreadable.
Answer(request, status) ==
    LET c == request.call IN
    /\ wire' = wire \ {request}
    /\ \/ /\ ~dead /\ calls[c].pc = "wait"
          /\ calls[c].attempt = request.attempt
          /\ \/ Conclude(c, status)
             \/ status = 200 /\ calls' = Returned(c, "error")
          /\ AfterError(status)
       \/ UNCHANGED <<calls, session>>
    /\ UNCHANGED dead

TransportError(c) ==
    /\ ~dead /\ calls[c].pc = "wait"
    /\ \/ Conclude(c, Temporary)
       \/ ~calls[c].late /\ Conclude(c, Permanent)
    /\ UNCHANGED <<session, dead, wire, keys, deleted, executed, since>>

\* The server, as far as a call can tell.  A key that has lapsed is like none:
\* replayCached deletes it and the call is executed under it anew.
Execute(request) ==
    LET c == request.call
        op == calls[c].op
    IN
    /\ op.keyed => keys[request.key] = 0
    /\ op.once => ~deleted
    /\ Answer(request, 200)
    /\ executed' = [executed EXCEPT ![c] = @ + 1]
    /\ keys' = IF op.keyed THEN [keys EXCEPT ![request.key] = KeyLifetime] ELSE keys
    /\ since' = IF op.keyed THEN [since EXCEPT ![c] = 0] ELSE since
    /\ deleted' = (deleted \/ op.once)

AnswerAgain(request) ==
    /\ calls[request.call].op.keyed /\ keys[request.key] > 0
    /\ Answer(request, 200)
    /\ UNCHANGED <<keys, deleted, executed, since>>

\* Not found or not authorised, or not available: nothing is done.
Refuse(request) ==
    /\ \E status \in {401, 404, 503} : Answer(request, status)
    /\ UNCHANGED <<keys, deleted, executed, since>>
-----------------------------------------------------------------------------
Older(t) == IF t > 0 THEN t - 1 ELSE 0
Aged(token) ==
    [token EXCEPT !.left = Older(@), !.honoured = Older(@)]

\* A token request lasts as long as the http.Client lets it.
Tick ==
    /\ \A c \in Call : calls[c].pc \notin {"lookup", "store"}
    /\ \A c \in Call : calls[c].pc = "token" => calls[c].rest < HttpTimeout
    /\ session' = Aged(session)
    /\ calls' = [c \in Call |->
          LET call == calls[c] IN
          [call EXCEPT
             !.elapsed = IF /\ call.pc \in {"token", "wait", "pause"}
                            /\ Repeats(call.retry) /\ @ =< MaxElapsed
                         THEN @ + 1 ELSE @,
             !.rest = CASE call.pc = "token" -> @ + 1
                        [] call.pc = "pause" -> Older(@)
                        [] OTHER -> @]]
    /\ keys' = [k \in DOMAIN keys |-> Older(keys[k])]
    /\ since' = [c \in Call |-> IF since[c] < KeyLifetime THEN since[c] + 1
                               ELSE KeyLifetime]
    /\ UNCHANGED <<dead, wire, deleted, executed>>

Operate(c) ==
    \/ GetManyConfigs(c) \/ GetDeliveries(c) \/ GetDelivery(c)
    \/ GetDeliveryAttempts(c) \/ TestConfig(c) \/ InsertConfig(c)
    \/ UpdateConfig(c) \/ ActivateConfig(c) \/ DeactivateConfig(c)
    \/ ChangeConfigSecret(c) \/ DeleteConfig(c) \/ ReplayDelivery(c)
    \/ ReplayDeliveries(c)

Proceed(c) ==
    \/ FindSession(c) \/ doTokenRequest(c) \/ StoreSession(c)
    \/ TokenResponse(c) \/ TokenError(c) \/ TransportError(c)
    \/ NextAttempt(c)

Next ==
    \/ \E c \in Call : Operate(c) \/ Proceed(c) \/ Timeout(c)
    \/ \E request \in wire :
          Execute(request) \/ AnswerAgain(request) \/ Refuse(request)
    \/ ConcurrentMapAccess \/ Tick

\* A goroutine goes on, and an exchange ends, at the latest with the timeout of
\* the http.Client; time passes.
Fairness ==
    /\ \A c \in Call : WF_vars(Proceed(c))
    /\ WF_vars(Tick)

Spec == Init /\ [][Next]_vars /\ Fairness
-----------------------------------------------------------------------------
(***************************************************************************)
(* Properties                                                              *)
(***************************************************************************)

\* Every request of the API carries a token with the scope of its operation
\* that the server honours when it is sent, although goroutines overwrite each
\* other's session, tokens expire between attempts, and the answer with the
\* token was under way for a while.
TokenFits == \A r \in wire : r.covered /\ r.honoured

\* A call without retries is executed once, and a replay, which carries one
\* Idempotency-Key through all its attempts, only again when the lifetime of the
\* key has passed since: however often it is retried and in whatever order its
\* requests arrive.  Later than that a request does replay a second time, as the
\* server promises no more (docs/architecture.md: "for 24 hours").
ExecutedOnce ==
    [][\A c \in Call :
          executed[c] > 0 /\ executed'[c] > executed[c] =>
             /\ Repeats(calls[c].retry)
             /\ calls[c].op.keyed => since[c] = KeyLifetime]_vars

\* A call that returns a result has been executed, by this or an earlier one of
\* its attempts; a call that returns an error may have been.
ResultTrue == \A c \in Call : calls[c].result = "ok" => executed[c] > 0

\* A call comes back, unless the process dies: with the timeout or without, if
\* the token endpoint, the server or the network is slow, down or confused.
Returns == \A c \in Call : calls[c].pc # "idle" ~> (calls[c].pc = "done" \/ dead)
=============================================================================
