------------------------------ MODULE Deliveries ------------------------------
(***************************************************************************)
(* The durable delivery pipeline: one row of the table "deliveries" per    *)
(* event and config, moved through its life by the dispatchers of several  *)
(* worker processes, by their stale-claim recovery, by the configuration   *)
(* API and by manual replay.                                               *)
(*                                                                         *)
(* A PostgreSQL transaction that locks every row its decision reads is one *)
(* action.  Replay reads the config without locking it, so a replay is a   *)
(* begin and a commit, and the rows it holds FOR UPDATE are in "replays".  *)
(* The goroutine that handles one claimed delivery (dispatchOne) takes one *)
(* step per database call and per HTTP exchange; "job" holds its local     *)
(* copy of the row.                                                        *)
(*                                                                         *)
(* "now" is the database clock.  A worker or server reads its own clock,   *)
(* at most ClockSkew away.                                                 *)
(***************************************************************************)
EXTENDS Integers, FiniteSets

CONSTANTS
    Event,          \* identities of messages of the broker (msg.UUID)
    Config,         \* webhook configs
    Worker,         \* processes that run a DeliveryDispatcher
    MaxAttempts,    \* --max-attempts, positive
    AbortAfter,     \* --abort-after
    RetryDelay,     \* RetryDelay[n]: what resolveRetryDelay may return for n
    StaleAge,       \* staleDeliveryClaimAge
    BatchSize,      \* --retry-batch-size
    ClockSkew,      \* distance between the clocks of processes and database
    JobDeadline,    \* how long a dispatchOne may last, from its claim
    MaxTime,        \* bound on the clock
    MaxGeneration   \* bound on the replays of one delivery

\* ErrMaxAttemptsReached, as a result of resolveRetryDelay.
Exhausted == -1

\* The retry policy: a cap on attempts and, for each number of attempts
\* already made, the delays an answer of the endpoint can lead to.
ASSUME PolicyAssumption ==
    /\ MaxAttempts \in Nat \ {0}
    /\ AbortAfter \in Nat
    /\ RetryDelay \in [0..(MaxAttempts - 1) -> SUBSET (Nat \cup {Exhausted})]
    /\ RetryDelay[MaxAttempts - 1] = {Exhausted}

\* A claim outlives the disagreement between the clocks.
ASSUME ClockAssumption ==
    /\ StaleAge \in Nat
    /\ ClockSkew \in 0..StaleAge
    /\ JobDeadline \in Nat

ASSUME BoundAssumption ==
    /\ BatchSize \in Nat \ {0}
    /\ MaxTime \in Nat
    /\ MaxGeneration \in Nat

Delivery == Event \X Config
ConfigOf(d) == d[2]

VARIABLES
    deliveries,     \* the table deliveries, by (event_id, config_id)
    attempts,       \* the table delivery_attempts, by delivery
    configs,        \* the table configs: active, deleted_at
    job,            \* the dispatchOne goroutines of each worker
    replays,        \* open replay transactions: the rows each holds
    now             \* the clock of the database

vars == <<deliveries, attempts, configs, job, replays, now>>

-----------------------------------------------------------------------------
\* NULL in a timestamp column; the clocks never show it.
NoTime == 0

Status == {"none", "pending", "delivering", "succeeded", "failed", "cancelled"}
Row == [status : Status, attemptCount : Nat, replayGeneration : Nat,
        cycleStartedAt : Nat, nextAttemptAt : Nat, claimedAt : Nat]
NoRow == [status |-> "none", attemptCount |-> 0, replayGeneration |-> 0,
          cycleStartedAt |-> NoTime, nextAttemptAt |-> NoTime,
          claimedAt |-> NoTime]

Outcome == {"succeeded", "retryable_failure", "permanent_failure"}
Attempt == [generation : Nat, number : Nat, outcome : Outcome]

\* Where a dispatchOne is: before the lookup of its config, between lookup and
\* preflight, about to cancel, about to fail, between preflight and request,
\* inside the HTTP exchange, or with the answer in hand.
Pc == {"idle", "claimed", "checked", "cancelling", "failing", "ready",
       "sending", "completing"}
Job == [pc : Pc, delivery : Row]
NoJob == [pc |-> "idle", delivery |-> NoRow]

TypeOK ==
    /\ deliveries \in [Delivery -> Row]
    /\ attempts \in [Delivery -> SUBSET Attempt]
    /\ configs \in [Config -> {"absent", "active", "inactive", "deleted"}]
    /\ job \in [Worker -> [Delivery -> Job]]
    /\ replays \subseteq SUBSET Delivery
    /\ now \in Nat /\ now > ClockSkew

Init ==
    /\ deliveries = [d \in Delivery |-> NoRow]
    /\ attempts = [d \in Delivery |-> {}]
    /\ configs = [c \in Config |-> "absent"]
    /\ job = [w \in Worker |-> [d \in Delivery |-> NoJob]]
    /\ replays = {}
    /\ now = ClockSkew + 1

-----------------------------------------------------------------------------
Live(w, d) == job[w][d].pc # "idle"
Idle(w) == \A d \in Delivery : ~Live(w, d)
Active(c) == configs[c] = "active"

\* What a process may read as the time.
AppClock == (now - ClockSkew)..(now + ClockSkew)

\* Rows a replay holds FOR UPDATE, and those of them a statement that looks
\* for pending rows has to wait for.
Locked == UNION replays
Blocked(d) == d \in Locked /\ deliveries[d].status = "pending"

Step(w, d, pc) ==
    job' = [job EXCEPT ![w][d] = [pc |-> pc, delivery |-> @.delivery]]
Finish(w, d) == job' = [job EXCEPT ![w][d] = NoJob]
-----------------------------------------------------------------------------
(***************************************************************************)
(* Ingestion.  The broker delivers a message at least once; every active   *)
(* config that subscribes to the event type gets a row unless it has one.  *)
(* Event types of configs may be updated at any time, so the subscribers   *)
(* are any set of configs.                                                 *)
(***************************************************************************)
NewDelivery(createdAt) ==
    [NoRow EXCEPT !.status = "pending", !.nextAttemptAt = createdAt]

EnqueueEvent(e) ==
    /\ \E subscribers \in SUBSET Config, createdAt \in AppClock :
          deliveries' = [d \in Delivery |->
              IF /\ d[1] = e /\ ConfigOf(d) \in subscribers
                 /\ Active(ConfigOf(d))
                 /\ deliveries[d].status = "none"
              THEN NewDelivery(createdAt)
              ELSE deliveries[d]]
    /\ UNCHANGED <<attempts, configs, job, replays, now>>

(***************************************************************************)
(* The configuration API.  Deactivation and deletion cancel the pending    *)
(* rows of the config in the same transaction, waiting for those a replay  *)
(* holds.                                                                  *)
(***************************************************************************)
InsertOneConfig(c) ==
    /\ configs[c] = "absent"
    /\ configs' = [configs EXCEPT ![c] = "active"]
    /\ UNCHANGED <<deliveries, attempts, job, replays, now>>

Cancelled(row) ==
    [row EXCEPT !.status = "cancelled", !.nextAttemptAt = NoTime]

\* Variant: the pending rows are forgotten.
NoCancellation(c) == UNCHANGED deliveries

cancelPendingDeliveries(c) ==
    deliveries' = [d \in Delivery |->
        IF ConfigOf(d) = c /\ deliveries[d].status = "pending"
        THEN Cancelled(deliveries[d]) ELSE deliveries[d]]

SwitchOff(c, state) ==
    /\ \A d \in Delivery : ConfigOf(d) = c => ~Blocked(d)
    /\ configs' = [configs EXCEPT ![c] = state]
    /\ cancelPendingDeliveries(c)
    /\ UNCHANGED <<attempts, job, replays, now>>

Deactivate(c) == configs[c] = "active" /\ SwitchOff(c, "inactive")

DeleteOneConfig(c) ==
    configs[c] \in {"active", "inactive"} /\ SwitchOff(c, "deleted")

Activate(c) ==
    /\ configs[c] = "inactive"
    /\ configs' = [configs EXCEPT ![c] = "active"]
    /\ UNCHANGED <<deliveries, attempts, job, replays, now>>
-----------------------------------------------------------------------------
(***************************************************************************)
(* The dispatcher.  A worker claims a batch of due rows, the earliest      *)
(* first, and neither claims nor recovers again before its whole batch has *)
(* been handled.                                                           *)
(***************************************************************************)
Due == {d \in Delivery \ Locked :
            /\ deliveries[d].status = "pending"
            /\ deliveries[d].nextAttemptAt =< now
            /\ Active(ConfigOf(d))}

\* Variant: every claim opens a new retry window.
ClaimRestarting(row) ==
    [row EXCEPT !.status = "delivering", !.claimedAt = now,
                !.cycleStartedAt = now]

Claim(row) ==
    [row EXCEPT !.status = "delivering", !.claimedAt = now,
                !.cycleStartedAt = IF @ = NoTime THEN now ELSE @]

EarliestBatch(batch) ==
    /\ Cardinality(batch) =< BatchSize
    /\ Cardinality(batch) < BatchSize => batch = Due
    /\ \A d \in batch, e \in Due \ batch :
          deliveries[d].nextAttemptAt =< deliveries[e].nextAttemptAt

ClaimDeliveries(w) ==
    /\ Idle(w)
    /\ \E batch \in SUBSET Due :
          /\ batch # {}
          /\ EarliestBatch(batch)
          /\ deliveries' = [d \in Delivery |->
                IF d \in batch THEN Claim(deliveries[d]) ELSE deliveries[d]]
          /\ job' = [job EXCEPT ![w] = [d \in Delivery |->
                IF d \in batch
                THEN [pc |-> "claimed", delivery |-> Claim(deliveries[d])]
                ELSE NoJob]]
    /\ UNCHANGED <<attempts, configs, replays, now>>

\* dispatchOne reads the config of its delivery.
FindConfig(w, d) ==
    /\ job[w][d].pc = "claimed"
    /\ Step(w, d, IF Active(ConfigOf(d)) THEN "checked" ELSE "cancelling")
    /\ UNCHANGED <<deliveries, attempts, configs, replays, now>>

\* Variant: only the number of attempts is checked.
WithinAttempts(mine, t) == mine.attemptCount > 0 => mine.attemptCount < MaxAttempts

\* CanRetryAttempt and LimitRetryWindow, before the call.
WithinBudget(mine, t) ==
    /\ mine.attemptCount > 0 => mine.attemptCount < MaxAttempts
    /\ t - mine.cycleStartedAt =< AbortAfter

Preflight(w, d) ==
    /\ job[w][d].pc = "checked"
    /\ \E t \in AppClock :
          Step(w, d, IF WithinBudget(job[w][d].delivery, t)
                     THEN "ready" ELSE "failing")
    /\ UNCHANGED <<deliveries, attempts, configs, replays, now>>

\* MakeAttempt builds and signs the request and sends it, without another look
\* at the clock: a worker that was held up since the preflight sends all the same.
SendRequest(w, d) ==
    /\ job[w][d].pc = "ready"
    /\ Step(w, d, "sending")
    /\ UNCHANGED <<deliveries, attempts, configs, replays, now>>

(***************************************************************************)
(* The endpoint answers: classifyResponse decides what becomes of the row. *)
(***************************************************************************)
Settle(mine, status, next) ==
    [mine EXCEPT !.status = status, !.nextAttemptAt = next,
                 !.attemptCount = @ + 1]

\* Variants: the error of the policy is ignored; the status of the attempt is
\* written into the delivery.
RetryAlways(mine, t, delay) ==
    IF t + delay - mine.cycleStartedAt > AbortAfter
    THEN Settle(mine, "failed", NoTime)
    ELSE Settle(mine, "pending", t + delay)

RetryMisnamed(mine, t, delay) == Settle(mine, "to retry", t)

\* scheduleAttemptRetry: a retry, or a failure if it would come too late.
Retry(mine, t, delay) ==
    IF delay = Exhausted \/ t + delay - mine.cycleStartedAt > AbortAfter
    THEN Settle(mine, "failed", NoTime)
    ELSE Settle(mine, "pending", t + delay)

Answered(w, d, mine) ==
    /\ job' = [job EXCEPT ![w][d] = [pc |-> "completing", delivery |-> mine]]
    /\ UNCHANGED <<deliveries, attempts, configs, replays, now>>

Accepted(w, d) ==
    /\ job[w][d].pc = "sending"
    /\ Answered(w, d, Settle(job[w][d].delivery, "succeeded", NoTime))

Rejected(w, d) ==
    /\ job[w][d].pc = "sending"
    /\ Answered(w, d, Settle(job[w][d].delivery, "failed", NoTime))

Unavailable(w, d) ==
    /\ job[w][d].pc = "sending"
    /\ \E t \in AppClock :
       \E delay \in RetryDelay[job[w][d].delivery.attemptCount] :
          Answered(w, d, Retry(job[w][d].delivery, t, delay))
-----------------------------------------------------------------------------
(***************************************************************************)
(* The writes that end a dispatchOne.  Completion and failure are fenced   *)
(* by the claim timestamp, cancellation is not.                            *)
(***************************************************************************)
\* Variant: whoever comes first completes a claimed row.
HoldsAnyClaim(d, mine) == deliveries[d].status = "delivering"

HoldsClaim(d, mine) ==
    /\ deliveries[d].status = "delivering"
    /\ deliveries[d].claimedAt = mine.claimedAt

\* A result that is not a success is dropped when the config is off.
Resolved(d, mine) ==
    [IF mine.status # "succeeded" /\ ~Active(ConfigOf(d))
     THEN Cancelled(mine) ELSE mine
     EXCEPT !.claimedAt = NoTime]

AttemptOf(mine) ==
    [generation |-> mine.replayGeneration, number |-> mine.attemptCount,
     outcome |-> CASE mine.status = "succeeded" -> "succeeded"
                   [] mine.status = "pending"   -> "retryable_failure"
                   [] OTHER                     -> "permanent_failure"]

\* The unique index on (delivery_id, replay_generation, attempt_number).
IsNewAttempt(d, mine) ==
    \A a \in attempts[d] :
        a.generation # mine.replayGeneration \/ a.number # mine.attemptCount

\* The columns a completion writes: all but replay_generation.
Completed(d, mine) ==
    [Resolved(d, mine) EXCEPT
        !.replayGeneration = deliveries[d].replayGeneration]

CompleteDelivery(w, d) ==
    LET mine == job[w][d].delivery IN
    /\ job[w][d].pc = "completing"
    /\ IF HoldsClaim(d, mine) /\ IsNewAttempt(d, mine)
       THEN /\ deliveries' = [deliveries EXCEPT ![d] = Completed(d, mine)]
            /\ attempts' = [attempts EXCEPT ![d] = @ \cup {AttemptOf(mine)}]
       ELSE UNCHANGED <<deliveries, attempts>>
    /\ Finish(w, d)
    /\ UNCHANGED <<configs, replays, now>>

\* A row that leaves its claim for good, without an attempt.
Closed(row, status) ==
    [row EXCEPT !.status = status, !.claimedAt = NoTime,
                !.nextAttemptAt = NoTime]

CancelDelivery(w, d) ==
    /\ job[w][d].pc = "cancelling"
    /\ ~Blocked(d)
    /\ deliveries' =
          IF deliveries[d].status \in {"pending", "delivering"}
          THEN [deliveries EXCEPT ![d] = Closed(@, "cancelled")]
          ELSE deliveries
    /\ Finish(w, d)
    /\ UNCHANGED <<attempts, configs, replays, now>>

FailClaimedDelivery(w, d) ==
    /\ job[w][d].pc = "failing"
    /\ deliveries' =
          IF HoldsClaim(d, job[w][d].delivery)
          THEN [deliveries EXCEPT ![d] = Closed(@, "failed")]
          ELSE deliveries
    /\ Finish(w, d)
    /\ UNCHANGED <<attempts, configs, replays, now>>

\* An error return of dispatchOne, or the end of its process: nothing is
\* written.  A crash of the worker is this for each of its deliveries.
Abandon(w, d) ==
    /\ Live(w, d)
    /\ Finish(w, d)
    /\ UNCHANGED <<deliveries, attempts, configs, replays, now>>

(***************************************************************************)
(* Recovery of stale claims, by a worker between two batches.  Rows whose  *)
(* delivery or config another transaction holds are skipped.               *)
(***************************************************************************)
\* Variant: any claim counts as stale.
StaleAtOnce(d, t) ==
    deliveries[d].status = "delivering" /\ deliveries[d].claimedAt =< t

Stale(d, t) ==
    /\ deliveries[d].status = "delivering"
    /\ deliveries[d].claimedAt < t - StaleAge

\* Variant: the config is not looked at.
RecoveredBlindly(d) ==
    [deliveries[d] EXCEPT !.status = "pending", !.claimedAt = NoTime,
                          !.nextAttemptAt = now]

Recovered(d) ==
    IF Active(ConfigOf(d))
    THEN [deliveries[d] EXCEPT !.status = "pending", !.claimedAt = NoTime,
                               !.nextAttemptAt = now]
    ELSE Closed(deliveries[d], "cancelled")

RecoverStaleDeliveries(w) ==
    /\ Idle(w)
    /\ \E t \in AppClock : \E stale \in SUBSET {d \in Delivery : Stale(d, t)} :
          /\ stale # {}
          /\ deliveries' = [d \in Delivery |->
                IF d \in stale THEN Recovered(d) ELSE deliveries[d]]
    /\ UNCHANGED <<attempts, configs, job, replays, now>>
-----------------------------------------------------------------------------
(***************************************************************************)
(* Replay of one delivery or of a page of them: rows are locked, the       *)
(* configs are only read.                                                  *)
(***************************************************************************)
\* Variant: any terminal row may be replayed.
ReplayableTerminal(d) == deliveries[d].status \notin {"none", "delivering"}

Replayable(d) ==
    /\ deliveries[d].status \in {"failed", "pending"}
    /\ Active(ConfigOf(d))

\* Variant: the attempt counter survives a replay.
ReplayedCounting(row, t) ==
    IF row.status = "failed"
    THEN [row EXCEPT !.status = "pending", !.replayGeneration = @ + 1,
                     !.cycleStartedAt = NoTime, !.nextAttemptAt = t]
    ELSE [row EXCEPT !.nextAttemptAt = t]

Replayed(row, t) ==
    IF row.status = "failed"
    THEN [row EXCEPT !.status = "pending",
                     !.replayGeneration = @ + 1,
                     !.attemptCount = 0,
                     !.cycleStartedAt = NoTime,
                     !.nextAttemptAt = t,
                     !.claimedAt = NoTime]
    ELSE [row EXCEPT !.nextAttemptAt = t]

BeginReplay(rows) ==
    /\ rows # {} /\ rows \cap Locked = {}
    /\ \A d \in rows : Replayable(d)
    /\ \A d \in rows : deliveries[d].status = "failed" =>
          deliveries[d].replayGeneration < MaxGeneration
    /\ replays' = replays \cup {rows}
    /\ UNCHANGED <<deliveries, attempts, configs, job, now>>

CommitReplay(rows) ==
    /\ rows \in replays
    /\ \E t \in AppClock :
          deliveries' = [d \in Delivery |->
              IF d \in rows THEN Replayed(deliveries[d], t) ELSE deliveries[d]]
    /\ replays' = replays \ {rows}
    /\ UNCHANGED <<attempts, configs, job, now>>

AbortReplay(rows) ==
    /\ rows \in replays
    /\ replays' = replays \ {rows}
    /\ UNCHANGED <<deliveries, attempts, configs, job, now>>

\* Time passes, except beyond the deadline of a running dispatchOne.
Tick ==
    /\ now < MaxTime
    /\ \A w \in Worker, d \in Delivery :
          Live(w, d) => now < job[w][d].delivery.claimedAt + JobDeadline
    /\ now' = now + 1
    /\ UNCHANGED <<deliveries, attempts, configs, job, replays>>

-----------------------------------------------------------------------------
ConfigStep(c) ==
    InsertOneConfig(c) \/ Deactivate(c) \/ DeleteOneConfig(c) \/ Activate(c)

DispatchStep(w, d) ==
    \/ FindConfig(w, d) \/ Preflight(w, d) \/ SendRequest(w, d)
    \/ Accepted(w, d) \/ Rejected(w, d) \/ Unavailable(w, d)
    \/ CompleteDelivery(w, d) \/ CancelDelivery(w, d)
    \/ FailClaimedDelivery(w, d) \/ Abandon(w, d)

ReplayStep(rows) == BeginReplay(rows) \/ CommitReplay(rows) \/ AbortReplay(rows)

Next ==
    \/ \E e \in Event : EnqueueEvent(e)
    \/ \E c \in Config : ConfigStep(c)
    \/ \E w \in Worker : ClaimDeliveries(w) \/ RecoverStaleDeliveries(w)
    \/ \E w \in Worker, d \in Delivery : DispatchStep(w, d)
    \/ \E rows \in SUBSET Delivery : ReplayStep(rows)
    \/ Tick

Spec == Init /\ [][Next]_vars
-----------------------------------------------------------------------------
(***************************************************************************)
(* Properties                                                              *)
(***************************************************************************)
Numbers(d, g) == {a.number : a \in {b \in attempts[d] : b.generation = g}}

\* The audit log agrees with the row it explains: completions of any workers,
\* late ones included, leave attempts numbered 1..attempt_count in the current
\* generation, none of a later generation, and a success exactly when the row
\* says succeeded (CompleteDelivery writes both tables in one transaction,
\* fenced by claimed_at).
AttemptLedger ==
    \A d \in Delivery :
        /\ Numbers(d, deliveries[d].replayGeneration)
              = 1..deliveries[d].attemptCount
        /\ \A a \in attempts[d] :
              a.generation =< deliveries[d].replayGeneration
        /\ deliveries[d].status = "succeeded"
              <=> \E a \in attempts[d] : a.outcome = "succeeded"

\* Of the goroutines that handle a delivery, stalled ones included, at most
\* one carries the claim timestamp the row shows: a claim is never handed out
\* twice with the same claimed_at.
OneClaimHolder ==
    \A d \in Delivery, v, w \in Worker :
        /\ Live(v, d) /\ HoldsClaim(d, job[v][d].delivery)
        /\ Live(w, d) /\ HoldsClaim(d, job[w][d].delivery)
        => v = w

\* While every dispatchOne ends before its claim can be called stale, a
\* delivery is handled by one dispatcher at a time ("delivering: claimed by
\* one dispatcher"), and that dispatcher still holds it: no concurrent sends,
\* no late completion.
ExclusiveDispatch ==
    \A d \in Delivery, v, w \in Worker :
        Live(v, d) => /\ HoldsClaim(d, job[v][d].delivery)
                      /\ Live(w, d) => v = w

\* The retry budget: completed attempts of a generation never exceed
\* --max-attempts, and a row waits for a retry only while one is left.
RetryBudget ==
    \A d \in Delivery :
        /\ deliveries[d].attemptCount =< MaxAttempts
        /\ deliveries[d].status = "pending" =>
              deliveries[d].attemptCount < MaxAttempts

\* Switching a config off leaves no pending delivery behind, whatever enqueues,
\* completes or recovers one meanwhile, as long as the delivery has not been
\* replayed: a replay that is open at the time can (it does not lock the
\* config), and of a replayed delivery nothing is said.
OrphansOnlyFromReplay ==
    \A d \in Delivery :
        deliveries[d].status = "pending" /\ ~Active(ConfigOf(d)) =>
            deliveries[d].replayGeneration > 0

\* What the documents say of switching a config off: its pending deliveries
\* are cancelled (docs/architecture.md).
NoPendingWhenOff ==
    \A d \in Delivery :
        deliveries[d].status = "pending" => Active(ConfigOf(d))

\* Terminal rows stay: succeeded and cancelled for ever, failed until a replay
\* opens the next generation with a fresh budget and a fresh retry window.
TerminalStable ==
    [][\A d \in Delivery :
          LET row == deliveries[d] IN
          /\ row.status \in {"succeeded", "cancelled"} => deliveries'[d] = row
          /\ row.status = "failed" =>
                \/ deliveries'[d] = row
                \/ /\ deliveries'[d].status = "pending"
                   /\ deliveries'[d].replayGeneration
                         = row.replayGeneration + 1
                   /\ deliveries'[d].attemptCount = 0
                   /\ deliveries'[d].cycleStartedAt = NoTime]_vars

\* The retry window of a generation runs from its first claim: no recovery,
\* later claim, late completion or expedite restarts it or runs the attempt
\* counter backwards; only the next generation does.
WindowNeverRestarts ==
    [][\A d \in Delivery :
          LET row == deliveries[d] IN
          deliveries'[d].replayGeneration = row.replayGeneration =>
             /\ deliveries'[d].attemptCount \in
                   {row.attemptCount, row.attemptCount + 1}
             /\ row.cycleStartedAt # NoTime =>
                   deliveries'[d].cycleStartedAt = row.cycleStartedAt]_vars

\* Every row of the table keeps the contract of a delivery, as its columns and
\* its attempts show it: the claims, retries, recoveries, completions, replays
\* and cancellations of all processes together implement DeliveryContract.
Contract(d) == INSTANCE DeliveryContract WITH
    status <- deliveries[d].status,
    generation <- deliveries[d].replayGeneration,
    count <- deliveries[d].attemptCount,
    since <- deliveries[d].cycleStartedAt,
    log <- attempts[d]

RowsKeepContract ==
    /\ \A d \in Delivery : Contract(d)!Init
    /\ [][\A d \in Delivery : [Contract(d)!Next]_(Contract(d)!vars)]_vars
=============================================================================
