-------------------------- MODULE DeliveriesProofs --------------------------
(***************************************************************************)
(* Theorems about Deliveries, for all values of its constants.             *)
(***************************************************************************)
EXTENDS Deliveries, TLAPS

USE DEF NoTime, Exhausted

-----------------------------------------------------------------------------
(***************************************************************************)
(* What the operations on one row do.                                      *)
(***************************************************************************)

\* Every delivery belongs to a config.
LEMMA ConfigOfType == \A d \in Delivery : ConfigOf(d) \in Config
BY DEF Delivery, ConfigOf

\* The empty row and the absent goroutine have their types.
LEMMA NullTypes == NoRow \in Row /\ NoJob \in Job
BY DEF NoRow, NoJob, Row, Job, Status, Pc

\* The clock of a process shows a positive time, at most ClockSkew ahead.
LEMMA AppClockType ==
    ASSUME now \in Nat, now > ClockSkew
    PROVE  \A t \in AppClock : /\ t \in Nat /\ t > 0
                               /\ t =< now + ClockSkew /\ t >= now - ClockSkew
BY ClockAssumption DEF AppClock

\* A new row is pending and has no attempt behind it.
LEMMA NewRow ==
    ASSUME NEW t \in Nat
    PROVE  /\ NewDelivery(t) \in Row
           /\ NewDelivery(t).status = "pending"
           /\ NewDelivery(t).attemptCount = 0
           /\ NewDelivery(t).replayGeneration = 0
           /\ NewDelivery(t).cycleStartedAt = NoTime
           /\ NewDelivery(t).claimedAt = NoTime
BY DEF NewDelivery, NoRow, Row, Status

\* Cancelling a pending row touches neither count nor window.
LEMMA CancelledRow ==
    ASSUME NEW row \in Row
    PROVE  /\ Cancelled(row) \in Row
           /\ Cancelled(row).status = "cancelled"
           /\ Cancelled(row).attemptCount = row.attemptCount
           /\ Cancelled(row).replayGeneration = row.replayGeneration
           /\ Cancelled(row).cycleStartedAt = row.cycleStartedAt
           /\ Cancelled(row).claimedAt = row.claimedAt
BY DEF Cancelled, Row, Status

\* A claim stamps the row and opens the retry window if none is open.
LEMMA ClaimRow ==
    ASSUME NEW row \in Row, now \in Nat
    PROVE  /\ Claim(row) \in Row
           /\ Claim(row).status = "delivering"
           /\ Claim(row).claimedAt = now
           /\ Claim(row).attemptCount = row.attemptCount
           /\ Claim(row).replayGeneration = row.replayGeneration
           /\ Claim(row).nextAttemptAt = row.nextAttemptAt
           /\ row.cycleStartedAt # NoTime =>
                 Claim(row).cycleStartedAt = row.cycleStartedAt
BY DEF Claim, Row, Status

\* An answer of the endpoint changes status, next attempt and count only.
LEMMA SettleRow ==
    ASSUME NEW row \in Row, NEW s \in Status, NEW t \in Nat
    PROVE  /\ Settle(row, s, t) \in Row
           /\ Settle(row, s, t).status = s
           /\ Settle(row, s, t).attemptCount = row.attemptCount + 1
           /\ Settle(row, s, t).replayGeneration = row.replayGeneration
           /\ Settle(row, s, t).cycleStartedAt = row.cycleStartedAt
           /\ Settle(row, s, t).claimedAt = row.claimedAt
<1> DEFINE n == row.attemptCount + 1
<1>1. n \in Nat
  BY DEF Row
<1>2. Settle(row, s, t) = [row EXCEPT !.status = s, !.nextAttemptAt = t,
                                      !.attemptCount = n]
  BY DEF Settle
<1> HIDE DEF n
<1>3. /\ Settle(row, s, t) \in Row
      /\ Settle(row, s, t).status = s
      /\ Settle(row, s, t).attemptCount = n
      /\ Settle(row, s, t).replayGeneration = row.replayGeneration
      /\ Settle(row, s, t).cycleStartedAt = row.cycleStartedAt
      /\ Settle(row, s, t).claimedAt = row.claimedAt
  BY <1>1, <1>2 DEF Row
<1> QED BY <1>3 DEF n

\* A retryable answer leads to a failure or, with attempts left, to a retry.
LEMMA RetryRow ==
    ASSUME NEW row \in Row, row.attemptCount < MaxAttempts,
           NEW t \in Nat, NEW delay \in RetryDelay[row.attemptCount]
    PROVE  /\ Retry(row, t, delay) \in Row
           /\ Retry(row, t, delay).status \in {"failed", "pending"}
           /\ Retry(row, t, delay).status = "pending" =>
                 row.attemptCount + 1 < MaxAttempts
           /\ Retry(row, t, delay).attemptCount = row.attemptCount + 1
           /\ Retry(row, t, delay).replayGeneration = row.replayGeneration
           /\ Retry(row, t, delay).cycleStartedAt = row.cycleStartedAt
           /\ Retry(row, t, delay).claimedAt = row.claimedAt
<1>1. /\ row.attemptCount \in 0..(MaxAttempts - 1)
      /\ row.cycleStartedAt \in Nat
  BY PolicyAssumption DEF Row
<1>2. delay \in Nat \cup {Exhausted}
  BY <1>1, PolicyAssumption
<1>3. delay # Exhausted => row.attemptCount + 1 < MaxAttempts /\ t + delay \in Nat
  BY <1>1, <1>2, PolicyAssumption
<1>4. "failed" \in Status /\ "pending" \in Status /\ NoTime \in Nat
  BY DEF Status
<1> DEFINE new == Retry(row, t, delay)
<1>5. \/ new = Settle(row, "failed", NoTime)
      \/ row.attemptCount + 1 < MaxAttempts /\ t + delay \in Nat
            /\ new = Settle(row, "pending", t + delay)
  BY <1>3 DEF Retry
<1>6. PICK s \in {"failed", "pending"}, next \in Nat :
         /\ new = Settle(row, s, next)
         /\ s = "pending" => row.attemptCount + 1 < MaxAttempts
  BY <1>4, <1>5
<1> HIDE DEF new
<1>7. s \in Status
  BY <1>4
<1>8. new \in Row /\ new.status = s
  BY <1>6, <1>7, SettleRow
<1>9. new.attemptCount = row.attemptCount + 1
  BY <1>6, <1>7, SettleRow
<1>10. /\ new.replayGeneration = row.replayGeneration
       /\ new.cycleStartedAt = row.cycleStartedAt
       /\ new.claimedAt = row.claimedAt
  BY <1>6, <1>7, SettleRow
<1> QED BY <1>6, <1>8, <1>9, <1>10 DEF new

\* A completion releases the claim, keeps the generation of the row, and writes
\* the count and the window of the goroutine.
LEMMA CompletedRow ==
    ASSUME NEW d \in Delivery, NEW mine \in Row, deliveries[d] \in Row
    PROVE  /\ Completed(d, mine) \in Row
           /\ Completed(d, mine).status =
                 IF mine.status # "succeeded" /\ ~Active(ConfigOf(d))
                 THEN "cancelled" ELSE mine.status
           /\ Completed(d, mine).attemptCount = mine.attemptCount
           /\ Completed(d, mine).replayGeneration = deliveries[d].replayGeneration
           /\ Completed(d, mine).cycleStartedAt = mine.cycleStartedAt
           /\ Completed(d, mine).claimedAt = NoTime
BY DEF Completed, Resolved, Cancelled, Row, Status

\* Closing a row releases the claim and touches neither count nor window.
LEMMA ClosedRow ==
    ASSUME NEW row \in Row, NEW s \in Status
    PROVE  /\ Closed(row, s) \in Row
           /\ Closed(row, s).status = s
           /\ Closed(row, s).attemptCount = row.attemptCount
           /\ Closed(row, s).replayGeneration = row.replayGeneration
           /\ Closed(row, s).cycleStartedAt = row.cycleStartedAt
           /\ Closed(row, s).claimedAt = NoTime
BY DEF Closed, Row

\* A recovery releases the claim and touches neither count nor window.
LEMMA RecoveredRow ==
    ASSUME NEW d \in Delivery, deliveries[d] \in Row, now \in Nat
    PROVE  /\ Recovered(d) \in Row
           /\ Recovered(d).status =
                 IF Active(ConfigOf(d)) THEN "pending" ELSE "cancelled"
           /\ Recovered(d).attemptCount = deliveries[d].attemptCount
           /\ Recovered(d).replayGeneration = deliveries[d].replayGeneration
           /\ Recovered(d).cycleStartedAt = deliveries[d].cycleStartedAt
           /\ Recovered(d).claimedAt = NoTime
BY DEF Recovered, Closed, Row, Status

\* A replay opens a generation for a failed row and expedites any other.
LEMMA ReplayedRow ==
    ASSUME NEW row \in Row, NEW t \in Nat
    PROVE  /\ Replayed(row, t) \in Row
           /\ row.status = "failed" =>
                 /\ Replayed(row, t).status = "pending"
                 /\ Replayed(row, t).attemptCount = 0
                 /\ Replayed(row, t).replayGeneration = row.replayGeneration + 1
                 /\ Replayed(row, t).cycleStartedAt = NoTime
                 /\ Replayed(row, t).claimedAt = NoTime
           /\ row.status # "failed" =>
                 /\ Replayed(row, t).status = row.status
                 /\ Replayed(row, t).attemptCount = row.attemptCount
                 /\ Replayed(row, t).replayGeneration = row.replayGeneration
                 /\ Replayed(row, t).cycleStartedAt = row.cycleStartedAt
                 /\ Replayed(row, t).claimedAt = row.claimedAt
<1> DEFINE g == row.replayGeneration + 1
<1>1. g \in Nat
  BY DEF Row
<1>2. CASE row.status = "failed"
  <2>1. Replayed(row, t) =
          [row EXCEPT !.status = "pending", !.replayGeneration = g,
                      !.attemptCount = 0, !.cycleStartedAt = NoTime,
                      !.nextAttemptAt = t, !.claimedAt = NoTime]
    BY <1>2 DEF Replayed
  <2> HIDE DEF g
  <2>2. Replayed(row, t) =
          [status |-> "pending", attemptCount |-> 0, replayGeneration |-> g,
           cycleStartedAt |-> NoTime, nextAttemptAt |-> t,
           claimedAt |-> NoTime]
    BY <1>1, <2>1 DEF Row, Status
  <2>3. Replayed(row, t) \in Row
    BY <1>1, <2>2 DEF Row, Status
  <2> QED BY <1>2, <2>2, <2>3 DEF g
<1>3. CASE row.status # "failed"
  BY <1>3 DEF Replayed, Row, Status
<1> QED BY <1>2, <1>3
-----------------------------------------------------------------------------
(***************************************************************************)
(* What the steps of a dispatchOne do to the table of goroutines.          *)
(***************************************************************************)

\* Replacing one goroutine leaves all others alone.
LEMMA JobUpdate ==
    ASSUME job \in [Worker -> [Delivery -> Job]],
           NEW w \in Worker, NEW d \in Delivery, NEW j \in Job,
           job' = [job EXCEPT ![w][d] = j]
    PROVE  /\ job' \in [Worker -> [Delivery -> Job]]
           /\ job'[w][d] = j
           /\ \A v \in Worker, e \in Delivery :
                 v # w \/ e # d => job'[v][e] = job[v][e]
OBVIOUS

\* A goroutine that moves on keeps its copy of the row.
LEMMA StepUpdate ==
    ASSUME job \in [Worker -> [Delivery -> Job]],
           NEW w \in Worker, NEW d \in Delivery, NEW pc \in Pc,
           Step(w, d, pc)
    PROVE  LET j == [pc |-> pc, delivery |-> job[w][d].delivery] IN
           j \in Job /\ job' = [job EXCEPT ![w][d] = j]
BY DEF Step, Job
-----------------------------------------------------------------------------
(***************************************************************************)
(* Types and the retry budget.  They are proved together: the delay a      *)
(* policy returns is known only while attempts are left.                   *)
(***************************************************************************)
GoodRow(row) ==
    /\ row.attemptCount =< MaxAttempts
    /\ row.status \in {"none", "pending", "delivering"} =>
          row.attemptCount < MaxAttempts

GoodJob(j) ==
    /\ j.pc \notin {"idle", "completing"} => j.delivery.attemptCount < MaxAttempts
    /\ j.pc = "completing" =>
          /\ j.delivery.status \in {"succeeded", "failed", "pending"}
          /\ GoodRow(j.delivery)

Base ==
    /\ TypeOK
    /\ \A d \in Delivery : GoodRow(deliveries[d])
    /\ \A w \in Worker, d \in Delivery : GoodJob(job[w][d])

\* The initial state is well typed and within budget.
LEMMA BaseInit == Init => Base
<1> SUFFICES ASSUME Init PROVE Base
  OBVIOUS
<1>1. TypeOK
  BY NullTypes, ClockAssumption DEF Init, TypeOK
<1>2. GoodRow(NoRow) /\ GoodJob(NoJob)
  BY PolicyAssumption DEF GoodRow, GoodJob, NoRow, NoJob
<1> QED BY <1>1, <1>2 DEF Base, Init

\* A goroutine may be replaced by any good one.
LEMMA BaseJob ==
    ASSUME Base, NEW w \in Worker, NEW d \in Delivery, NEW j \in Job,
           GoodJob(j), job' = [job EXCEPT ![w][d] = j],
           UNCHANGED <<deliveries, attempts, configs, replays, now>>
    PROVE  Base'
<1>1. /\ job' \in [Worker -> [Delivery -> Job]]
      /\ \A v \in Worker, e \in Delivery :
            job'[v][e] = j \/ job'[v][e] = job[v][e]
  BY JobUpdate DEF Base, TypeOK
<1>2. TypeOK'
  BY <1>1 DEF Base, TypeOK
<1>3. \A v \in Worker, e \in Delivery : GoodJob(job'[v][e])
  BY <1>1 DEF Base
<1> QED BY <1>2, <1>3 DEF Base, GoodJob, GoodRow

\* Rows may be replaced by any good ones.
LEMMA BaseRows ==
    ASSUME Base, deliveries' \in [Delivery -> Row],
           \A d \in Delivery : GoodRow(deliveries'[d]),
           UNCHANGED <<attempts, job, now>>,
           configs' \in [Config -> {"absent", "active", "inactive", "deleted"}],
           replays' \subseteq SUBSET Delivery
    PROVE  Base'
BY DEF Base, TypeOK, GoodJob, GoodRow

\* A goroutine that ends leaves a good table behind.
LEMMA FinishJob ==
    ASSUME Base, NEW w \in Worker, NEW d \in Delivery, Finish(w, d)
    PROVE  /\ job' \in [Worker -> [Delivery -> Job]]
           /\ job'[w][d] = NoJob
           /\ \A v \in Worker, e \in Delivery :
                 v # w \/ e # d => job'[v][e] = job[v][e]
           /\ \A v \in Worker, e \in Delivery : GoodJob(job'[v][e])
<1>1. /\ job' \in [Worker -> [Delivery -> Job]]
      /\ job'[w][d] = NoJob
      /\ \A v \in Worker, e \in Delivery :
            v # w \/ e # d => job'[v][e] = job[v][e]
  BY JobUpdate, NullTypes DEF Base, TypeOK, Finish
<1>2. GoodJob(NoJob)
  BY DEF GoodJob, NoJob
<1> QED BY <1>1, <1>2 DEF Base

\* Every step keeps types and budget.
LEMMA BaseNext == Base /\ [Next]_vars => Base'
<1> SUFFICES ASSUME Base, [Next]_vars PROVE Base'
  OBVIOUS
<1> USE DEF Base
<1>t. \A t \in AppClock : t \in Nat
  BY AppClockType DEF TypeOK
<1>1. ASSUME NEW e \in Event, EnqueueEvent(e) PROVE Base'
  <2>1. PICK subscribers \in SUBSET Config, createdAt \in AppClock :
          deliveries' = [d \in Delivery |->
              IF /\ d[1] = e /\ ConfigOf(d) \in subscribers
                 /\ Active(ConfigOf(d))
                 /\ deliveries[d].status = "none"
              THEN NewDelivery(createdAt)
              ELSE deliveries[d]]
    BY <1>1 DEF EnqueueEvent
  <2>2. NewDelivery(createdAt) \in Row /\ GoodRow(NewDelivery(createdAt))
    BY <1>t, PolicyAssumption, NewRow DEF GoodRow
  <2>3. /\ deliveries' \in [Delivery -> Row]
        /\ \A d \in Delivery : GoodRow(deliveries'[d])
    BY <2>1, <2>2 DEF TypeOK
  <2> QED BY <1>1, <2>3, BaseRows DEF EnqueueEvent, TypeOK
<1>2. ASSUME NEW c \in Config, ConfigStep(c) PROVE Base'
  <2>1. configs' \in [Config -> {"absent", "active", "inactive", "deleted"}]
    BY <1>2 DEF ConfigStep, InsertOneConfig, Deactivate, DeleteOneConfig,
                Activate, SwitchOff, TypeOK
  <2>2. CASE InsertOneConfig(c) \/ Activate(c)
    BY <2>1, <2>2, BaseRows DEF InsertOneConfig, Activate, TypeOK
  <2>3. CASE Deactivate(c) \/ DeleteOneConfig(c)
    <3>1. \A d \in Delivery : /\ Cancelled(deliveries[d]) \in Row
                              /\ GoodRow(Cancelled(deliveries[d]))
      BY CancelledRow DEF TypeOK, GoodRow
    <3>2. deliveries' = [d \in Delivery |->
              IF ConfigOf(d) = c /\ deliveries[d].status = "pending"
              THEN Cancelled(deliveries[d]) ELSE deliveries[d]]
      BY <2>3 DEF Deactivate, DeleteOneConfig, SwitchOff,
                  cancelPendingDeliveries
    <3>3. /\ deliveries' \in [Delivery -> Row]
          /\ \A d \in Delivery : GoodRow(deliveries'[d])
      BY <3>1, <3>2 DEF TypeOK
    <3> QED BY <2>1, <2>3, <3>3, BaseRows
            DEF Deactivate, DeleteOneConfig, SwitchOff, TypeOK
  <2> QED BY <1>2, <2>2, <2>3 DEF ConfigStep
<1>3. ASSUME NEW w \in Worker, ClaimDeliveries(w) PROVE Base'
  <2>1. PICK batch \in SUBSET Due :
          /\ deliveries' = [d \in Delivery |->
                IF d \in batch THEN Claim(deliveries[d]) ELSE deliveries[d]]
          /\ job' = [job EXCEPT ![w] = [d \in Delivery |->
                IF d \in batch
                THEN [pc |-> "claimed", delivery |-> Claim(deliveries[d])]
                ELSE NoJob]]
    BY <1>3 DEF ClaimDeliveries
  <2>2. \A d \in batch :
          /\ Claim(deliveries[d]) \in Row
          /\ Claim(deliveries[d]).status = "delivering"
          /\ Claim(deliveries[d]).attemptCount < MaxAttempts
    BY ClaimRow DEF TypeOK, Due, GoodRow
  <2>7. \A d \in batch : GoodRow(Claim(deliveries[d]))
    BY ClaimRow DEF TypeOK, Due, GoodRow
  <2>3. /\ deliveries' \in [Delivery -> Row]
        /\ \A d \in Delivery : GoodRow(deliveries'[d])
    BY <2>1, <2>2, <2>7 DEF TypeOK
  <2>4. \A d \in batch :
          LET j == [pc |-> "claimed", delivery |-> Claim(deliveries[d])] IN
          j \in Job /\ GoodJob(j)
    BY <2>2 DEF Job, Pc, GoodJob
  <2>5. GoodJob(NoJob)
    BY DEF GoodJob, NoJob
  <2>6. /\ job' \in [Worker -> [Delivery -> Job]]
        /\ \A v \in Worker, d \in Delivery : GoodJob(job'[v][d])
    BY <2>1, <2>4, <2>5, NullTypes DEF TypeOK
  <2> QED BY <1>3, <2>3, <2>6 DEF ClaimDeliveries, TypeOK, GoodRow, GoodJob
<1>4. ASSUME NEW w \in Worker, RecoverStaleDeliveries(w) PROVE Base'
  <2>1. PICK stale \in SUBSET Delivery :
          /\ \A d \in stale : deliveries[d].status = "delivering"
          /\ deliveries' = [d \in Delivery |->
                IF d \in stale THEN Recovered(d) ELSE deliveries[d]]
    BY <1>4 DEF RecoverStaleDeliveries, Stale
  <2>2. \A d \in stale : Recovered(d) \in Row /\ GoodRow(Recovered(d))
    BY <2>1, RecoveredRow DEF TypeOK, GoodRow
  <2>3. /\ deliveries' \in [Delivery -> Row]
        /\ \A d \in Delivery : GoodRow(deliveries'[d])
    BY <2>1, <2>2 DEF TypeOK
  <2> QED BY <1>4, <2>3, BaseRows DEF RecoverStaleDeliveries, TypeOK
<1>5. ASSUME NEW w \in Worker, NEW d \in Delivery, DispatchStep(w, d)
      PROVE  Base'
  <2> DEFINE mine == job[w][d].delivery
  <2>0. job[w][d] \in Job /\ mine \in Row /\ GoodJob(job[w][d])
    BY DEF TypeOK, Job
  <2>1. CASE FindConfig(w, d) \/ Preflight(w, d) \/ SendRequest(w, d)
    <3>1. PICK pc \in Pc \ {"idle", "completing"} : Step(w, d, pc)
      BY <2>1 DEF FindConfig, Preflight, SendRequest, Pc
    <3>2. GoodJob([pc |-> pc, delivery |-> mine])
      BY <2>0, <2>1, <3>1 DEF FindConfig, Preflight, SendRequest, GoodJob
    <3> DEFINE j == [pc |-> pc, delivery |-> mine]
    <3>3. j \in Job /\ job' = [job EXCEPT ![w][d] = j]
      BY <3>1, StepUpdate DEF TypeOK
    <3>4. UNCHANGED <<deliveries, attempts, configs, replays, now>>
      BY <2>1 DEF FindConfig, Preflight, SendRequest
    <3> HIDE DEF j
    <3> QED BY <3>2, <3>3, <3>4, BaseJob DEF j
  <2>2. ASSUME NEW new \in Row, job[w][d].pc = "sending", Answered(w, d, new),
               new.status \in {"succeeded", "failed", "pending"},
               new.attemptCount = mine.attemptCount + 1,
               new.status = "pending" => mine.attemptCount + 1 < MaxAttempts
        PROVE  Base'
    <3>1. [pc |-> "completing", delivery |-> new] \in Job
      BY DEF Job, Pc
    <3>2. mine.attemptCount \in Nat /\ mine.attemptCount < MaxAttempts
      BY <2>0, <2>2 DEF GoodJob, Row
    <3>3. GoodRow(new)
      BY <2>2, <3>2, PolicyAssumption DEF GoodRow
    <3>4. GoodJob([pc |-> "completing", delivery |-> new])
      BY <2>2, <3>3 DEF GoodJob
    <3> QED BY <2>2, <3>1, <3>4, BaseJob DEF Answered
  <2>3. CASE Accepted(w, d)
    <3>1. "succeeded" \in Status /\ NoTime \in Nat
      BY DEF Status
    <3>2. /\ Settle(mine, "succeeded", NoTime) \in Row
          /\ Settle(mine, "succeeded", NoTime).status = "succeeded"
      BY <2>0, <3>1, SettleRow
    <3>3. Settle(mine, "succeeded", NoTime).attemptCount = mine.attemptCount + 1
      BY <2>0, <3>1, SettleRow
    <3> QED BY <2>2, <2>3, <3>2, <3>3 DEF Accepted
  <2>4. CASE Rejected(w, d)
    <3>1. "failed" \in Status /\ NoTime \in Nat
      BY DEF Status
    <3>2. /\ Settle(mine, "failed", NoTime) \in Row
          /\ Settle(mine, "failed", NoTime).status = "failed"
      BY <2>0, <3>1, SettleRow
    <3>3. Settle(mine, "failed", NoTime).attemptCount = mine.attemptCount + 1
      BY <2>0, <3>1, SettleRow
    <3> QED BY <2>2, <2>4, <3>2, <3>3 DEF Rejected
  <2>5. CASE Unavailable(w, d)
    <3>1. PICK t \in AppClock : \E delay \in RetryDelay[mine.attemptCount] :
             Answered(w, d, Retry(mine, t, delay))
      BY <2>5 DEF Unavailable
    <3>2. PICK delay \in RetryDelay[mine.attemptCount] :
             Answered(w, d, Retry(mine, t, delay))
      BY <3>1
    <3>3. mine.attemptCount < MaxAttempts /\ t \in Nat
      BY <1>t, <2>0, <2>5 DEF Unavailable, GoodJob
    <3>4. /\ Retry(mine, t, delay) \in Row
          /\ Retry(mine, t, delay).status \in {"failed", "pending"}
      BY <2>0, <3>3, RetryRow
    <3>5. /\ Retry(mine, t, delay).attemptCount = mine.attemptCount + 1
          /\ Retry(mine, t, delay).status = "pending" =>
                mine.attemptCount + 1 < MaxAttempts
      BY <2>0, <3>3, RetryRow
    <3> QED BY <2>2, <2>5, <3>2, <3>4, <3>5 DEF Unavailable
  <2>6. CASE CompleteDelivery(w, d)
    <3>1. AttemptOf(mine) \in Attempt
      BY <2>0 DEF AttemptOf, Attempt, Outcome, Row
    <3>2. Completed(d, mine) \in Row /\ GoodRow(Completed(d, mine))
      <4>1. GoodRow(mine) /\ mine.status \in {"succeeded", "failed", "pending"}
        BY <2>0, <2>6 DEF CompleteDelivery, GoodJob
      <4> QED BY <2>0, <4>1, CompletedRow DEF GoodRow, TypeOK
    <3>3. /\ deliveries' \in [Delivery -> Row]
          /\ attempts' \in [Delivery -> SUBSET Attempt]
          /\ \A e \in Delivery : GoodRow(deliveries'[e])
      BY <2>6, <3>1, <3>2 DEF CompleteDelivery, TypeOK
    <3> QED BY <2>6, <3>3, FinishJob
            DEF CompleteDelivery, TypeOK, GoodRow, GoodJob
  <2>7. CASE CancelDelivery(w, d) \/ FailClaimedDelivery(w, d)
    <3>1. \A s \in {"cancelled", "failed"} :
             /\ Closed(deliveries[d], s) \in Row
             /\ GoodRow(Closed(deliveries[d], s))
      BY ClosedRow DEF TypeOK, GoodRow, Status
    <3>2. /\ deliveries' \in [Delivery -> Row]
          /\ \A e \in Delivery : GoodRow(deliveries'[e])
      BY <2>7, <3>1 DEF CancelDelivery, FailClaimedDelivery, TypeOK
    <3>3. /\ Finish(w, d)
          /\ UNCHANGED <<attempts, configs, replays, now>>
      BY <2>7 DEF CancelDelivery, FailClaimedDelivery
    <3> QED BY <3>2, <3>3, FinishJob DEF TypeOK, GoodRow, GoodJob
  <2>8. CASE Abandon(w, d)
    BY <2>8, FinishJob DEF Abandon, TypeOK, GoodRow, GoodJob
  <2> QED BY <1>5, <2>1, <2>3, <2>4, <2>5, <2>6, <2>7, <2>8 DEF DispatchStep
<1>6. ASSUME NEW rows \in SUBSET Delivery, ReplayStep(rows) PROVE Base'
  <2>1. CASE BeginReplay(rows) \/ AbortReplay(rows)
    BY <2>1, BaseRows DEF BeginReplay, AbortReplay, TypeOK
  <2>2. CASE CommitReplay(rows)
    <3>1. PICK t \in AppClock :
             deliveries' = [d \in Delivery |->
                 IF d \in rows THEN Replayed(deliveries[d], t)
                 ELSE deliveries[d]]
      BY <2>2 DEF CommitReplay
    <3>2. \A d \in Delivery : /\ Replayed(deliveries[d], t) \in Row
                              /\ GoodRow(Replayed(deliveries[d], t))
      <4> SUFFICES ASSUME NEW d \in Delivery
                   PROVE  /\ Replayed(deliveries[d], t) \in Row
                          /\ GoodRow(Replayed(deliveries[d], t))
        OBVIOUS
      <4> DEFINE row == deliveries[d]
      <4>1. row \in Row /\ GoodRow(row) /\ t \in Nat
        BY <1>t DEF TypeOK
      <4> HIDE DEF row
      <4>2. Replayed(row, t) \in Row
        BY <4>1, ReplayedRow
      <4>3. \/ Replayed(row, t).attemptCount = 0
            \/ /\ Replayed(row, t).status = row.status
               /\ Replayed(row, t).attemptCount = row.attemptCount
        BY <4>1, ReplayedRow
      <4>4. GoodRow(Replayed(row, t))
        BY <4>1, <4>3, PolicyAssumption DEF GoodRow
      <4> QED BY <4>2, <4>4 DEF row
    <3>3. /\ deliveries' \in [Delivery -> Row]
          /\ \A d \in Delivery : GoodRow(deliveries'[d])
      BY <3>1, <3>2 DEF TypeOK
    <3> QED BY <2>2, <3>3, BaseRows DEF CommitReplay, TypeOK
  <2> QED BY <1>6, <2>1, <2>2 DEF ReplayStep
<1>7. CASE Tick
  BY <1>7, ClockAssumption DEF Tick, TypeOK, GoodRow, GoodJob
<1>8. CASE UNCHANGED vars
  BY <1>8 DEF vars, TypeOK, GoodRow, GoodJob
<1> QED BY <1>1, <1>2, <1>3, <1>4, <1>5, <1>6, <1>7, <1>8 DEF Next

\* The specification keeps types and budget.
THEOREM BaseInvariant == Spec => []Base
BY BaseInit, BaseNext, PTL DEF Spec

\* Type correctness of the pipeline.
THEOREM TypeCorrect == Spec => []TypeOK
<1>1. Base => TypeOK
  BY DEF Base
<1> QED BY <1>1, BaseInvariant, PTL

\* The attempts recorded for a generation never exceed --max-attempts, and a
\* pending row always has one left: CompleteDelivery, recovery and replay of any
\* number of workers together never overdraw the budget.
THEOREM BudgetKept == Spec => []RetryBudget
<1>1. Base => RetryBudget
  BY DEF Base, GoodRow, RetryBudget
<1> QED BY <1>1, BaseInvariant, PTL
-----------------------------------------------------------------------------
(***************************************************************************)
(* Claims.  A goroutine that no longer holds the claim of its delivery     *)
(* took it at an earlier time than any later claim, so the timestamp       *)
(* fences it; the one that holds it has an exact copy of the row.          *)
(***************************************************************************)
Token(w, d) == job[w][d].delivery.claimedAt

\* Attempts completed when the goroutine claimed its delivery.
Before(j) == IF j.pc = "completing" THEN j.delivery.attemptCount - 1
                                    ELSE j.delivery.attemptCount

SameClaim(j, k) ==
    /\ j.delivery.claimedAt = k.delivery.claimedAt
    /\ j.delivery.replayGeneration = k.delivery.replayGeneration
    /\ j.delivery.cycleStartedAt = k.delivery.cycleStartedAt
    /\ Before(j) = Before(k)

Agrees(j, row) ==
    /\ j.delivery.replayGeneration = row.replayGeneration
    /\ j.delivery.cycleStartedAt = row.cycleStartedAt
    /\ Before(j) = row.attemptCount

Fenced(d) ==
    /\ \A w \in Worker : Live(w, d) =>
          /\ Token(w, d) =< now
          /\ \/ HoldsClaim(d, job[w][d].delivery) /\ Agrees(job[w][d], deliveries[d])
             \/ deliveries[d].status = "cancelled"
             \/ Token(w, d) < now /\ ~HoldsClaim(d, job[w][d].delivery)
    /\ \A v, w \in Worker :
          Live(v, d) /\ Live(w, d) /\ Token(v, d) = Token(w, d) => v = w

Claims == \A d \in Delivery : Fenced(d)

\* Rows that a replay holds wait for nobody and are in nobody's hands.
LockedReplayable ==
    \A d \in Locked : deliveries[d].status \in {"failed", "pending"}

\* Goroutines that move on or end, with the row as it is, stay fenced.
LEMMA FencedJobs ==
    ASSUME NEW d \in Delivery, Fenced(d),
           deliveries'[d] = deliveries[d], now' = now,
           \A w \in Worker :
              \/ job'[w][d] = job[w][d]
              \/ job'[w][d] = NoJob
              \/ Live(w, d) /\ SameClaim(job[w][d], job'[w][d])
    PROVE  Fenced(d)'
BY DEF Fenced, Live, Token, HoldsClaim, Agrees, SameClaim, NoJob

\* A row that leaves its claim, or is outside of one, fences whoever is left.
LEMMA FencedRow ==
    ASSUME Base, NEW d \in Delivery, Fenced(d), now' = now,
           deliveries'[d].status # "delivering",
           deliveries[d].status = "cancelled" =>
              deliveries'[d].status = "cancelled",
           \A w \in Worker :
              \/ job'[w][d] = NoJob
              \/ /\ job'[w][d] = job[w][d]
                 /\ \/ ~HoldsClaim(d, job[w][d].delivery)
                    \/ Token(w, d) < now
                    \/ deliveries'[d].status = "cancelled"
    PROVE  Fenced(d)'
BY DEF Fenced, Live, Token, HoldsClaim, NoJob

\* A claim hands the row to one goroutine, under a timestamp nobody has.
LEMMA FencedClaim ==
    ASSUME Base, NEW d \in Delivery, NEW w \in Worker, Fenced(d), now' = now,
           deliveries[d].status = "pending",
           deliveries'[d] = Claim(deliveries[d]),
           job'[w][d] = [pc |-> "claimed", delivery |-> Claim(deliveries[d])],
           \A v \in Worker : v # w => job'[v][d] = job[v][d]
    PROVE  Fenced(d)'
<1>1. /\ Claim(deliveries[d]).status = "delivering"
      /\ Claim(deliveries[d]).claimedAt = now
  BY ClaimRow DEF Base, TypeOK
<1>2. \A v \in Worker : v # w /\ Live(v, d) => Token(v, d) < now
  BY DEF Fenced, HoldsClaim
<1>3. \A v \in Worker : v # w /\ Live(v, d)' => Token(v, d)' < now
  BY <1>2 DEF Live, Token
<1>4. now \in Nat /\ \A v \in Worker : Token(v, d) \in Nat
  BY DEF Base, TypeOK, Token, Job, Row
<1>5. \A v \in Worker : v # w => Token(v, d)' = Token(v, d)
  BY DEF Token
<1>6. Token(w, d)' = now /\ HoldsClaim(d, job[w][d].delivery)'
  BY <1>1 DEF Token, HoldsClaim
<1>7. Agrees(job'[w][d], deliveries'[d])
  BY DEF Agrees, Before
<1>8. \A v \in Worker : v # w /\ Live(v, d)' =>
         ~HoldsClaim(d, job[v][d].delivery)'
  BY <1>1, <1>3, <1>4, <1>5 DEF HoldsClaim, Token
<1>9. \A v \in Worker : Live(v, d)' =>
         /\ Token(v, d)' =< now'
         /\ \/ HoldsClaim(d, job[v][d].delivery)' /\ Agrees(job[v][d], deliveries[d])'
            \/ Token(v, d)' < now' /\ ~HoldsClaim(d, job[v][d].delivery)'
  BY <1>3, <1>4, <1>5, <1>6, <1>7, <1>8
<1>10. \A u, v \in Worker :
          Live(u, d)' /\ Live(v, d)' /\ Token(u, d)' = Token(v, d)' => u = v
  BY <1>3, <1>4, <1>5, <1>6 DEF Fenced, Live
<1> QED BY <1>9, <1>10 DEF Fenced

\* Every step keeps the claims fenced and the rows of a replay in its hands.
LEMMA ClaimsNext ==
    Base /\ Claims /\ LockedReplayable /\ [Next]_vars
        => Claims' /\ LockedReplayable'
<1> SUFFICES ASSUME Base, Claims, LockedReplayable, [Next]_vars
             PROVE  Claims' /\ LockedReplayable'
  OBVIOUS
<1> USE DEF Claims
<1>t. /\ \A d \in Delivery : deliveries[d] \in Row
      /\ \A w \in Worker, d \in Delivery :
            job[w][d] \in Job /\ job[w][d].delivery \in Row
      /\ job \in [Worker -> [Delivery -> Job]]
      /\ now \in Nat
      /\ Locked \subseteq Delivery
      /\ \A t \in AppClock : t \in Nat /\ t =< now + ClockSkew
  BY AppClockType DEF Base, TypeOK, Job, Locked
<1>1. ASSUME NEW e \in Event, EnqueueEvent(e)
      PROVE  Claims' /\ LockedReplayable'
  <2>1. PICK createdAt \in AppClock :
          \A d \in Delivery : \/ deliveries'[d] = deliveries[d]
                             \/ /\ deliveries[d].status = "none"
                                /\ deliveries'[d] = NewDelivery(createdAt)
    BY <1>1 DEF EnqueueEvent
  <2>2. ASSUME NEW d \in Delivery PROVE Fenced(d)'
    <3>1. CASE deliveries'[d] = deliveries[d]
      BY <1>1, <3>1, FencedJobs DEF EnqueueEvent
    <3>2. CASE /\ deliveries[d].status = "none"
               /\ deliveries'[d] = NewDelivery(createdAt)
      <4>1. deliveries'[d].status = "pending"
        BY <1>t, <3>2, NewRow
      <4> QED BY <1>1, <3>2, <4>1, FencedRow DEF EnqueueEvent, HoldsClaim
    <3> QED BY <2>1, <3>1, <3>2
  <2>3. LockedReplayable'
    BY <1>t, <1>1, <2>1 DEF LockedReplayable, Locked, EnqueueEvent
  <2> QED BY <2>2, <2>3
<1>2. ASSUME NEW c \in Config, ConfigStep(c)
      PROVE  Claims' /\ LockedReplayable'
  <2>1. CASE InsertOneConfig(c) \/ Activate(c)
    <3>1. UNCHANGED <<deliveries, job, replays, now>>
      BY <2>1 DEF InsertOneConfig, Activate
    <3> QED BY <3>1, FencedJobs DEF LockedReplayable, Locked
  <2>2. CASE Deactivate(c) \/ DeleteOneConfig(c)
    <3>1. /\ UNCHANGED <<job, replays, now>>
          /\ \A d \in Delivery : ConfigOf(d) = c => ~Blocked(d)
          /\ \A d \in Delivery :
                \/ deliveries'[d] = deliveries[d]
                \/ /\ deliveries[d].status = "pending" /\ ConfigOf(d) = c
                   /\ deliveries'[d] = Cancelled(deliveries[d])
      BY <2>2 DEF Deactivate, DeleteOneConfig, SwitchOff,
                  cancelPendingDeliveries
    <3>2. ASSUME NEW d \in Delivery PROVE Fenced(d)'
      <4>1. CASE deliveries'[d] = deliveries[d]
        BY <3>1, <4>1, FencedJobs
      <4>2. CASE /\ deliveries[d].status = "pending"
                 /\ deliveries'[d] = Cancelled(deliveries[d])
        <5>1. deliveries'[d].status = "cancelled"
          BY <1>t, <4>2, CancelledRow
        <5> QED BY <3>1, <4>2, <5>1, FencedRow DEF HoldsClaim
      <4> QED BY <3>1, <4>1, <4>2
    <3>3. LockedReplayable'
      BY <1>t, <3>1 DEF LockedReplayable, Locked, Blocked
    <3> QED BY <3>2, <3>3
  <2> QED BY <1>2, <2>1, <2>2 DEF ConfigStep
<1>3. ASSUME NEW w \in Worker, ClaimDeliveries(w)
      PROVE  Claims' /\ LockedReplayable'
  <2>1. PICK batch \in SUBSET Due :
          /\ deliveries' = [d \in Delivery |->
                IF d \in batch THEN Claim(deliveries[d]) ELSE deliveries[d]]
          /\ job' = [job EXCEPT ![w] = [d \in Delivery |->
                IF d \in batch
                THEN [pc |-> "claimed", delivery |-> Claim(deliveries[d])]
                ELSE NoJob]]
    BY <1>3 DEF ClaimDeliveries
  <2>2. /\ \A v \in Worker, d \in Delivery :
              v # w => job'[v][d] = job[v][d]
        /\ \A d \in Delivery :
              job'[w][d] = IF d \in batch
                THEN [pc |-> "claimed", delivery |-> Claim(deliveries[d])]
                ELSE NoJob
    BY <1>t, <2>1
  <2>3. ASSUME NEW d \in Delivery PROVE Fenced(d)'
    <3>1. CASE d \in batch
      <4>1. deliveries[d].status = "pending" /\ now' = now
        BY <1>3, <3>1 DEF ClaimDeliveries, Due
      <4>2. /\ deliveries'[d] = Claim(deliveries[d])
            /\ job'[w][d] = [pc |-> "claimed", delivery |-> Claim(deliveries[d])]
        BY <2>1, <2>2, <3>1
      <4> QED BY <2>2, <4>1, <4>2, FencedClaim
    <3>2. CASE d \notin batch
      BY <1>3, <2>1, <2>2, <3>2, FencedJobs DEF ClaimDeliveries
    <3> QED BY <3>1, <3>2
  <2>4. LockedReplayable'
    BY <1>t, <1>3, <2>1 DEF LockedReplayable, Locked, ClaimDeliveries, Due
  <2> QED BY <2>3, <2>4
<1>4. ASSUME NEW w \in Worker, RecoverStaleDeliveries(w)
      PROVE  Claims' /\ LockedReplayable'
  <2>1. PICK t \in AppClock :
          \E stale \in SUBSET {d \in Delivery : Stale(d, t)} :
             deliveries' = [d \in Delivery |->
                IF d \in stale THEN Recovered(d) ELSE deliveries[d]]
    BY <1>4 DEF RecoverStaleDeliveries
  <2>2. ASSUME NEW d \in Delivery
        PROVE  \/ deliveries'[d] = deliveries[d]
               \/ /\ deliveries[d].status = "delivering"
                  /\ deliveries[d].claimedAt < now
                  /\ deliveries'[d] = Recovered(d)
    <3>1. Stale(d, t) => deliveries[d].claimedAt < now
      <4>1. deliveries[d].claimedAt \in Nat
        BY <1>t DEF Row
      <4> QED BY <1>t, <4>1, ClockAssumption DEF Stale
    <3> QED BY <2>1, <3>1 DEF Stale
  <2>3. ASSUME NEW d \in Delivery PROVE Fenced(d)'
    <3>1. CASE deliveries'[d] = deliveries[d]
      BY <1>4, <3>1, FencedJobs DEF RecoverStaleDeliveries
    <3>2. CASE /\ deliveries[d].status = "delivering"
               /\ deliveries[d].claimedAt < now
               /\ deliveries'[d] = Recovered(d)
      <4>1. deliveries'[d].status \in {"pending", "cancelled"}
        BY <1>t, <3>2, RecoveredRow
      <4> QED BY <1>4, <3>2, <4>1, FencedRow
              DEF RecoverStaleDeliveries, HoldsClaim, Token
    <3> QED BY <2>2, <3>1, <3>2
  <2>4. LockedReplayable'
    BY <1>t, <1>4, <2>2 DEF LockedReplayable, Locked, RecoverStaleDeliveries
  <2> QED BY <2>3, <2>4
<1>5. ASSUME NEW w \in Worker, NEW d \in Delivery, DispatchStep(w, d)
      PROVE  Claims' /\ LockedReplayable'
  <2> DEFINE mine == job[w][d].delivery
  <2>1. ASSUME NEW j \in Job, job' = [job EXCEPT ![w][d] = j],
               UNCHANGED <<deliveries, replays, now>>,
               Live(w, d), SameClaim(job[w][d], j)
        PROVE  Claims' /\ LockedReplayable'
    <3>1. /\ job'[w][d] = j
          /\ \A v \in Worker, e \in Delivery :
                v # w \/ e # d => job'[v][e] = job[v][e]
      BY <1>t, <2>1, JobUpdate
    <3>2. ASSUME NEW e \in Delivery PROVE Fenced(e)'
      BY <2>1, <3>1, FencedJobs
    <3> QED BY <2>1, <3>2 DEF LockedReplayable, Locked
  <2>2. CASE FindConfig(w, d) \/ Preflight(w, d) \/ SendRequest(w, d)
    <3>1. PICK pc \in Pc \ {"idle", "completing"} : Step(w, d, pc)
      BY <2>2 DEF FindConfig, Preflight, SendRequest, Pc
    <3>2. /\ [pc |-> pc, delivery |-> mine] \in Job
          /\ job' = [job EXCEPT ![w][d] = [pc |-> pc, delivery |-> mine]]
      BY <1>t, <3>1, StepUpdate
    <3>3. Live(w, d) /\ SameClaim(job[w][d], [pc |-> pc, delivery |-> mine])
      BY <2>2, <3>1 DEF FindConfig, Preflight, SendRequest, Live, SameClaim, Before
    <3> QED BY <2>1, <2>2, <3>2, <3>3 DEF FindConfig, Preflight, SendRequest
  <2>3. ASSUME NEW new \in Row, job[w][d].pc = "sending", Answered(w, d, new),
               new.attemptCount = mine.attemptCount + 1,
               new.replayGeneration = mine.replayGeneration,
               new.cycleStartedAt = mine.cycleStartedAt,
               new.claimedAt = mine.claimedAt
        PROVE  Claims' /\ LockedReplayable'
    <3>1. [pc |-> "completing", delivery |-> new] \in Job
      BY DEF Job, Pc
    <3>2. mine.attemptCount \in Nat
      BY <1>t DEF Row
    <3>3. /\ Live(w, d)
          /\ SameClaim(job[w][d], [pc |-> "completing", delivery |-> new])
      BY <2>3, <3>2 DEF Live, SameClaim, Before
    <3> QED BY <2>1, <2>3, <3>1, <3>3 DEF Answered
  <2>4. CASE Accepted(w, d) \/ Rejected(w, d)
    <3>1. PICK s \in {"succeeded", "failed"} :
             Answered(w, d, Settle(mine, s, NoTime))
      BY <2>4 DEF Accepted, Rejected
    <3>2. s \in Status /\ NoTime \in Nat /\ mine \in Row
      BY <1>t DEF Status
    <3>3. Settle(mine, s, NoTime).attemptCount = mine.attemptCount + 1
      BY <3>2, SettleRow
    <3>4. LET new == Settle(mine, s, NoTime) IN
          /\ new \in Row
          /\ new.replayGeneration = mine.replayGeneration
          /\ new.cycleStartedAt = mine.cycleStartedAt
          /\ new.claimedAt = mine.claimedAt
      BY <3>2, SettleRow
    <3> QED BY <2>3, <2>4, <3>1, <3>3, <3>4 DEF Accepted, Rejected
  <2>5. CASE Unavailable(w, d)
    <3>1. PICK t \in AppClock : \E delay \in RetryDelay[mine.attemptCount] :
             Answered(w, d, Retry(mine, t, delay))
      BY <2>5 DEF Unavailable
    <3>2. PICK delay \in RetryDelay[mine.attemptCount] :
             Answered(w, d, Retry(mine, t, delay))
      BY <3>1
    <3>3. mine.attemptCount < MaxAttempts /\ t \in Nat /\ mine \in Row
      BY <1>t, <2>5 DEF Unavailable, Base, GoodJob
    <3>4. Retry(mine, t, delay).attemptCount = mine.attemptCount + 1
      BY <3>3, RetryRow
    <3>5. LET new == Retry(mine, t, delay) IN
          /\ new \in Row
          /\ new.replayGeneration = mine.replayGeneration
          /\ new.cycleStartedAt = mine.cycleStartedAt
          /\ new.claimedAt = mine.claimedAt
      BY <3>3, RetryRow
    <3> QED BY <2>3, <2>5, <3>2, <3>4, <3>5 DEF Unavailable
  <2>6. ASSUME Finish(w, d), UNCHANGED <<replays, now>>, Live(w, d),
               \A e \in Delivery : e # d => deliveries'[e] = deliveries[e],
               \/ deliveries'[d] = deliveries[d]
               \/ /\ deliveries[d].status = "delivering"
                  /\ HoldsClaim(d, mine)
                  /\ deliveries'[d].status # "delivering"
               \/ /\ deliveries[d].status \in {"pending", "delivering"}
                  /\ ~Blocked(d)
                  /\ deliveries'[d].status = "cancelled"
        PROVE  Claims' /\ LockedReplayable'
    <3>1. /\ job'[w][d] = NoJob
          /\ \A v \in Worker, e \in Delivery :
                v # w \/ e # d => job'[v][e] = job[v][e]
      BY <2>6, FinishJob
    <3>2. ASSUME NEW e \in Delivery PROVE Fenced(e)'
      <4>1. CASE deliveries'[e] = deliveries[e]
        BY <2>6, <3>1, <4>1, FencedJobs
      <4>2. CASE deliveries'[e] # deliveries[e]
        <5>1. e = d
          BY <2>6, <4>2
        <5>2. CASE HoldsClaim(d, mine) /\ deliveries'[d].status # "delivering"
          <6>1. \A v \in Worker : v # w /\ Live(v, d) =>
                   ~HoldsClaim(d, job[v][d].delivery)
            BY <2>6, <5>2 DEF Fenced, HoldsClaim, Token
          <6>2. deliveries[d].status = "delivering"
            BY <5>2 DEF HoldsClaim
          <6> QED BY <2>6, <3>1, <5>1, <5>2, <6>1, <6>2
                  DEF Fenced, Live, Token, HoldsClaim, NoJob
        <5>3. CASE deliveries'[d].status = "cancelled"
          BY <2>6, <3>1, <5>1, <5>3, FencedRow
        <5> QED BY <2>6, <4>2, <5>1, <5>2, <5>3
      <4> QED BY <4>1, <4>2
    <3>3. d \in Locked => deliveries'[d] = deliveries[d]
      BY <2>6 DEF LockedReplayable, Blocked
    <3>4. LockedReplayable'
      BY <1>t, <2>6, <3>3 DEF LockedReplayable, Locked
    <3> QED BY <3>2, <3>4
  <2>7. CASE CompleteDelivery(w, d)
    <3>1. HoldsClaim(d, mine) => deliveries[d].status = "delivering"
      BY DEF HoldsClaim
    <3>2. Completed(d, mine).status # "delivering"
      BY <1>t, <2>7, CompletedRow DEF CompleteDelivery, Base, GoodJob
    <3> QED BY <1>t, <2>6, <2>7, <3>1, <3>2
            DEF CompleteDelivery, Base, TypeOK, Live
  <2>8. CASE CancelDelivery(w, d)
    <3>1. Closed(deliveries[d], "cancelled").status = "cancelled"
      BY <1>t, ClosedRow DEF Status
    <3> QED BY <1>t, <2>6, <2>8, <3>1 DEF CancelDelivery, Base, TypeOK, Live
  <2>9. CASE FailClaimedDelivery(w, d)
    <3>1. Closed(deliveries[d], "failed").status = "failed"
      BY <1>t, ClosedRow DEF Status
    <3>2. HoldsClaim(d, mine) => deliveries[d].status = "delivering"
      BY DEF HoldsClaim
    <3> QED BY <1>t, <2>6, <2>9, <3>1, <3>2
            DEF FailClaimedDelivery, Base, TypeOK, Live
  <2>10. CASE Abandon(w, d)
    BY <2>6, <2>10 DEF Abandon
  <2> QED BY <1>5, <2>2, <2>4, <2>5, <2>7, <2>8, <2>9, <2>10 DEF DispatchStep
<1>6. ASSUME NEW rows \in SUBSET Delivery, ReplayStep(rows)
      PROVE  Claims' /\ LockedReplayable'
  <2>1. CASE BeginReplay(rows) \/ AbortReplay(rows)
    <3>1. UNCHANGED <<deliveries, job, now>>
      BY <2>1 DEF BeginReplay, AbortReplay
    <3>2. LockedReplayable'
      BY <2>1 DEF BeginReplay, AbortReplay, LockedReplayable, Locked, Replayable
    <3> QED BY <3>1, <3>2, FencedJobs
  <2>2. CASE CommitReplay(rows)
    <3>1. PICK t \in AppClock : \A d \in Delivery :
             deliveries'[d] = IF d \in rows THEN Replayed(deliveries[d], t)
                              ELSE deliveries[d]
      BY <2>2 DEF CommitReplay
    <3>2. \A d \in rows : deliveries[d].status \in {"failed", "pending"}
      BY <2>2 DEF CommitReplay, LockedReplayable, Locked
    <3>3. \A d \in rows : deliveries'[d].status = "pending"
      BY <1>t, <3>1, <3>2, ReplayedRow
    <3>4. ASSUME NEW d \in Delivery PROVE Fenced(d)'
      <4>1. CASE d \in rows
        BY <2>2, <3>2, <3>3, <4>1, FencedRow DEF CommitReplay, HoldsClaim
      <4>2. CASE d \notin rows
        BY <2>2, <3>1, <4>2, FencedJobs DEF CommitReplay
      <4> QED BY <4>1, <4>2
    <3>5. LockedReplayable'
      BY <1>t, <2>2, <3>1, <3>3 DEF CommitReplay, LockedReplayable, Locked
    <3> QED BY <3>4, <3>5
  <2> QED BY <1>6, <2>1, <2>2 DEF ReplayStep
<1>7. CASE Tick
  <2>1. \A w \in Worker, d \in Delivery : Token(w, d) \in Nat
    BY <1>t DEF Token, Row
  <2>2. ASSUME NEW d \in Delivery PROVE Fenced(d)'
    BY <1>t, <1>7, <2>1
       DEF Tick, Fenced, Live, Token, HoldsClaim, Agrees, Before
  <2> QED BY <1>7, <2>2 DEF Tick, LockedReplayable, Locked
<1>8. CASE UNCHANGED vars
  BY <1>8, FencedJobs DEF vars, LockedReplayable, Locked
<1> QED BY <1>1, <1>2, <1>3, <1>4, <1>5, <1>6, <1>7, <1>8 DEF Next

\* Initially nobody claims or replays anything.
LEMMA ClaimsInit == Init => Claims /\ LockedReplayable
BY DEF Init, Claims, Fenced, Live, NoJob, LockedReplayable, Locked

\* Claims stay fenced in every behaviour.
THEOREM ClaimsInvariant == Spec => [](Base /\ Claims /\ LockedReplayable)
BY BaseInit, BaseNext, ClaimsInit, ClaimsNext, PTL DEF Spec

\* claimed_at identifies the holder of a claim: of all goroutines that handle
\* a delivery, at most one carries the timestamp in its row, so that the WHERE
\* clause of CompleteDelivery and FailClaimedDelivery lets at most one of them
\* write.  It needs ClockSkew =< StaleAge.
THEOREM ClaimHolderUnique == Spec => []OneClaimHolder
<1>1. Claims => OneClaimHolder
  BY DEF Claims, Fenced, OneClaimHolder, HoldsClaim, Token
<1> QED BY <1>1, ClaimsInvariant, PTL
-----------------------------------------------------------------------------
(***************************************************************************)
(* Two guarantees that depend on more than the row: configs that are       *)
(* switched off leave no pending rows, and a dispatchOne that ends in time *)
(* is alone with its delivery.                                             *)
(***************************************************************************)
HIDE DEF Exhausted

\* No row is pending for a config that is off, unless it was replayed: no step
\* creates one.
LEMMA OrphansNext ==
    Base /\ LockedReplayable /\ OrphansOnlyFromReplay /\ [Next]_vars
        => OrphansOnlyFromReplay'
<1> SUFFICES ASSUME Base, LockedReplayable, OrphansOnlyFromReplay, [Next]_vars,
                    NEW d \in Delivery, deliveries'[d].status = "pending",
                    ~Active(ConfigOf(d))'
             PROVE  deliveries'[d].replayGeneration > 0
  BY DEF OrphansOnlyFromReplay
<1> DEFINE row == deliveries[d]
<1>t. /\ deliveries \in [Delivery -> Row] /\ row \in Row
      /\ ConfigOf(d) \in Config
      /\ configs \in [Config -> {"absent", "active", "inactive", "deleted"}]
      /\ now \in Nat
      /\ \A t \in AppClock : t \in Nat
  BY AppClockType, ConfigOfType DEF Base, TypeOK
<1>s. "failed" \in Status /\ "cancelled" \in Status
  BY DEF Status
<1>k. ASSUME deliveries'[d].status = row.status,
             deliveries'[d].replayGeneration = row.replayGeneration,
             ~Active(ConfigOf(d))
      PROVE  deliveries'[d].replayGeneration > 0
  BY <1>k DEF OrphansOnlyFromReplay
<1>1. ASSUME NEW e \in Event, EnqueueEvent(e)
      PROVE  deliveries'[d].replayGeneration > 0
  <2>1. ~Active(ConfigOf(d))
    BY <1>1 DEF EnqueueEvent, Active
  <2>2. deliveries'[d] = deliveries[d]
    BY <1>1, <2>1 DEF EnqueueEvent
  <2> QED BY <1>k, <2>1, <2>2
<1>2. ASSUME NEW c \in Config, ConfigStep(c)
      PROVE  deliveries'[d].replayGeneration > 0
  <2>1. CASE InsertOneConfig(c) \/ Activate(c)
    <3>1. ~Active(ConfigOf(d)) /\ deliveries' = deliveries
      BY <1>t, <2>1 DEF InsertOneConfig, Activate, Active
    <3> QED BY <1>k, <3>1
  <2>2. CASE Deactivate(c) \/ DeleteOneConfig(c)
    <3>1. deliveries'[d] =
             IF ConfigOf(d) = c /\ row.status = "pending"
             THEN Cancelled(row) ELSE row
      BY <2>2 DEF Deactivate, DeleteOneConfig, SwitchOff, cancelPendingDeliveries
    <3>2. ConfigOf(d) # c /\ deliveries'[d] = row
      BY <1>t, <3>1, CancelledRow
    <3>3. ~Active(ConfigOf(d))
      BY <1>t, <2>2, <3>2 DEF Deactivate, DeleteOneConfig, SwitchOff, Active
    <3> QED BY <1>k, <3>2, <3>3
  <2> QED BY <1>2, <2>1, <2>2 DEF ConfigStep
<1>3. ASSUME NEW w \in Worker, ClaimDeliveries(w)
      PROVE  deliveries'[d].replayGeneration > 0
  <2>1. ~Active(ConfigOf(d))
    BY <1>3 DEF ClaimDeliveries, Active
  <2>2. deliveries'[d] = deliveries[d]
    BY <1>3, <2>1 DEF ClaimDeliveries, Due
  <2> QED BY <1>k, <2>1, <2>2
<1>4. ASSUME NEW w \in Worker, RecoverStaleDeliveries(w)
      PROVE  deliveries'[d].replayGeneration > 0
  <2>1. ~Active(ConfigOf(d))
    BY <1>4 DEF RecoverStaleDeliveries, Active
  <2>2. Recovered(d).status = "cancelled"
    BY <1>t, <2>1, RecoveredRow
  <2>3. deliveries'[d] = deliveries[d]
    BY <1>4, <2>2 DEF RecoverStaleDeliveries
  <2> QED BY <1>k, <2>1, <2>3
<1>5. ASSUME NEW w \in Worker, NEW e \in Delivery, DispatchStep(w, e)
      PROVE  deliveries'[d].replayGeneration > 0
  <2>1. ~Active(ConfigOf(d))
    BY <1>5 DEF DispatchStep, FindConfig, Preflight, SendRequest, Accepted,
       Rejected, Unavailable, Answered, CompleteDelivery, CancelDelivery,
       FailClaimedDelivery, Abandon, Active
  <2>2. deliveries'[d] = row
    <3>1. CASE CompleteDelivery(w, e)
      <4>1. /\ job[w][d].delivery \in Row
            /\ e = d => job[w][d].delivery.status \in {"succeeded", "failed", "pending"}
        BY <3>1 DEF Base, TypeOK, Job, GoodJob, CompleteDelivery
      <4>2. e = d => Completed(d, job[w][d].delivery).status # "pending"
        BY <1>t, <2>1, <4>1, CompletedRow
      <4> QED BY <1>t, <3>1, <4>2 DEF CompleteDelivery
    <3>2. CASE CancelDelivery(w, e)
      <4>1. Closed(row, "cancelled").status = "cancelled"
        BY <1>t, <1>s, ClosedRow
      <4> QED BY <1>t, <3>2, <4>1 DEF CancelDelivery
    <3>3. CASE FailClaimedDelivery(w, e)
      <4>1. Closed(row, "failed").status = "failed"
        BY <1>t, <1>s, ClosedRow
      <4> QED BY <1>t, <3>3, <4>1 DEF FailClaimedDelivery
    <3> QED BY <1>5, <3>1, <3>2, <3>3 DEF DispatchStep, FindConfig, Preflight,
            SendRequest, Accepted, Rejected, Unavailable, Answered, Abandon
  <2> QED BY <1>k, <2>1, <2>2
<1>6. ASSUME NEW rows \in SUBSET Delivery, ReplayStep(rows)
      PROVE  deliveries'[d].replayGeneration > 0
  <2>1. ~Active(ConfigOf(d))
    BY <1>6 DEF ReplayStep, BeginReplay, CommitReplay, AbortReplay, Active
  <2>2. CASE deliveries'[d] = row
    BY <1>k, <2>1, <2>2
  <2>3. ASSUME NEW t \in AppClock, deliveries'[d] = Replayed(row, t)
        PROVE  deliveries'[d].replayGeneration > 0
    <3>1. CASE row.status = "failed"
      <4>1. deliveries'[d].replayGeneration = row.replayGeneration + 1
        BY <1>t, <2>3, <3>1, ReplayedRow
      <4>2. row.replayGeneration \in Nat
        BY <1>t DEF Row
      <4> HIDE DEF row
      <4> QED BY <4>1, <4>2
    <3>2. CASE row.status # "failed"
      BY <1>k, <1>t, <2>1, <2>3, <3>2, ReplayedRow
    <3> QED BY <3>1, <3>2
  <2> QED BY <1>6, <2>2, <2>3 DEF ReplayStep, BeginReplay, CommitReplay, AbortReplay
<1>7. CASE Tick \/ UNCHANGED vars
  BY <1>7, <1>k DEF Tick, vars, Active
<1> QED BY <1>1, <1>2, <1>3, <1>4, <1>5, <1>6, <1>7 DEF Next

\* Switching a config off leaves no pending delivery that was never replayed,
\* whatever is enqueued, completed or recovered at the same time.
THEOREM OrphansOnlyReplayed == Spec => []OrphansOnlyFromReplay
<1>1. Init => OrphansOnlyFromReplay
  BY DEF Init, OrphansOnlyFromReplay, NoRow
<1> QED BY <1>1, OrphansNext, ClaimsInvariant, PTL DEF Spec
-----------------------------------------------------------------------------
(***************************************************************************)
(* A goroutine that is still inside its deadline holds its claim.          *)
(***************************************************************************)
InTime(d) ==
    \A w \in Worker : Live(w, d) =>
        /\ HoldsClaim(d, job[w][d].delivery)
        /\ now =< Token(w, d) + JobDeadline

Prompt == \A d \in Delivery : InTime(d)

\* A claim is its holder's alone.
LEMMA Alone ==
    ASSUME Claims, Prompt
    PROVE  \A d \in Delivery, v, w \in Worker : Live(v, d) /\ Live(w, d) => v = w
BY DEF Claims, Fenced, Prompt, InTime, HoldsClaim, Token

\* Goroutines that move on or end, with the row as it is, stay in time.
LEMMA InTimeJobs ==
    ASSUME NEW d \in Delivery, InTime(d),
           deliveries'[d] = deliveries[d], now' = now,
           \A w \in Worker :
              \/ job'[w][d] = job[w][d]
              \/ job'[w][d] = NoJob
              \/ /\ Live(w, d)
                 /\ job'[w][d].delivery.claimedAt = job[w][d].delivery.claimedAt
    PROVE  InTime(d)'
BY DEF InTime, Live, Token, HoldsClaim, NoJob

\* Without a goroutine there is nothing to keep.
LEMMA InTimeNobody ==
    ASSUME NEW d \in Delivery, \A w \in Worker : ~Live(w, d)'
    PROVE  InTime(d)'
BY DEF InTime, Live

\* Every step keeps the goroutines in time, if a claim is called stale only
\* after the deadline and the disagreement of the clocks.
LEMMA PromptNext ==
    ASSUME JobDeadline + ClockSkew =< StaleAge,
           Base, Claims, LockedReplayable, Prompt, [Next]_vars
    PROVE  Prompt'
<1> SUFFICES ASSUME NEW d \in Delivery PROVE InTime(d)'
  BY DEF Prompt
<1>t. /\ deliveries \in [Delivery -> Row]
      /\ job \in [Worker -> [Delivery -> Job]]
      /\ now \in Nat
      /\ \A w \in Worker : Token(w, d) \in Nat
      /\ \A t \in AppClock : t \in Nat /\ t =< now + ClockSkew
  BY AppClockType DEF Base, TypeOK, Job, Row, Token
<1>i. /\ InTime(d)
      /\ \A w \in Worker : Live(w, d) => deliveries[d].status = "delivering"
      /\ \A v, w \in Worker : Live(v, d) /\ Live(w, d) => v = w
  BY Alone DEF Prompt, InTime, HoldsClaim
<1>j. ASSUME UNCHANGED <<job, now>>,
             deliveries'[d] = deliveries[d] \/ \A w \in Worker : ~Live(w, d)
      PROVE  InTime(d)'
  BY <1>i, <1>j, InTimeJobs, InTimeNobody DEF Live
<1>1. ASSUME NEW e \in Event, EnqueueEvent(e) PROVE InTime(d)'
  <2>1. deliveries'[d] = deliveries[d] \/ deliveries[d].status = "none"
    BY <1>1 DEF EnqueueEvent
  <2> QED BY <1>1, <1>i, <1>j, <2>1 DEF EnqueueEvent
<1>2. ASSUME NEW c \in Config, ConfigStep(c) PROVE InTime(d)'
  <2>1. /\ UNCHANGED <<job, now>>
        /\ deliveries'[d] = deliveries[d] \/ deliveries[d].status = "pending"
    BY <1>2 DEF ConfigStep, InsertOneConfig, Activate, Deactivate,
       DeleteOneConfig, SwitchOff, cancelPendingDeliveries
  <2> QED BY <1>i, <1>j, <2>1
<1>3. ASSUME NEW w \in Worker, ClaimDeliveries(w) PROVE InTime(d)'
  <2>1. PICK batch \in SUBSET Due :
          /\ deliveries' = [e \in Delivery |->
                IF e \in batch THEN Claim(deliveries[e]) ELSE deliveries[e]]
          /\ job' = [job EXCEPT ![w] = [e \in Delivery |->
                IF e \in batch
                THEN [pc |-> "claimed", delivery |-> Claim(deliveries[e])]
                ELSE NoJob]]
    BY <1>3 DEF ClaimDeliveries
  <2>2. /\ \A v \in Worker : v # w => job'[v][d] = job[v][d]
        /\ job'[w][d] = IF d \in batch
              THEN [pc |-> "claimed", delivery |-> Claim(deliveries[d])]
              ELSE NoJob
        /\ now' = now
    BY <1>t, <1>3, <2>1 DEF ClaimDeliveries
  <2>3. CASE d \in batch
    <3>1. \A v \in Worker : ~Live(v, d)
      BY <1>i, <2>3 DEF Due
    <3>2. \A v \in Worker : Live(v, d)' => v = w
      BY <2>2, <3>1 DEF Live
    <3>3. /\ Claim(deliveries[d]).status = "delivering"
          /\ Claim(deliveries[d]).claimedAt = now
      BY <1>t, ClaimRow
    <3>4. HoldsClaim(d, job[w][d].delivery)' /\ Token(w, d)' = now
      BY <2>1, <2>2, <2>3, <3>3 DEF HoldsClaim, Token
    <3>5. now' =< Token(w, d)' + JobDeadline
      BY <1>t, <2>2, <3>4, ClockAssumption
    <3> QED BY <3>2, <3>4, <3>5 DEF InTime
  <2>4. CASE d \notin batch
    BY <1>i, <2>1, <2>2, <2>4, InTimeJobs
  <2> QED BY <2>3, <2>4
<1>4. ASSUME NEW w \in Worker, RecoverStaleDeliveries(w) PROVE InTime(d)'
  <2>1. PICK t \in AppClock : deliveries'[d] = deliveries[d] \/ Stale(d, t)
    BY <1>4 DEF RecoverStaleDeliveries
  <2>2. ASSUME Stale(d, t), NEW v \in Worker, Live(v, d) PROVE FALSE
    <3>1. Token(v, d) = deliveries[d].claimedAt /\ now =< Token(v, d) + JobDeadline
      BY <1>i, <2>2 DEF InTime, HoldsClaim, Token
    <3>2. Token(v, d) < t - StaleAge
      BY <2>2, <3>1 DEF Stale
    <3> QED BY <1>t, <3>1, <3>2, ClockAssumption
  <2> QED BY <1>4, <1>j, <2>1, <2>2 DEF RecoverStaleDeliveries
<1>5. ASSUME NEW w \in Worker, NEW e \in Delivery, DispatchStep(w, e)
      PROVE  InTime(d)'
  <2>1. ASSUME NEW j \in Job, job' = [job EXCEPT ![w][e] = j], Live(w, e),
               j.delivery.claimedAt = job[w][e].delivery.claimedAt,
               UNCHANGED <<deliveries, now>>
        PROVE  InTime(d)'
    <3>1. /\ job'[w][e] = j
          /\ \A v \in Worker : v # w \/ d # e => job'[v][d] = job[v][d]
      BY <1>t, <2>1, JobUpdate
    <3> QED BY <1>i, <2>1, <3>1, InTimeJobs
  <2>2. CASE FindConfig(w, e) \/ Preflight(w, e) \/ SendRequest(w, e)
    <3>1. PICK pc \in Pc : Step(w, e, pc)
      BY <2>2 DEF FindConfig, Preflight, SendRequest, Pc
    <3>2. LET j == [pc |-> pc, delivery |-> job[w][e].delivery] IN
          j \in Job /\ job' = [job EXCEPT ![w][e] = j]
      BY <1>t, <3>1, StepUpdate
    <3> QED BY <2>1, <2>2, <3>2 DEF FindConfig, Preflight, SendRequest, Live
  <2>3. ASSUME NEW new \in Row, Answered(w, e, new), Live(w, e),
               new.claimedAt = job[w][e].delivery.claimedAt
        PROVE  InTime(d)'
    <3>1. [pc |-> "completing", delivery |-> new] \in Job
      BY DEF Job, Pc
    <3> QED BY <2>1, <2>3, <3>1 DEF Answered
  <2>0. job[w][e].delivery \in Row
    BY <1>t DEF Job
  <2>4. CASE Accepted(w, e) \/ Rejected(w, e)
    <3>1. PICK s \in {"succeeded", "failed"} :
             Answered(w, e, Settle(job[w][e].delivery, s, NoTime))
      BY <2>4 DEF Accepted, Rejected
    <3>2. s \in Status /\ NoTime \in Nat
      BY DEF Status
    <3>3. LET new == Settle(job[w][e].delivery, s, NoTime) IN
          new \in Row /\ new.claimedAt = job[w][e].delivery.claimedAt
      BY <2>0, <3>2, SettleRow
    <3> QED BY <2>3, <2>4, <3>1, <3>3 DEF Accepted, Rejected, Live
  <2>5. CASE Unavailable(w, e)
    <3>1. PICK t \in AppClock,
               delay \in RetryDelay[job[w][e].delivery.attemptCount] :
             Answered(w, e, Retry(job[w][e].delivery, t, delay))
      BY <2>5 DEF Unavailable
    <3>2. job[w][e].delivery.attemptCount < MaxAttempts /\ t \in Nat
      BY <1>t, <2>5 DEF Unavailable, Base, GoodJob
    <3>3. LET new == Retry(job[w][e].delivery, t, delay) IN
          new \in Row /\ new.claimedAt = job[w][e].delivery.claimedAt
      BY <2>0, <3>2, RetryRow
    <3> QED BY <2>3, <2>5, <3>1, <3>3 DEF Unavailable, Live
  <2>6. ASSUME Finish(w, e), now' = now, Live(w, e),
               d # e => deliveries'[d] = deliveries[d]
        PROVE  InTime(d)'
    <3>1. /\ job'[w][e] = NoJob
          /\ \A v \in Worker : v # w \/ d # e => job'[v][d] = job[v][d]
      BY <2>6, FinishJob
    <3>2. CASE d = e
      BY <1>i, <2>6, <3>1, <3>2, InTimeNobody DEF Live, NoJob
    <3>3. CASE d # e
      BY <1>i, <2>6, <3>1, <3>3, InTimeJobs
    <3> QED BY <3>2, <3>3
  <2>7. CASE \/ CompleteDelivery(w, e) \/ CancelDelivery(w, e)
             \/ FailClaimedDelivery(w, e) \/ Abandon(w, e)
    BY <1>t, <2>6, <2>7 DEF CompleteDelivery, CancelDelivery,
       FailClaimedDelivery, Abandon, Live
  <2> QED BY <1>5, <2>2, <2>4, <2>5, <2>7 DEF DispatchStep
<1>6. ASSUME NEW rows \in SUBSET Delivery, ReplayStep(rows) PROVE InTime(d)'
  <2>1. UNCHANGED <<job, now>>
    BY <1>6 DEF ReplayStep, BeginReplay, CommitReplay, AbortReplay
  <2>2. \/ deliveries'[d] = deliveries[d]
        \/ deliveries[d].status \in {"failed", "pending"}
    BY <1>6 DEF ReplayStep, BeginReplay, CommitReplay, AbortReplay,
       LockedReplayable, Locked
  <2> QED BY <1>i, <1>j, <2>1, <2>2
<1>7. CASE Tick
  <2>1. \A w \in Worker : Live(w, d) => now + 1 =< Token(w, d) + JobDeadline
    BY <1>7, <1>t, ClockAssumption DEF Tick, Token
  <2> QED BY <1>7, <1>i, <2>1 DEF Tick, InTime, Live, HoldsClaim, Token
<1>8. CASE UNCHANGED vars
  BY <1>8, <1>j DEF vars
<1> QED BY <1>1, <1>2, <1>3, <1>4, <1>5, <1>6, <1>7, <1>8 DEF Next

\* If no dispatchOne outlives staleDeliveryClaimAge, the skew of the clocks
\* subtracted, recovery never takes a delivery from a goroutine that still
\* works on it: one dispatcher at a time, and no late completion.
THEOREM DispatchExclusive ==
    ASSUME JobDeadline + ClockSkew =< StaleAge
    PROVE  Spec => []ExclusiveDispatch
<1>1. Init => Prompt
  BY DEF Init, Prompt, InTime, Live, NoJob
<1>2. Base /\ Claims /\ LockedReplayable /\ Prompt /\ [Next]_vars => Prompt'
  BY PromptNext
<1>3. Claims /\ Prompt => ExclusiveDispatch
  BY Alone DEF Prompt, InTime, ExclusiveDispatch
<1> QED BY <1>1, <1>2, <1>3, ClaimsInvariant, PTL DEF Spec
=============================================================================
