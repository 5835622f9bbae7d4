--------------------------- MODULE ContractProofs ---------------------------
(***************************************************************************)
(* Every row of the table of deliveries implements DeliveryContract, and   *)
(* what follows from that: the audit log agrees with the row, terminal     *)
(* rows stay, the retry window never restarts, and what the endpoint sees  *)
(* of it: requests inside the window, cancellations with a reason.         *)
(***************************************************************************)
EXTENDS DeliveriesProofs, DeliveriesHistory

USE DEF NoTime

\* A row that does not exist has no history.
Unborn ==
    \A d \in Delivery :
        deliveries[d].status = "none" =>
            /\ deliveries[d].attemptCount = 0
            /\ deliveries[d].replayGeneration = 0
            /\ deliveries[d].cycleStartedAt = NoTime

Inv == Base /\ Claims /\ LockedReplayable /\ Unborn

\* What a step may do to a row: nothing at all, or, if the row is not at its
\* end, something the contract allows; a failed row can only be replayed.
SameRow(d) == deliveries'[d] = deliveries[d] /\ attempts'[d] = attempts[d]

Evolves(d) ==
    /\ deliveries[d].status \notin {"succeeded", "cancelled"}
    /\ deliveries[d].status = "failed" => Contract(d)!Replay
    /\ [Contract(d)!Next]_(Contract(d)!vars)

\* Steps that leave count, generation, window and log alone.
LEMMA StatusStep ==
    ASSUME NEW d \in Delivery,
           <<deliveries[d].status, deliveries'[d].status>> \in
              {<<"none", "pending">>, <<"delivering", "pending">>,
               <<"delivering", "failed">>, <<"pending", "cancelled">>,
               <<"delivering", "cancelled">>, <<"pending", "pending">>},
           deliveries'[d].attemptCount = deliveries[d].attemptCount,
           deliveries'[d].replayGeneration = deliveries[d].replayGeneration,
           deliveries'[d].cycleStartedAt = deliveries[d].cycleStartedAt,
           attempts'[d] = attempts[d]
    PROVE  Evolves(d)
<1>1. deliveries[d].status \notin {"succeeded", "cancelled", "failed"}
  OBVIOUS
<1>2. CASE deliveries[d].status = deliveries'[d].status
  BY <1>1, <1>2 DEF Evolves, Contract!vars
<1>3. CASE deliveries[d].status # deliveries'[d].status
  BY <1>1, <1>3 DEF Evolves, Contract!Next, Contract!Enqueue, Contract!Release,
     Contract!GiveUp, Contract!Cancel, Contract!Become
<1> QED BY <1>2, <1>3

\* A claim opens the retry window, or leaves the open one alone.
LEMMA ClaimStep ==
    ASSUME Base, NEW d \in Delivery, deliveries[d].status = "pending",
           deliveries'[d] = Claim(deliveries[d]), attempts'[d] = attempts[d]
    PROVE  Evolves(d)
<1> DEFINE row == deliveries[d]
<1>1. row \in Row /\ now \in Nat /\ now > 0
  BY ClockAssumption DEF Base, TypeOK
<1> HIDE DEF row
<1>2. /\ Claim(row).status = "delivering"
      /\ Claim(row).attemptCount = row.attemptCount
      /\ Claim(row).replayGeneration = row.replayGeneration
  BY <1>1, ClaimRow
<1>3. /\ Claim(row).cycleStartedAt > 0
      /\ row.cycleStartedAt # 0 => Claim(row).cycleStartedAt = row.cycleStartedAt
  BY <1>1 DEF Claim, Row
<1>4. Contract(d)!Claim
  BY <1>2, <1>3 DEF row, Contract!Claim, Contract!Become
<1> QED BY <1>4 DEF Evolves, Contract!Next

\* A completion that holds the claim counts one attempt and logs it.
LEMMA CompletionStep ==
    ASSUME Inv, NEW w \in Worker, NEW d \in Delivery,
           job[w][d].pc = "completing",
           HoldsClaim(d, job[w][d].delivery),
           deliveries'[d] = Completed(d, job[w][d].delivery),
           attempts'[d] = attempts[d] \cup {AttemptOf(job[w][d].delivery)}
    PROVE  Evolves(d)
<1> DEFINE mine == job[w][d].delivery
           row == deliveries[d]
           new == Completed(d, mine)
<1>1. mine \in Row /\ row \in Row
  BY DEF Inv, Base, TypeOK, Job
<1>2. row.status = "delivering"
  BY DEF HoldsClaim
<1>3. GoodJob(job[w][d])
  BY DEF Inv, Base
<1>4. /\ mine.status \in {"succeeded", "failed", "pending"}
      /\ GoodRow(mine)
  BY <1>3 DEF GoodJob
<1>5. Agrees(job[w][d], row)
  BY <1>2 DEF Inv, Claims, Fenced, Live
<1>6. /\ mine.replayGeneration = row.replayGeneration
      /\ mine.cycleStartedAt = row.cycleStartedAt
      /\ mine.attemptCount - 1 = row.attemptCount
  BY <1>5 DEF Agrees, Before
<1>7. mine.attemptCount = row.attemptCount + 1 /\ row.attemptCount < MaxAttempts
  <2>1. mine.attemptCount \in Nat /\ row.attemptCount \in Nat
    BY <1>1 DEF Row
  <2>2. row.attemptCount < MaxAttempts
    BY <1>2 DEF Inv, Base, GoodRow
  <2> HIDE DEF mine, row
  <2> QED BY <1>6, <2>1, <2>2
<1>8. /\ new.status = IF mine.status # "succeeded" /\ ~Active(ConfigOf(d))
                      THEN "cancelled" ELSE mine.status
      /\ new.attemptCount = mine.attemptCount
      /\ new.replayGeneration = row.replayGeneration
      /\ new.cycleStartedAt = mine.cycleStartedAt
  BY <1>1, CompletedRow
<1>9. PICK outcome \in Outcome :
         /\ outcome = "succeeded" <=> mine.status = "succeeded"
         /\ AttemptOf(mine) = [generation |-> mine.replayGeneration,
                               number |-> mine.attemptCount,
                               outcome |-> outcome]
  BY DEF AttemptOf, Outcome
<1>10. mine.status = "pending" => mine.attemptCount < MaxAttempts
  BY <1>4 DEF GoodRow
<1>11. /\ deliveries'[d].status \in {"pending", "succeeded", "failed", "cancelled"}
       /\ deliveries'[d].status = "succeeded" <=> outcome = "succeeded"
       /\ deliveries'[d].status = "pending" => row.attemptCount + 1 < MaxAttempts
  BY <1>4, <1>7, <1>8, <1>9, <1>10
<1>12. /\ deliveries'[d].attemptCount = row.attemptCount + 1
       /\ deliveries'[d].replayGeneration = row.replayGeneration
       /\ deliveries'[d].cycleStartedAt = row.cycleStartedAt
  BY <1>6, <1>7, <1>8
<1>13. attempts'[d] = attempts[d] \cup
          {[generation |-> row.replayGeneration,
            number |-> row.attemptCount + 1, outcome |-> outcome]}
  BY <1>6, <1>7, <1>9
<1> HIDE DEF mine, new
<1>14. Contract(d)!Attempt(outcome)
  BY <1>2, <1>7, <1>11, <1>12, <1>13 DEF Contract!Attempt, Contract!Entry
<1>15. Contract(d)!Next
  BY <1>14 DEF Contract!Next, Outcome
<1> QED BY <1>2, <1>15 DEF Evolves

\* A replay opens the next generation of a failed row, expedites a pending one.
LEMMA ReplayStepRow ==
    ASSUME NEW d \in Delivery, NEW t \in Nat, deliveries[d] \in Row,
           deliveries[d].status \in {"failed", "pending"},
           deliveries'[d] = Replayed(deliveries[d], t),
           attempts'[d] = attempts[d]
    PROVE  Evolves(d)
<1> DEFINE row == deliveries[d]
<1>1. CASE row.status = "failed"
  <2> HIDE DEF row
  <2>0. row \in Row
    BY DEF row
  <2>1. /\ Replayed(row, t).status = "pending"
        /\ Replayed(row, t).attemptCount = 0
        /\ Replayed(row, t).cycleStartedAt = 0
    BY <1>1, <2>0, ReplayedRow
  <2>2. Replayed(row, t).replayGeneration = row.replayGeneration + 1
    BY <1>1, <2>0, ReplayedRow
  <2>3. Contract(d)!Replay
    BY <1>1, <2>1, <2>2 DEF row, Contract!Replay
  <2> QED BY <1>1, <2>3 DEF row, Evolves, Contract!Next
<1>2. CASE row.status = "pending"
  <2> HIDE DEF row
  <2>0. row \in Row
    BY DEF row
  <2>1. /\ Replayed(row, t).status = row.status
        /\ Replayed(row, t).attemptCount = row.attemptCount
        /\ Replayed(row, t).replayGeneration = row.replayGeneration
        /\ Replayed(row, t).cycleStartedAt = row.cycleStartedAt
    BY <1>2, <2>0, ReplayedRow
  <2> QED BY <1>2, <2>1, StatusStep DEF row
<1> QED BY <1>1, <1>2
-----------------------------------------------------------------------------
\* No row exists at first.
LEMMA ContractInit == Init => Unborn /\ \A d \in Delivery : Contract(d)!Init
BY DEF Init, Unborn, NoRow, Contract!Init

\* Whatever the step, every row is left alone or evolves as the contract says.
LEMMA RowsEvolve ==
    Inv /\ [Next]_vars => \A d \in Delivery : SameRow(d) \/ Evolves(d)
<1> SUFFICES ASSUME Inv, [Next]_vars
             PROVE  \A d \in Delivery : SameRow(d) \/ Evolves(d)
  OBVIOUS
<1>b. Base /\ Claims /\ LockedReplayable /\ Unborn
  BY DEF Inv
<1>t. /\ deliveries \in [Delivery -> Row]
      /\ attempts \in [Delivery -> SUBSET Attempt]
      /\ now \in Nat
      /\ \A t \in AppClock : t \in Nat
  BY <1>b, AppClockType DEF Base, TypeOK
<1>s. "failed" \in Status /\ "cancelled" \in Status
  BY DEF Status
<1>1. ASSUME NEW e \in Event, EnqueueEvent(e), NEW d \in Delivery
      PROVE  SameRow(d) \/ Evolves(d)
  <2>1. PICK createdAt \in AppClock :
           \/ deliveries'[d] = deliveries[d]
           \/ /\ deliveries[d].status = "none"
              /\ deliveries'[d] = NewDelivery(createdAt)
    BY <1>1 DEF EnqueueEvent
  <2>2. attempts'[d] = attempts[d]
    BY <1>1 DEF EnqueueEvent
  <2>3. CASE deliveries'[d] = deliveries[d]
    BY <2>2, <2>3 DEF SameRow
  <2>4. CASE deliveries[d].status = "none" /\ deliveries'[d] = NewDelivery(createdAt)
    <3>1. /\ deliveries'[d].status = "pending"
          /\ deliveries'[d].attemptCount = 0
          /\ deliveries'[d].replayGeneration = 0
          /\ deliveries'[d].cycleStartedAt = NoTime
      BY <1>t, <2>4, NewRow
    <3>2. /\ deliveries[d].attemptCount = 0
          /\ deliveries[d].replayGeneration = 0
          /\ deliveries[d].cycleStartedAt = NoTime
      BY <1>b, <2>4 DEF Unborn
    <3> QED BY <2>2, <2>4, <3>1, <3>2, StatusStep
  <2> QED BY <2>1, <2>3, <2>4
<1>2. ASSUME NEW c \in Config, ConfigStep(c), NEW d \in Delivery
      PROVE  SameRow(d) \/ Evolves(d)
  <2>1. /\ attempts'[d] = attempts[d]
        /\ \/ deliveries'[d] = deliveries[d]
           \/ /\ deliveries[d].status = "pending"
              /\ deliveries'[d] = Cancelled(deliveries[d])
    BY <1>2 DEF ConfigStep, InsertOneConfig, Activate, Deactivate,
       DeleteOneConfig, SwitchOff, cancelPendingDeliveries
  <2>2. CASE deliveries[d].status = "pending"
             /\ deliveries'[d] = Cancelled(deliveries[d])
    BY <1>t, <2>1, <2>2, CancelledRow, StatusStep
  <2> QED BY <2>1, <2>2 DEF SameRow
<1>3. ASSUME NEW w \in Worker, ClaimDeliveries(w), NEW d \in Delivery
      PROVE  SameRow(d) \/ Evolves(d)
  <2>1. /\ attempts'[d] = attempts[d]
        /\ \/ deliveries'[d] = deliveries[d]
           \/ /\ deliveries[d].status = "pending"
              /\ deliveries'[d] = Claim(deliveries[d])
    BY <1>3 DEF ClaimDeliveries, Due
  <2> QED BY <1>b, <2>1, ClaimStep DEF SameRow
<1>4. ASSUME NEW w \in Worker, RecoverStaleDeliveries(w), NEW d \in Delivery
      PROVE  SameRow(d) \/ Evolves(d)
  <2>1. /\ attempts'[d] = attempts[d]
        /\ \/ deliveries'[d] = deliveries[d]
           \/ /\ deliveries[d].status = "delivering"
              /\ deliveries'[d] = Recovered(d)
    BY <1>4 DEF RecoverStaleDeliveries, Stale
  <2>2. CASE deliveries[d].status = "delivering"
             /\ deliveries'[d] = Recovered(d)
    BY <1>t, <2>1, <2>2, RecoveredRow, StatusStep
  <2> QED BY <2>1, <2>2 DEF SameRow
<1>5. ASSUME NEW w \in Worker, NEW e \in Delivery, DispatchStep(w, e),
             NEW d \in Delivery
      PROVE  SameRow(d) \/ Evolves(d)
  <2>1. CASE UNCHANGED <<deliveries, attempts>>
    BY <2>1 DEF SameRow
  <2>2. CASE CompleteDelivery(w, e)
    <3>1. CASE d = e /\ HoldsClaim(e, job[w][e].delivery)
                    /\ IsNewAttempt(e, job[w][e].delivery)
      <4>1. /\ job[w][d].pc = "completing"
            /\ deliveries'[d] = Completed(d, job[w][d].delivery)
            /\ attempts'[d] = attempts[d] \cup {AttemptOf(job[w][d].delivery)}
        BY <1>t, <2>2, <3>1 DEF CompleteDelivery
      <4> QED BY <3>1, <4>1, CompletionStep
    <3>2. CASE ~(d = e /\ HoldsClaim(e, job[w][e].delivery)
                       /\ IsNewAttempt(e, job[w][e].delivery))
      BY <1>t, <2>2, <3>2 DEF CompleteDelivery, SameRow
    <3> QED BY <3>1, <3>2
  <2>3. CASE CancelDelivery(w, e)
    <3>1. /\ attempts'[d] = attempts[d]
          /\ \/ deliveries'[d] = deliveries[d]
             \/ /\ deliveries[d].status \in {"pending", "delivering"}
                /\ deliveries'[d] = Closed(deliveries[d], "cancelled")
      BY <1>t, <2>3 DEF CancelDelivery
    <3>2. CASE deliveries[d].status \in {"pending", "delivering"}
               /\ deliveries'[d] = Closed(deliveries[d], "cancelled")
      <4>1. /\ deliveries'[d].status = "cancelled"
            /\ deliveries'[d].attemptCount = deliveries[d].attemptCount
            /\ deliveries'[d].replayGeneration = deliveries[d].replayGeneration
            /\ deliveries'[d].cycleStartedAt = deliveries[d].cycleStartedAt
        BY <1>t, <1>s, <3>2, ClosedRow
      <4> QED BY <3>1, <3>2, <4>1, StatusStep
    <3> QED BY <3>1, <3>2 DEF SameRow
  <2>4. CASE FailClaimedDelivery(w, e)
    <3>1. /\ attempts'[d] = attempts[d]
          /\ \/ deliveries'[d] = deliveries[d]
             \/ /\ deliveries[d].status = "delivering"
                /\ deliveries'[d] = Closed(deliveries[d], "failed")
      BY <1>t, <2>4 DEF FailClaimedDelivery, HoldsClaim
    <3>2. CASE deliveries[d].status = "delivering"
               /\ deliveries'[d] = Closed(deliveries[d], "failed")
      <4>1. /\ deliveries'[d].status = "failed"
            /\ deliveries'[d].attemptCount = deliveries[d].attemptCount
            /\ deliveries'[d].replayGeneration = deliveries[d].replayGeneration
            /\ deliveries'[d].cycleStartedAt = deliveries[d].cycleStartedAt
        BY <1>t, <1>s, <3>2, ClosedRow
      <4> QED BY <3>1, <3>2, <4>1, StatusStep
    <3> QED BY <3>1, <3>2 DEF SameRow
  <2> QED BY <1>5, <2>1, <2>2, <2>3, <2>4
          DEF DispatchStep, FindConfig, Preflight, SendRequest, Accepted,
              Rejected, Unavailable, Answered, Abandon
<1>6. ASSUME NEW rows \in SUBSET Delivery, ReplayStep(rows), NEW d \in Delivery
      PROVE  SameRow(d) \/ Evolves(d)
  <2>1. CASE BeginReplay(rows) \/ AbortReplay(rows)
    BY <2>1 DEF BeginReplay, AbortReplay, SameRow
  <2>2. CASE CommitReplay(rows)
    <3>1. PICK t \in AppClock :
             deliveries'[d] = IF d \in rows THEN Replayed(deliveries[d], t)
                              ELSE deliveries[d]
      BY <2>2 DEF CommitReplay
    <3>2. attempts'[d] = attempts[d]
      BY <2>2 DEF CommitReplay
    <3>3. d \in rows => deliveries[d].status \in {"failed", "pending"}
      BY <1>b, <2>2 DEF CommitReplay, LockedReplayable, Locked
    <3> QED BY <1>t, <3>1, <3>2, <3>3, ReplayStepRow DEF SameRow
  <2> QED BY <1>6, <2>1, <2>2 DEF ReplayStep
<1>7. ASSUME Tick \/ UNCHANGED vars, NEW d \in Delivery
      PROVE  SameRow(d) \/ Evolves(d)
  BY <1>7 DEF Tick, vars, SameRow
<1> QED BY <1>1, <1>2, <1>3, <1>4, <1>5, <1>6, <1>7 DEF Next

\* A row that is touched exists afterwards.
LEMMA InvNext == Inv /\ [Next]_vars => Inv'
<1> SUFFICES ASSUME Inv, [Next]_vars PROVE Inv'
  OBVIOUS
<1>1. Base' /\ Claims' /\ LockedReplayable'
  BY BaseNext, ClaimsNext DEF Inv
<1>2. Unborn'
  <2> SUFFICES ASSUME NEW d \in Delivery, deliveries'[d].status = "none"
               PROVE  /\ deliveries[d].status = "none"
                      /\ deliveries'[d].attemptCount = deliveries[d].attemptCount
                      /\ deliveries'[d].replayGeneration
                            = deliveries[d].replayGeneration
                      /\ deliveries'[d].cycleStartedAt
                            = deliveries[d].cycleStartedAt
    BY DEF Inv, Unborn
  <2>1. SameRow(d) \/ Evolves(d)
    BY RowsEvolve
  <2>2. Contract(d)!Next => deliveries'[d].status # "none"
    BY DEF Contract!Next, Contract!Enqueue, Contract!Claim, Contract!Release,
       Contract!GiveUp, Contract!Cancel, Contract!Attempt, Contract!Replay,
       Contract!Become
  <2> QED BY <2>1, <2>2 DEF SameRow, Evolves, Contract!vars
<1> QED BY <1>1, <1>2 DEF Inv

\* The invariant the theorems below rest on.
THEOREM Invariant == Spec => []Inv
BY BaseInit, ClaimsInit, ContractInit, InvNext, PTL DEF Spec, Inv

\* Every row implements DeliveryContract: the transactions and goroutines of
\* all processes, seen through the columns of one delivery and its attempts,
\* take only the steps an isolated delivery may take.
THEOREM Refinement == Spec => RowsKeepContract
<1>1. Inv /\ [Next]_vars =>
         [\A d \in Delivery : [Contract(d)!Next]_(Contract(d)!vars)]_vars
  <2> SUFFICES ASSUME Inv, [Next]_vars, NEW d \in Delivery
               PROVE  [Contract(d)!Next]_(Contract(d)!vars)
    OBVIOUS
  <2> QED BY RowsEvolve DEF SameRow, Evolves, Contract!vars
<1> QED BY <1>1, Invariant, ContractInit, PTL DEF Spec, RowsKeepContract

\* Succeeded and cancelled rows never change again and a failed one changes
\* only by a replay, which renews its budget and its window.
THEOREM TerminalRowsStay == Spec => TerminalStable
<1>1. Inv /\ [Next]_vars =>
         [\A d \in Delivery :
            LET row == deliveries[d] IN
            /\ row.status \in {"succeeded", "cancelled"} => deliveries'[d] = row
            /\ row.status = "failed" =>
                  \/ deliveries'[d] = row
                  \/ /\ deliveries'[d].status = "pending"
                     /\ deliveries'[d].replayGeneration
                           = row.replayGeneration + 1
                     /\ deliveries'[d].attemptCount = 0
                     /\ deliveries'[d].cycleStartedAt = NoTime]_vars
  BY RowsEvolve DEF SameRow, Evolves, Contract!Replay
<1> QED BY <1>1, Invariant, PTL DEF Spec, TerminalStable

\* Inside a generation the attempt counter moves up by single steps and the
\* start of the retry window, once set, stays.
THEOREM WindowKept == Spec => WindowNeverRestarts
<1>1. Inv /\ [Next]_vars =>
         [\A d \in Delivery :
            LET row == deliveries[d] IN
            deliveries'[d].replayGeneration = row.replayGeneration =>
               /\ deliveries'[d].attemptCount \in
                     {row.attemptCount, row.attemptCount + 1}
               /\ row.cycleStartedAt # NoTime =>
                     deliveries'[d].cycleStartedAt = row.cycleStartedAt]_vars
  <2> SUFFICES ASSUME Inv, [Next]_vars, NEW d \in Delivery,
                      deliveries'[d].replayGeneration = deliveries[d].replayGeneration
               PROVE  /\ deliveries'[d].attemptCount \in
                            {deliveries[d].attemptCount,
                             deliveries[d].attemptCount + 1}
                      /\ deliveries[d].cycleStartedAt # NoTime =>
                            deliveries'[d].cycleStartedAt
                               = deliveries[d].cycleStartedAt
    OBVIOUS
  <2>1. deliveries[d].replayGeneration \in Nat
    BY DEF Inv, Base, TypeOK, Row
  <2>2. ~Contract(d)!Replay
    BY <2>1 DEF Contract!Replay
  <2>3. SameRow(d) \/ [Contract(d)!Next]_(Contract(d)!vars)
    BY RowsEvolve DEF Evolves
  <2> QED BY <2>2, <2>3 DEF SameRow, Contract!vars, Contract!Next,
         Contract!Enqueue, Contract!Claim, Contract!Release, Contract!GiveUp,
         Contract!Cancel, Contract!Attempt, Contract!Become
<1> QED BY <1>1, Invariant, PTL DEF Spec, WindowNeverRestarts

-----------------------------------------------------------------------------
(***************************************************************************)
(* The ledger, for one delivery.  Failed attempts of the current           *)
(* generation and all of the earlier ones stay; an attempt that succeeds   *)
(* ends the delivery, so there is no other after it.                       *)
(***************************************************************************)
Ledger(d) ==
    /\ attempts[d] \subseteq Attempt
    /\ \A a \in attempts[d] :
          /\ a.generation =< deliveries[d].replayGeneration
          /\ a.generation = deliveries[d].replayGeneration =>
                a.number \in 1..deliveries[d].attemptCount
    /\ \A n \in 1..deliveries[d].attemptCount : \E a \in attempts[d] :
          a.generation = deliveries[d].replayGeneration /\ a.number = n
    /\ deliveries[d].status = "succeeded"
          <=> \E a \in attempts[d] : a.outcome = "succeeded"

\* The ledger is what the property says.
LEMMA LedgerMeaning == (\A d \in Delivery : Ledger(d)) => AttemptLedger
BY DEF Ledger, AttemptLedger, Numbers, Attempt

\* A step that keeps count, generation and log, and neither enters nor leaves
\* success, keeps the ledger.
LEMMA LedgerKept ==
    ASSUME NEW d \in Delivery, Ledger(d),
           attempts'[d] = attempts[d],
           deliveries'[d].attemptCount = deliveries[d].attemptCount,
           deliveries'[d].replayGeneration = deliveries[d].replayGeneration,
           deliveries'[d].status = "succeeded" <=> deliveries[d].status = "succeeded"
    PROVE  Ledger(d)'
BY DEF Ledger

\* A replay starts an empty page of the ledger.
LEMMA LedgerReplay ==
    ASSUME NEW d \in Delivery, Ledger(d), deliveries[d] \in Row,
           Contract(d)!Replay
    PROVE  Ledger(d)'
<1> DEFINE g == deliveries[d].replayGeneration
<1>1. /\ deliveries'[d].replayGeneration = g + 1
      /\ deliveries'[d].attemptCount = 0
      /\ deliveries[d].status = "failed" /\ deliveries'[d].status = "pending"
      /\ attempts'[d] = attempts[d]
  BY DEF Contract!Replay
<1>2. g \in Nat
  BY DEF Row
<1>3. \A a \in attempts[d] : a.generation \in Nat /\ a.generation =< g
  BY DEF Ledger, Attempt
<1>4. attempts[d] \subseteq Attempt /\ \A a \in attempts[d] : a.outcome # "succeeded"
  BY <1>1 DEF Ledger
<1> HIDE DEF g
<1>5. \A a \in attempts'[d] : a.generation =< g + 1 /\ a.generation # g + 1
  BY <1>1, <1>2, <1>3
<1>6. 1..0 = {}
  OBVIOUS
<1> QED BY <1>1, <1>4, <1>5, <1>6 DEF Ledger

\* An attempt adds the next number.
LEMMA LedgerAttempt ==
    ASSUME NEW d \in Delivery, Ledger(d), deliveries[d] \in Row,
           NEW outcome \in Outcome, Contract(d)!Attempt(outcome)
    PROVE  Ledger(d)'
<1> DEFINE g == deliveries[d].replayGeneration
           n == deliveries[d].attemptCount
           entry == [generation |-> g, number |-> n + 1, outcome |-> outcome]
<1>1. /\ deliveries'[d].replayGeneration = g
      /\ deliveries'[d].attemptCount = n + 1
      /\ deliveries[d].status = "delivering"
      /\ deliveries'[d].status = "succeeded" <=> outcome = "succeeded"
      /\ attempts'[d] = attempts[d] \cup {entry}
  BY DEF Contract!Attempt, Contract!Entry
<1>2. g \in Nat /\ n \in Nat
  BY DEF Row
<1>3. entry \in Attempt
  BY <1>2 DEF Attempt
<1>4. /\ attempts[d] \subseteq Attempt
      /\ \A a \in attempts[d] : a.generation =< g
      /\ \A a \in attempts[d] : a.generation = g => a.number \in 1..n
      /\ \A i \in 1..n : \E a \in attempts[d] : a.generation = g /\ a.number = i
      /\ \A a \in attempts[d] : a.outcome # "succeeded"
  BY <1>1 DEF Ledger
<1>5. /\ entry.generation = g /\ entry.number = n + 1
      /\ entry.outcome = outcome
  OBVIOUS
<1> HIDE DEF g, n, entry
<1>6. /\ attempts'[d] \subseteq Attempt
      /\ \A a \in attempts'[d] : a.generation =< g
      /\ \A a \in attempts'[d] : a.generation = g => a.number \in 1..(n + 1)
  BY <1>1, <1>2, <1>3, <1>4, <1>5
<1>7. ASSUME NEW i \in 1..(n + 1)
      PROVE  \E a \in attempts'[d] : a.generation = g /\ a.number = i
  <2>1. i \in 1..n \/ i = n + 1
    BY <1>2
  <2> QED BY <1>1, <1>4, <1>5, <2>1
<1>8. (\E a \in attempts'[d] : a.outcome = "succeeded") <=> outcome = "succeeded"
  BY <1>1, <1>4, <1>5
<1> QED BY <1>1, <1>6, <1>7, <1>8 DEF Ledger

\* Every step keeps every ledger.
LEMMA LedgerNext ==
    Inv /\ (\A d \in Delivery : Ledger(d)) /\ [Next]_vars
       => (\A d \in Delivery : Ledger(d))'
<1> SUFFICES ASSUME Inv, [Next]_vars, NEW d \in Delivery, Ledger(d)
             PROVE  Ledger(d)'
  OBVIOUS
<1>1. deliveries[d] \in Row
  BY DEF Inv, Base, TypeOK
<1>2. CASE SameRow(d) \/ UNCHANGED Contract(d)!vars
  BY <1>2, LedgerKept DEF SameRow, Contract!vars
<1>3. CASE Contract(d)!Next
  <2>1. CASE \/ Contract(d)!Enqueue \/ Contract(d)!Claim \/ Contract(d)!Release
             \/ Contract(d)!GiveUp \/ Contract(d)!Cancel
    BY <2>1, LedgerKept DEF Contract!Enqueue, Contract!Claim, Contract!Release,
       Contract!GiveUp, Contract!Cancel, Contract!Become
  <2> QED BY <1>1, <1>3, <2>1, LedgerReplay, LedgerAttempt
          DEF Contract!Next, Outcome
<1>4. SameRow(d) \/ Evolves(d)
  BY RowsEvolve
<1> QED BY <1>2, <1>3, <1>4 DEF Evolves

\* The audit log of a delivery agrees with its row in every state: attempts
\* 1..attempt_count of the current generation, none of a later one, and a
\* successful one exactly when the row says succeeded.
THEOREM LedgerAgrees == Spec => []AttemptLedger
<1>1. Init => \A d \in Delivery : Ledger(d)
  BY DEF Init, Ledger, NoRow
<1> QED BY <1>1, Invariant, LedgerNext, LedgerMeaning, PTL DEF Spec
-----------------------------------------------------------------------------
(***************************************************************************)
(* What the endpoint has seen.  The causes of a change, of a row and of a  *)
(* goroutine, are all that the history variables depend on.                *)
(***************************************************************************)

\* Who changes a row, and when.
Cause(d) ==
    LET row == deliveries[d] IN
    \/ row.status = "none" /\ deliveries'[d].status = "pending"
    \/ row.status = "pending" /\ deliveries'[d].status = "cancelled"
    \/ /\ row.status = "pending" /\ deliveries'[d] = Claim(row)
       /\ Active(ConfigOf(d)) /\ configs' = configs
    \/ /\ row.status = "delivering" /\ deliveries'[d].status # "delivering"
       /\ deliveries'[d].status = "cancelled" =>
             ~Active(ConfigOf(d)) \/ \E w \in Worker : job[w][d].pc = "cancelling"
    \/ d \in Locked /\ row.status # "delivering" /\ deliveries'[d].status = "pending"

\* Every change of a row has one of these causes.
LEMMA RowCauses ==
    ASSUME Inv, [Next]_vars, NEW d \in Delivery, deliveries'[d] # deliveries[d]
    PROVE  Cause(d)
<1>b. Base /\ LockedReplayable
  BY DEF Inv
<1>t. /\ deliveries \in [Delivery -> Row]
      /\ now \in Nat
      /\ \A t \in AppClock : t \in Nat
      /\ \A w \in Worker : job[w][d].delivery \in Row
  BY <1>b, AppClockType DEF Base, TypeOK, Job
<1>s. "failed" \in Status /\ "cancelled" \in Status
  BY DEF Status
<1>1. ASSUME NEW e \in Event, EnqueueEvent(e) PROVE Cause(d)
  <2>1. PICK createdAt \in AppClock :
           deliveries[d].status = "none" /\ deliveries'[d] = NewDelivery(createdAt)
    BY <1>1 DEF EnqueueEvent
  <2> QED BY <1>t, <2>1, NewRow DEF Cause
<1>2. ASSUME NEW c \in Config, ConfigStep(c) PROVE Cause(d)
  <2>1. deliveries[d].status = "pending" /\ deliveries'[d] = Cancelled(deliveries[d])
    BY <1>2 DEF ConfigStep, InsertOneConfig, Activate, Deactivate,
       DeleteOneConfig, SwitchOff, cancelPendingDeliveries
  <2> QED BY <1>t, <2>1, CancelledRow DEF Cause
<1>3. ASSUME NEW w \in Worker, ClaimDeliveries(w) PROVE Cause(d)
  BY <1>3 DEF ClaimDeliveries, Due, Cause
<1>4. ASSUME NEW w \in Worker, RecoverStaleDeliveries(w) PROVE Cause(d)
  <2>1. deliveries[d].status = "delivering" /\ deliveries'[d] = Recovered(d)
    BY <1>4 DEF RecoverStaleDeliveries, Stale
  <2> QED BY <1>t, <2>1, RecoveredRow DEF Cause
<1>5. ASSUME NEW w \in Worker, NEW e \in Delivery, DispatchStep(w, e) PROVE Cause(d)
  <2>1. CASE CompleteDelivery(w, e)
    <3>1. /\ d = e /\ job[w][d].pc = "completing"
          /\ deliveries[d].status = "delivering"
          /\ deliveries'[d] = Completed(d, job[w][d].delivery)
      BY <1>t, <2>1 DEF CompleteDelivery, HoldsClaim
    <3>2. job[w][d].delivery.status \in {"succeeded", "failed", "pending"}
      BY <1>b, <3>1 DEF Base, GoodJob
    <3> QED BY <1>t, <3>1, <3>2, CompletedRow DEF Cause
  <2>2. CASE CancelDelivery(w, e)
    <3>1. /\ d = e /\ job[w][d].pc = "cancelling"
          /\ deliveries[d].status \in {"pending", "delivering"}
          /\ deliveries'[d] = Closed(deliveries[d], "cancelled")
      BY <1>t, <2>2 DEF CancelDelivery
    <3>2. deliveries'[d].status = "cancelled"
      BY <1>s, <1>t, <3>1, ClosedRow
    <3> QED BY <3>1, <3>2 DEF Cause
  <2>3. CASE FailClaimedDelivery(w, e)
    <3>1. /\ deliveries[d].status = "delivering"
          /\ deliveries'[d] = Closed(deliveries[d], "failed")
      BY <1>t, <2>3 DEF FailClaimedDelivery, HoldsClaim
    <3>2. deliveries'[d].status = "failed"
      BY <1>s, <1>t, <3>1, ClosedRow
    <3> QED BY <3>1, <3>2 DEF Cause
  <2> QED BY <1>5, <2>1, <2>2, <2>3
          DEF DispatchStep, FindConfig, Preflight, SendRequest, Accepted,
              Rejected, Unavailable, Answered, Abandon
<1>6. ASSUME NEW rows \in SUBSET Delivery, ReplayStep(rows) PROVE Cause(d)
  <2>1. PICK t \in AppClock : d \in Locked /\ deliveries'[d] = Replayed(deliveries[d], t)
    BY <1>6 DEF ReplayStep, BeginReplay, CommitReplay, AbortReplay, Locked
  <2>2. deliveries[d].status \in {"failed", "pending"}
    BY <1>b, <2>1 DEF LockedReplayable
  <2>3. deliveries'[d].status = "pending"
    BY <1>t, <2>1, <2>2, ReplayedRow
  <2> QED BY <2>1, <2>2, <2>3 DEF Cause
<1>7. ASSUME Tick \/ UNCHANGED vars PROVE FALSE
  BY <1>7 DEF Tick, vars
<1> QED BY <1>1, <1>2, <1>3, <1>4, <1>5, <1>6, <1>7 DEF Next

\* What a goroutine does in a step.  It moves on only inside its claim.
Moves(w, d) ==
    /\ Live(w, d) /\ deliveries'[d] = deliveries[d] /\ configs' = configs
    /\ job'[w][d].delivery.replayGeneration = job[w][d].delivery.replayGeneration
    /\ job'[w][d].delivery.cycleStartedAt = job[w][d].delivery.cycleStartedAt
    /\ job'[w][d].pc = "cancelling" => ~Active(ConfigOf(d))
    /\ job'[w][d].pc = "ready" =>
          /\ job[w][d].pc # "ready"
          /\ \E t \in AppClock : WithinBudget(job[w][d].delivery, t)
    /\ job'[w][d].pc = "sending" => job[w][d].pc = "ready"

Starts(w, d) ==
    /\ deliveries[d].status = "pending" /\ deliveries'[d] = Claim(deliveries[d])
    /\ job'[w][d] = [pc |-> "claimed", delivery |-> Claim(deliveries[d])]

Goes(w, d) ==
    \/ job'[w][d] = job[w][d]
    \/ job'[w][d] = NoJob
    \/ Moves(w, d)
    \/ Starts(w, d)

\* Every goroutine stays, ends, moves on or starts with a claim.
LEMMA JobsGo ==
    ASSUME Inv, [Next]_vars, NEW w \in Worker, NEW d \in Delivery
    PROVE  Goes(w, d)
<1>b. Base
  BY DEF Inv
<1>t. /\ job \in [Worker -> [Delivery -> Job]]
      /\ \A v \in Worker, e \in Delivery : job[v][e].delivery \in Row
      /\ \A t \in AppClock : t \in Nat
  BY <1>b, AppClockType DEF Base, TypeOK, Job
<1>1. ASSUME NEW v \in Worker, ClaimDeliveries(v) PROVE Goes(w, d)
  <2>1. PICK batch \in SUBSET Due :
          /\ deliveries' = [e \in Delivery |->
                IF e \in batch THEN Claim(deliveries[e]) ELSE deliveries[e]]
          /\ job' = [job EXCEPT ![v] = [e \in Delivery |->
                IF e \in batch
                THEN [pc |-> "claimed", delivery |-> Claim(deliveries[e])]
                ELSE NoJob]]
    BY <1>1 DEF ClaimDeliveries
  <2>2. /\ v # w => job'[w][d] = job[w][d]
        /\ v = w => job'[w][d] = IF d \in batch
              THEN [pc |-> "claimed", delivery |-> Claim(deliveries[d])]
              ELSE NoJob
    BY <1>t, <2>1
  <2>3. d \in batch => /\ deliveries[d].status = "pending"
                       /\ deliveries'[d] = Claim(deliveries[d])
    BY <2>1 DEF Due
  <2> QED BY <2>2, <2>3 DEF Goes, Starts
<1>2. ASSUME NEW v \in Worker, NEW e \in Delivery, DispatchStep(v, e)
      PROVE  Goes(w, d)
  <2>1. ASSUME NEW j \in Job, job' = [job EXCEPT ![v][e] = j], Live(v, e),
               UNCHANGED <<deliveries, configs>>,
               j.delivery.replayGeneration = job[v][e].delivery.replayGeneration,
               j.delivery.cycleStartedAt = job[v][e].delivery.cycleStartedAt,
               j.pc = "cancelling" => ~Active(ConfigOf(e)),
               j.pc = "ready" =>
                  /\ job[v][e].pc # "ready"
                  /\ \E t \in AppClock : WithinBudget(job[v][e].delivery, t),
               j.pc = "sending" => job[v][e].pc = "ready"
        PROVE  Goes(w, d)
    <3>1. /\ job'[v][e] = j
          /\ v # w \/ d # e => job'[w][d] = job[w][d]
      BY <1>t, <2>1, JobUpdate
    <3>2. CASE v = w /\ d = e
      BY <2>1, <3>1, <3>2 DEF Goes, Moves
    <3> QED BY <3>1, <3>2 DEF Goes
  <2>2. CASE FindConfig(v, e)
    <3> DEFINE pc == IF Active(ConfigOf(e)) THEN "checked" ELSE "cancelling"
               j == [pc |-> pc, delivery |-> job[v][e].delivery]
    <3>1. pc \in Pc /\ Step(v, e, pc) /\ pc \notin {"ready", "sending"}
      BY <2>2 DEF FindConfig, Pc
    <3>2. pc = "cancelling" => ~Active(ConfigOf(e))
      OBVIOUS
    <3> HIDE DEF pc
    <3>3. j \in Job /\ job' = [job EXCEPT ![v][e] = j]
      BY <1>t, <3>1, StepUpdate
    <3> QED BY <2>1, <2>2, <3>1, <3>2, <3>3 DEF FindConfig, Live
  <2>3. CASE Preflight(v, e)
    <3>1. PICK t \in AppClock :
             Step(v, e, IF WithinBudget(job[v][e].delivery, t)
                        THEN "ready" ELSE "failing")
      BY <2>3 DEF Preflight
    <3> DEFINE pc == IF WithinBudget(job[v][e].delivery, t)
                     THEN "ready" ELSE "failing"
               j == [pc |-> pc, delivery |-> job[v][e].delivery]
    <3>2. /\ pc \in Pc /\ Step(v, e, pc) /\ pc \notin {"cancelling", "sending"}
          /\ pc = "ready" => WithinBudget(job[v][e].delivery, t)
      BY <3>1 DEF Pc
    <3> HIDE DEF pc
    <3>3. j \in Job /\ job' = [job EXCEPT ![v][e] = j]
      BY <1>t, <3>2, StepUpdate
    <3> QED BY <2>1, <2>3, <3>2, <3>3 DEF Preflight, Live
  <2>8. CASE SendRequest(v, e)
    <3> DEFINE j == [pc |-> "sending", delivery |-> job[v][e].delivery]
    <3>1. Step(v, e, "sending") /\ "sending" \in Pc
      BY <2>8 DEF SendRequest, Pc
    <3>2. j \in Job /\ job' = [job EXCEPT ![v][e] = j]
      BY <1>t, <3>1, StepUpdate
    <3> QED BY <2>1, <2>8, <3>2 DEF SendRequest, Live
  <2>4. ASSUME NEW new \in Row, Answered(v, e, new), Live(v, e),
               new.replayGeneration = job[v][e].delivery.replayGeneration,
               new.cycleStartedAt = job[v][e].delivery.cycleStartedAt
        PROVE  Goes(w, d)
    <3>1. [pc |-> "completing", delivery |-> new] \in Job
      BY DEF Job, Pc
    <3> QED BY <2>1, <2>4, <3>1 DEF Answered
  <2>5. CASE Accepted(v, e) \/ Rejected(v, e)
    <3>1. PICK s \in {"succeeded", "failed"} :
             Answered(v, e, Settle(job[v][e].delivery, s, NoTime))
      BY <2>5 DEF Accepted, Rejected
    <3>2. s \in Status /\ NoTime \in Nat
      BY DEF Status
    <3>3. LET new == Settle(job[v][e].delivery, s, NoTime) IN
          /\ new \in Row
          /\ new.replayGeneration = job[v][e].delivery.replayGeneration
          /\ new.cycleStartedAt = job[v][e].delivery.cycleStartedAt
      BY <1>t, <3>2, SettleRow
    <3> QED BY <2>4, <2>5, <3>1, <3>3 DEF Accepted, Rejected, Live
  <2>6. CASE Unavailable(v, e)
    <3>1. PICK t \in AppClock,
               delay \in RetryDelay[job[v][e].delivery.attemptCount] :
             Answered(v, e, Retry(job[v][e].delivery, t, delay))
      BY <2>6 DEF Unavailable
    <3>2. job[v][e].delivery.attemptCount < MaxAttempts /\ t \in Nat
      BY <1>b, <1>t, <2>6 DEF Unavailable, Base, GoodJob
    <3>3. LET new == Retry(job[v][e].delivery, t, delay) IN
          /\ new \in Row
          /\ new.replayGeneration = job[v][e].delivery.replayGeneration
          /\ new.cycleStartedAt = job[v][e].delivery.cycleStartedAt
      BY <1>t, <3>2, RetryRow
    <3> QED BY <2>4, <2>6, <3>1, <3>3 DEF Unavailable, Live
  <2>7. CASE Finish(v, e)
    BY <1>b, <2>7, FinishJob DEF Goes
  <2> QED BY <1>2, <2>2, <2>3, <2>5, <2>6, <2>7, <2>8
          DEF DispatchStep, CompleteDelivery, CancelDelivery,
              FailClaimedDelivery, Abandon
<1>3. CASE UNCHANGED job
  BY <1>3 DEF Goes
<1> QED BY <1>1, <1>2, <1>3 DEF Next, EnqueueEvent, ConfigStep, InsertOneConfig,
        Activate, Deactivate, DeleteOneConfig, SwitchOff, RecoverStaleDeliveries,
        ReplayStep, BeginReplay, CommitReplay, AbortReplay, Tick, vars

\* A replay holds failed rows only if they may have another generation.
LockedRoom ==
    \A d \in Locked : deliveries[d].status = "failed" =>
        deliveries[d].replayGeneration < MaxGeneration

\* The first claim of each generation is remembered, and it is where the retry
\* window of the row, and of every goroutine, begins.
Opened(d) ==
    /\ opened[d] \in [Generation -> Nat]
    /\ deliveries[d].replayGeneration \in Generation
    /\ opened[d][deliveries[d].replayGeneration] = deliveries[d].cycleStartedAt
    /\ \A g \in Generation :
          g > deliveries[d].replayGeneration => opened[d][g] = NoTime
    /\ \A w \in Worker : Live(w, d) =>
          /\ job[w][d].delivery.replayGeneration \in Generation
          /\ opened[d][job[w][d].delivery.replayGeneration]
                = job[w][d].delivery.cycleStartedAt
          /\ job[w][d].delivery.cycleStartedAt # NoTime

\* A request that waits to be sent passed its preflight inside that window.
Approved(d) ==
    \A w \in Worker : job[w][d].pc = "ready" =>
        /\ approved[w][d] \in Nat \ {NoTime}
        /\ approved[w][d] - job[w][d].delivery.cycleStartedAt
              =< AbortAfter + ClockSkew

History == LockedRoom /\ \A d \in Delivery : Opened(d) /\ Approved(d)

\* The history variables watch the steps of Deliveries.
LEMMA Observed == [HNext]_hvars => [Next]_vars /\ (Observe \/ UNCHANGED hvars)
BY DEF HNext, Next, hvars, ConfigStep, DispatchStep, ReplayStep

\* Initially there is nothing to remember.
LEMMA HistoryInit == HInit => Init /\ History
<1> SUFFICES ASSUME HInit PROVE Init /\ History
  OBVIOUS
<1>1. Init
  BY DEF HInit
<1>2. LockedRoom
  BY <1>1 DEF Init, LockedRoom, Locked
<1>3. 0 \in Generation /\ Generation \subseteq Nat
  BY BoundAssumption DEF Generation
<1>4. ASSUME NEW d \in Delivery PROVE Opened(d)
  BY <1>1, <1>3 DEF HInit, Init, Opened, NoRow, NoJob, Live
<1>5. ASSUME NEW d \in Delivery PROVE Approved(d)
  BY <1>1 DEF Init, Approved, NoJob
<1> QED BY <1>1, <1>2, <1>4, <1>5 DEF History

\* A row that a replay holds as pending does not fail.
LEMMA LockedRoomNext ==
    ASSUME Inv, LockedRoom, [Next]_vars PROVE LockedRoom'
<1> SUFFICES ASSUME NEW d \in Locked', deliveries'[d].status = "failed"
             PROVE  deliveries'[d].replayGeneration < MaxGeneration
  BY DEF LockedRoom
<1>1. LockedReplayable /\ Base /\ Base'
  BY BaseNext DEF Inv
<1>2. d \in Delivery
  BY <1>1 DEF Base, TypeOK, Locked
<1>3. CASE d \in Locked
  <2>1. deliveries[d].status \in {"failed", "pending"}
    BY <1>1, <1>3 DEF LockedReplayable
  <2>2. deliveries'[d] = deliveries[d]
    <3> SUFFICES ASSUME deliveries'[d] # deliveries[d] PROVE FALSE
      OBVIOUS
    <3>1. Cause(d)
      BY <1>2, RowCauses
    <3>2. Claim(deliveries[d]).status = "delivering"
      BY <1>1, <1>2, ClaimRow DEF Base, TypeOK
    <3> QED BY <2>1, <3>1, <3>2 DEF Cause
  <2> QED BY <1>3, <2>2 DEF LockedRoom
<1>4. CASE d \notin Locked
  <2>1. PICK rows \in SUBSET Delivery : BeginReplay(rows)
    BY <1>4 DEF Next, EnqueueEvent, ConfigStep, InsertOneConfig, Activate,
       Deactivate, DeleteOneConfig, SwitchOff, ClaimDeliveries,
       RecoverStaleDeliveries, DispatchStep, FindConfig, Preflight, SendRequest,
       Accepted, Rejected, Unavailable, Answered, CompleteDelivery, CancelDelivery,
       FailClaimedDelivery, Abandon, ReplayStep, CommitReplay, AbortReplay,
       Tick, vars, Locked
  <2> QED BY <1>4, <2>1 DEF BeginReplay, Locked
<1> QED BY <1>3, <1>4

\* What Observe makes of opened, and of the rows it watches.
LEMMA OpenedStep ==
    ASSUME NEW d \in Delivery, opened[d] \in [Generation -> Nat], now \in Nat,
           Observe \/ UNCHANGED hvars
    PROVE  /\ opened'[d] \in [Generation -> Nat]
           /\ \A g \in Generation :
                 opened'[d][g] = IF /\ ClaimedNow(d) /\ opened[d][g] = NoTime
                                    /\ deliveries[d].replayGeneration = g
                                 THEN now ELSE opened[d][g]
<1>1. CASE Observe
  BY <1>1 DEF Observe
<1>2. CASE UNCHANGED hvars
  BY <1>2 DEF hvars, vars, ClaimedNow
<1> QED BY <1>1, <1>2

\* Every step keeps the window of a generation where its first claim was.
LEMMA OpenedNext ==
    ASSUME Inv, History, [Next]_vars, Observe \/ UNCHANGED hvars, NEW d \in Delivery
    PROVE  Opened(d)'
<1> DEFINE row == deliveries[d]
           new == deliveries'[d]
           gen == row.replayGeneration
<1>1. Base /\ LockedReplayable /\ LockedRoom /\ Opened(d)
  BY DEF Inv, History
<1>2. /\ row \in Row /\ now \in Nat /\ now > 0 /\ gen \in Nat
      /\ row.cycleStartedAt \in Nat
      /\ Generation \subseteq Nat
  BY <1>1, ClockAssumption, BoundAssumption DEF Base, TypeOK, Row, Generation
<1>3. /\ opened[d] \in [Generation -> Nat] /\ gen \in Generation
      /\ opened[d][gen] = row.cycleStartedAt
      /\ \A g \in Generation : g > gen => opened[d][g] = NoTime
  BY <1>1 DEF Opened
<1>4. /\ opened'[d] \in [Generation -> Nat]
      /\ \A g \in Generation :
            opened'[d][g] = IF /\ ClaimedNow(d) /\ opened[d][g] = NoTime /\ gen = g
                            THEN now ELSE opened[d][g]
  BY <1>2, <1>3, OpenedStep
<1>5. \A g \in Generation : opened[d][g] # NoTime => opened'[d][g] = opened[d][g]
  BY <1>4
<1>c. /\ Claim(row).status = "delivering" /\ Claim(row).replayGeneration = gen
      /\ Claim(row).cycleStartedAt
            = IF row.cycleStartedAt = NoTime THEN now ELSE row.cycleStartedAt
  BY <1>2 DEF Claim, Row
<1>k. SameRow(d) \/ Evolves(d)
  BY RowsEvolve
<1>6. /\ new.replayGeneration \in Generation
      /\ opened'[d][new.replayGeneration] = new.cycleStartedAt
      /\ \A g \in Generation : g > new.replayGeneration => opened'[d][g] = NoTime
  <2>1. CASE ~ClaimedNow(d) /\ new.replayGeneration = gen
             /\ new.cycleStartedAt = row.cycleStartedAt
    BY <1>3, <1>4, <2>1
  <2>2. CASE new = Claim(row) /\ row.status = "pending"
    <3>1. ClaimedNow(d)
      BY <1>c, <2>2 DEF ClaimedNow
    <3>2. opened'[d][gen] = Claim(row).cycleStartedAt
      BY <1>3, <1>4, <1>c, <3>1
    <3>3. \A g \in Generation : g > gen => opened'[d][g] = NoTime
      BY <1>2, <1>3, <1>4
    <3> QED BY <1>3, <1>c, <2>2, <3>2, <3>3
  <2>3. CASE /\ row.status = "failed" /\ d \in Locked
             /\ new.replayGeneration = gen + 1 /\ new.cycleStartedAt = NoTime
    <3>1. gen + 1 \in Generation
      BY <1>1, <1>2, <2>3, BoundAssumption DEF LockedRoom, Generation
    <3>2. ~ClaimedNow(d)
      BY <2>3 DEF ClaimedNow
    <3>3. opened'[d][gen + 1] = NoTime
      BY <1>2, <1>3, <1>4, <3>1, <3>2
    <3>4. \A g \in Generation : g > gen + 1 => opened'[d][g] = NoTime
      BY <1>2, <1>3, <1>4, <3>2
    <3> QED BY <2>3, <3>1, <3>3, <3>4
  <2>4. CASE new = row
    BY <2>1, <2>4 DEF ClaimedNow
  <2>5. CASE new # row
    <3>1. Cause(d)
      BY <2>5, RowCauses
    <3>2. [Contract(d)!Next]_(Contract(d)!vars) /\ (row.status = "failed" => Contract(d)!Replay)
      BY <1>k, <2>5 DEF SameRow, Evolves
    <3>3. CASE row.status = "failed"
      BY <2>3, <3>1, <3>2, <3>3 DEF Cause, Contract!Replay
    <3>4. CASE row.status = "pending" /\ new = Claim(row)
      BY <2>2, <3>4
    <3>5. CASE row.status # "failed" /\ ~(row.status = "pending" /\ new = Claim(row))
      <4>1. ~(row.status = "pending" /\ new.status = "delivering")
        BY <3>1, <3>5 DEF Cause
      <4>2. new.replayGeneration = gen /\ new.cycleStartedAt = row.cycleStartedAt
        BY <3>2, <3>5, <4>1 DEF Contract!vars, Contract!Next, Contract!Enqueue,
           Contract!Claim, Contract!Release, Contract!GiveUp, Contract!Cancel,
           Contract!Attempt, Contract!Replay, Contract!Become
      <4> QED BY <2>1, <4>1, <4>2 DEF ClaimedNow
    <3> QED BY <3>3, <3>4, <3>5
  <2> QED BY <2>4, <2>5
<1>7. ASSUME NEW w \in Worker, Live(w, d)'
      PROVE  /\ job'[w][d].delivery.replayGeneration \in Generation
             /\ opened'[d][job'[w][d].delivery.replayGeneration]
                   = job'[w][d].delivery.cycleStartedAt
             /\ job'[w][d].delivery.cycleStartedAt # NoTime
  <2>1. CASE Live(w, d)
             /\ job'[w][d].delivery.replayGeneration = job[w][d].delivery.replayGeneration
             /\ job'[w][d].delivery.cycleStartedAt = job[w][d].delivery.cycleStartedAt
    BY <1>1, <1>5, <2>1 DEF Opened
  <2>2. CASE Starts(w, d)
    <3>1. /\ new = Claim(row)
          /\ job'[w][d].delivery = Claim(row)
      BY <2>2 DEF Starts
    <3>2. Claim(row).cycleStartedAt # NoTime
      BY <1>2, <1>c
    <3> QED BY <1>6, <3>1, <3>2
  <2>3. Goes(w, d)
    BY JobsGo
  <2> QED BY <1>7, <2>1, <2>2, <2>3 DEF Goes, Moves, Live, NoJob
<1> QED BY <1>4, <1>6, <1>7 DEF Opened

\* What Observe makes of approved.
LEMMA ApprovedStep ==
    ASSUME NEW w \in Worker, NEW d \in Delivery, Observe \/ UNCHANGED hvars,
           job'[w][d].pc = "ready"
    PROVE  approved'[w][d] = IF job[w][d].pc = "ready" THEN approved[w][d] ELSE now
<1>1. CASE Observe
  BY <1>1 DEF Observe
<1>2. CASE UNCHANGED hvars
  BY <1>2 DEF hvars, vars
<1> QED BY <1>1, <1>2

\* Only a preflight makes a request ready, and nothing moves its window after that.
LEMMA ApprovedNext ==
    ASSUME Inv, History, [Next]_vars, Observe \/ UNCHANGED hvars, NEW d \in Delivery
    PROVE  Approved(d)'
<1> SUFFICES ASSUME NEW w \in Worker, job'[w][d].pc = "ready"
             PROVE  /\ approved'[w][d] \in Nat \ {NoTime}
                    /\ approved'[w][d] - job'[w][d].delivery.cycleStartedAt
                          =< AbortAfter + ClockSkew
  BY DEF Approved
<1>1. approved'[w][d] = IF job[w][d].pc = "ready" THEN approved[w][d] ELSE now
  BY ApprovedStep
<1>2. CASE job'[w][d] = job[w][d]
  BY <1>1, <1>2 DEF History, Approved
<1>3. CASE Moves(w, d)
  <2> DEFINE mine == job[w][d].delivery
  <2>1. /\ approved'[w][d] = now
        /\ job'[w][d].delivery.cycleStartedAt = mine.cycleStartedAt
    BY <1>1, <1>3 DEF Moves
  <2>2. PICK t \in AppClock : t - mine.cycleStartedAt =< AbortAfter
    BY <1>3 DEF Moves, WithinBudget
  <2>3. mine.cycleStartedAt \in Nat /\ now \in Nat /\ now > ClockSkew
    BY DEF Inv, Base, TypeOK, Job, Row
  <2>4. AbortAfter \in Nat /\ ClockSkew \in Nat
    BY PolicyAssumption, ClockAssumption
  <2>5. t \in Int /\ now - ClockSkew =< t
    BY <2>3, <2>4 DEF AppClock
  <2>6. now - mine.cycleStartedAt =< AbortAfter + ClockSkew /\ now \in Nat \ {0}
    BY <2>2, <2>3, <2>4, <2>5
  <2> QED BY <2>1, <2>6
<1>4. Goes(w, d)
  BY JobsGo
<1> QED BY <1>2, <1>3, <1>4 DEF Goes, Starts, NoJob

\* Every observed step keeps the history.
LEMMA HistoryNext == Inv /\ History /\ [HNext]_hvars => History'
BY Observed, LockedRoomNext, OpenedNext, ApprovedNext DEF History

\* The history agrees with the rows and the goroutines in every behaviour.
THEOREM HistoryInvariant == HSpec => [](Inv /\ History)
<1>1. HInit => Inv /\ History
  BY HistoryInit, BaseInit, ClaimsInit, ContractInit DEF Inv
<1>2. Inv /\ History /\ [HNext]_hvars => Inv' /\ History'
  BY Observed, InvNext, HistoryNext
<1> QED BY <1>1, <1>2, PTL DEF HSpec

\* Every request has passed a preflight inside the window that the first claim of
\* its generation opened, so it is as late as its worker was held up since and no
\* later: the preflight looks at the goroutine's copy of cycle_started_at, which no
\* later claim, completion or recovery makes wrong, but the request that follows
\* looks at nothing.
THEOREM RequestsInWindow == HSpec => RequestsWithinWindow
<1>1. Inv /\ History /\ [HNext]_hvars =>
         [\A w \in Worker, d \in Delivery :
            Sends(w, d) =>
               LET start == opened[d][job[w][d].delivery.replayGeneration]
                   heldUp == now - approved[w][d]
               IN  /\ start # NoTime /\ approved[w][d] # NoTime
                   /\ now - start =< AbortAfter + ClockSkew + heldUp]_hvars
  <2> SUFFICES ASSUME Inv, History, [HNext]_hvars, NEW w \in Worker, NEW d \in Delivery,
                      Sends(w, d)
               PROVE  LET start == opened[d][job[w][d].delivery.replayGeneration]
                          heldUp == now - approved[w][d]
                      IN  /\ start # NoTime /\ approved[w][d] # NoTime
                          /\ now - start =< AbortAfter + ClockSkew + heldUp
    OBVIOUS
  <2> DEFINE mine == job[w][d].delivery
  <2>1. Goes(w, d)
    BY Observed, JobsGo
  <2>2. Live(w, d) /\ job[w][d].pc = "ready"
    BY <2>1 DEF Goes, Moves, Starts, Sends, NoJob, Live
  <2>3. opened[d][mine.replayGeneration] = mine.cycleStartedAt
        /\ mine.cycleStartedAt # NoTime
    BY <2>2 DEF History, Opened
  <2>4. /\ approved[w][d] \in Nat \ {NoTime}
        /\ approved[w][d] - mine.cycleStartedAt =< AbortAfter + ClockSkew
    BY <2>2 DEF History, Approved
  <2>5. /\ mine.cycleStartedAt \in Nat /\ now \in Nat /\ AbortAfter \in Nat
        /\ ClockSkew \in Nat
    BY PolicyAssumption, ClockAssumption DEF Inv, Base, TypeOK, Job, Row
  <2>6. now - mine.cycleStartedAt =< AbortAfter + ClockSkew + (now - approved[w][d])
    BY <2>4, <2>5
  <2> QED BY <2>3, <2>4, <2>6
<1> QED BY <1>1, HistoryInvariant, PTL DEF HSpec, RequestsWithinWindow

\* A config that is off was off during the claim that finds it so, and a goroutine
\* that is about to cancel its delivery has found it so.
Off(d) ==
    /\ deliveries[d].status = "delivering" /\ ~Active(ConfigOf(d)) => wasOff[d]
    /\ \A w \in Worker : job[w][d].pc = "cancelling" => wasOff[d]

\* A config that is off is noticed, unless a claim is made in that step.
LEMMA OffStep ==
    ASSUME NEW d \in Delivery, Observe, ~ClaimedNow(d), ~Active(ConfigOf(d))'
    PROVE  wasOff'[d]
BY DEF Observe, Active

\* wasOff is forgotten by a claim only.
LEMMA OffStays ==
    ASSUME NEW d \in Delivery, Observe \/ UNCHANGED hvars, ~ClaimedNow(d), wasOff[d]
    PROVE  wasOff'[d]
BY DEF Observe, hvars

\* While every goroutine still holds its claim, no claim comes between its look at
\* the config and its cancellation.
LEMMA OffNext ==
    ASSUME Inv, Prompt, [Next]_vars, Observe \/ UNCHANGED hvars,
           NEW d \in Delivery, Off(d)
    PROVE  Off(d)'
<1>1. deliveries[d] \in Row /\ now \in Nat
  BY DEF Inv, Base, TypeOK
<1>2. Claim(deliveries[d]).status = "delivering"
  BY <1>1, ClaimRow
<1>3. ClaimedNow(d) => Active(ConfigOf(d)) /\ configs' = configs
                       /\ \A w \in Worker : ~Live(w, d)
  <2> SUFFICES ASSUME ClaimedNow(d)
               PROVE  Active(ConfigOf(d)) /\ configs' = configs
                      /\ \A w \in Worker : ~Live(w, d)
    OBVIOUS
  <2>1. deliveries'[d] # deliveries[d]
    BY DEF ClaimedNow
  <2>2. Cause(d)
    BY <2>1, RowCauses
  <2>3. Active(ConfigOf(d)) /\ configs' = configs
    BY <2>2 DEF Cause, ClaimedNow
  <2>4. \A w \in Worker : ~Live(w, d)
    BY DEF ClaimedNow, Prompt, InTime, HoldsClaim
  <2> QED BY <2>3, <2>4
<1>4. ASSUME deliveries'[d].status = "delivering", ~Active(ConfigOf(d))'
      PROVE  wasOff'[d]
  <2>1. ~ClaimedNow(d)
    BY <1>3, <1>4 DEF Active
  <2>2. CASE UNCHANGED hvars
    BY <1>4, <2>2 DEF hvars, vars, Off, Active
  <2> QED BY <1>4, <2>1, <2>2, OffStep
<1>5. ASSUME NEW w \in Worker, job'[w][d].pc = "cancelling" PROVE wasOff'[d]
  <2>1. Goes(w, d)
    BY JobsGo
  <2>2. CASE job'[w][d] = job[w][d]
    <3>1. Live(w, d) /\ wasOff[d]
      BY <1>5, <2>2 DEF Off, Live
    <3> QED BY <1>3, <3>1, OffStays
  <2>3. CASE Moves(w, d)
    <3>1. ~Active(ConfigOf(d)) /\ configs' = configs /\ Live(w, d)
          /\ deliveries'[d] = deliveries[d]
      BY <1>5, <2>3 DEF Moves
    <3>2. deliveries'[d].status = "delivering" /\ ~Active(ConfigOf(d))'
      BY <3>1 DEF Prompt, InTime, HoldsClaim, Active
    <3> QED BY <1>4, <3>2
  <2> QED BY <1>5, <2>1, <2>2, <2>3 DEF Goes, Starts, NoJob
<1> QED BY <1>4, <1>5 DEF Off

\* A claimed delivery is cancelled only if its config is off, or was off since the
\* claim, although CancelDelivery carries no claim timestamp.  It takes goroutines
\* that do not outlive staleDeliveryClaimAge, the skew of the clocks subtracted.
THEOREM CancellationsJustified ==
    ASSUME JobDeadline + ClockSkew =< StaleAge
    PROVE  HSpec => CancelJustified
<1> DEFINE IInv == Inv /\ Prompt /\ \A d \in Delivery : Off(d)
<1>1. HInit => IInv
  <2> SUFFICES ASSUME HInit PROVE IInv
    OBVIOUS
  <2>1. Init /\ Inv
    BY HistoryInit, BaseInit, ClaimsInit, ContractInit DEF Inv
  <2>2. Prompt
    BY <2>1 DEF Init, Prompt, InTime, Live, NoJob
  <2>3. \A d \in Delivery : Off(d)
    BY <2>1 DEF Init, Off, NoRow, NoJob
  <2> QED BY <2>1, <2>2, <2>3
<1>2. IInv /\ [HNext]_hvars => IInv'
  <2> SUFFICES ASSUME IInv, [HNext]_hvars PROVE IInv'
    OBVIOUS
  <2>1. [Next]_vars /\ (Observe \/ UNCHANGED hvars)
    BY Observed
  <2>2. Inv' /\ Prompt'
    BY <2>1, InvNext, PromptNext DEF Inv
  <2>3. \A d \in Delivery : Off(d)'
    BY <2>1, OffNext
  <2> QED BY <2>2, <2>3
<1>3. IInv /\ [HNext]_hvars =>
         [\A d \in Delivery :
            /\ deliveries[d].status = "delivering"
            /\ deliveries'[d].status = "cancelled"
            => wasOff[d]]_hvars
  <2> SUFFICES ASSUME IInv, [HNext]_hvars, NEW d \in Delivery,
                      deliveries[d].status = "delivering",
                      deliveries'[d].status = "cancelled"
               PROVE  wasOff[d]
    OBVIOUS
  <2>1. Cause(d)
    BY Observed, RowCauses
  <2>2. ~Active(ConfigOf(d)) \/ \E w \in Worker : job[w][d].pc = "cancelling"
    BY <2>1 DEF Cause
  <2> QED BY <2>2 DEF Off
<1> HIDE DEF IInv
<1> QED BY <1>1, <1>2, <1>3, PTL DEF HSpec, CancelJustified
=============================================================================
