-------------------------- MODULE DeliveriesHistory --------------------------
(***************************************************************************)
(* Deliveries with history variables: what the endpoint, or an operator    *)
(* who watches the database, has seen of each delivery.  They record and   *)
(* never restrict a step.                                                  *)
(***************************************************************************)
EXTENDS Deliveries

VARIABLES
    opened,     \* opened[d][g]: when generation g of d was first claimed
    requests,   \* requests[d][g]: HTTP requests sent for generation g of d
    approved,   \* approved[w][d]: when the preflight of a request still unsent
                \* let it pass
    wasOff      \* wasOff[d]: the config of d was off since its last claim

hvars == <<vars, opened, requests, approved, wasOff>>

Generation == 0..MaxGeneration

\* The dispatchOne of w for d sends its request in this step.
Sends(w, d) == job[w][d].pc # "sending" /\ job'[w][d].pc = "sending"

\* The step claims d.
ClaimedNow(d) ==
    deliveries[d].status = "pending" /\ deliveries'[d].status = "delivering"

HInit ==
    /\ Init
    /\ opened = [d \in Delivery |-> [g \in Generation |-> NoTime]]
    /\ requests = [d \in Delivery |-> [g \in Generation |-> 0]]
    /\ approved = [w \in Worker |-> [d \in Delivery |-> NoTime]]
    /\ wasOff = [d \in Delivery |-> FALSE]

Observe ==
    /\ opened' = [d \in Delivery |-> [g \in Generation |->
          IF /\ ClaimedNow(d) /\ deliveries[d].replayGeneration = g
             /\ opened[d][g] = NoTime
          THEN now ELSE opened[d][g]]]
    /\ requests' = [d \in Delivery |-> [g \in Generation |->
          requests[d][g] + Cardinality({w \in Worker :
              Sends(w, d) /\ job[w][d].delivery.replayGeneration = g})]]
    /\ approved' = [w \in Worker |-> [d \in Delivery |->
          IF job'[w][d].pc # "ready" THEN NoTime
          ELSE IF job[w][d].pc = "ready" THEN approved[w][d] ELSE now]]
    /\ wasOff' = [d \in Delivery |->
          IF ClaimedNow(d) THEN FALSE
          ELSE wasOff[d] \/ configs'[ConfigOf(d)] # "active"]

HNext ==
    \/ \E e \in Event : EnqueueEvent(e) /\ Observe
    \/ \E c \in Config :
          \/ InsertOneConfig(c) /\ Observe
          \/ Deactivate(c) /\ Observe
          \/ DeleteOneConfig(c) /\ Observe
          \/ Activate(c) /\ Observe
    \/ \E w \in Worker :
          \/ ClaimDeliveries(w) /\ Observe
          \/ RecoverStaleDeliveries(w) /\ Observe
    \/ \E w \in Worker, d \in Delivery :
          \/ FindConfig(w, d) /\ Observe
          \/ Preflight(w, d) /\ Observe
          \/ SendRequest(w, d) /\ Observe
          \/ Accepted(w, d) /\ Observe
          \/ Rejected(w, d) /\ Observe
          \/ Unavailable(w, d) /\ Observe
          \/ CompleteDelivery(w, d) /\ Observe
          \/ CancelDelivery(w, d) /\ Observe
          \/ FailClaimedDelivery(w, d) /\ Observe
          \/ Abandon(w, d) /\ Observe
    \/ \E rows \in SUBSET Delivery :
          \/ BeginReplay(rows) /\ Observe
          \/ CommitReplay(rows) /\ Observe
          \/ AbortReplay(rows) /\ Observe
    \/ Tick /\ Observe

HSpec == HInit /\ [][HNext]_hvars
-----------------------------------------------------------------------------
(***************************************************************************)
(* Properties                                                              *)
(***************************************************************************)

\* --abort-after as the endpoint sees it: every request has passed a preflight
\* no later than that (and the skew of the clocks) after its generation was
\* first claimed, however often the delivery was retried, recovered, expedited,
\* replayed or claimed by others since.  A request is therefore as late as its
\* worker was held up between preflight and request, and no later.
RequestsWithinWindow ==
    [][\A w \in Worker, d \in Delivery :
          Sends(w, d) =>
             LET start == opened[d][job[w][d].delivery.replayGeneration]
                 heldUp == now - approved[w][d]
             IN  /\ start # NoTime /\ approved[w][d] # NoTime
                 /\ now - start =< AbortAfter + ClockSkew + heldUp]_hvars

\* A claimed delivery is cancelled only because its config is off or was off
\* during the current claim: CancelDelivery, which carries no claim timestamp,
\* does not hit a delivery that has been claimed anew.
CancelJustified ==
    [][\A d \in Delivery :
          /\ deliveries[d].status = "delivering"
          /\ deliveries'[d].status = "cancelled"
          => wasOff[d]]_hvars

\* --max-attempts as the documents put it: "Maximum HTTP attempts per retry
\* generation" (docs/retry-mechanism.md).
RequestsWithinMaxAttempts ==
    \A d \in Delivery, g \in Generation : requests[d][g] =< MaxAttempts
=============================================================================
