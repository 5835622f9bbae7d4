------------------------------- MODULE Retention -------------------------------
(***************************************************************************)
(* The life of a delivery from the broker to its purge: ingestion that may *)
(* be repeated, and the retention runs that delete finished deliveries and *)
(* then the deleted configs nothing refers to any more.                    *)
(*                                                                         *)
(* A row is reduced to its status and the age of its updated_at; workers,  *)
(* the config API and replay do to it what Deliveries has in detail.  Ages *)
(* are counted in ticks and stop one past the longest delay, so time never *)
(* ends; a tick is long compared with the skew of the clocks.  Every       *)
(* config subscribes to every event.  The purge of replay_requests, a      *)
(* statement of the same run, is in Replay.                                *)
(***************************************************************************)
EXTENDS Integers, FiniteSets

CONSTANTS
    Event, Config,
    Purger,             \* the retention goroutines, one per worker process
    SuccessDelay,       \* --retention-success-delay; none if not positive
    FailedDelay,        \* --retention-failed-delay; none if not positive
    BatchSize,
    RedeliveryWindow    \* how long the broker may deliver a message again

\* The broker gives a message up before retention forgets its deliveries.
ASSUME RetentionAssumption ==
    /\ SuccessDelay \in Int /\ FailedDelay \in Int /\ BatchSize \in Nat \ {0}
    /\ RedeliveryWindow \in Nat
    /\ \A delay \in {SuccessDelay, FailedDelay} :
          delay > 0 => RedeliveryWindow =< delay

Delivery == Event \X Config
ConfigOf(d) == d[2]
RowsOf(c) == {d \in Delivery : ConfigOf(d) = c}

Longest == CHOOSE n \in {SuccessDelay, FailedDelay, RedeliveryWindow} :
              \A m \in {SuccessDelay, FailedDelay, RedeliveryWindow} : m =< n
Age == 0..(Longest + 1)

VARIABLES
    rows,       \* the table deliveries
    configs,    \* the table configs
    messages,   \* what the broker knows of each event
    held,       \* the rows each open replay transaction has locked
    purger,     \* the next statement of each run, and the configs it selected
    created,    \* history: how often each delivery was inserted, 2 for more
    owed        \* history: configs active ever since an event was published

vars == <<rows, configs, messages, held, purger, created, owed>>

Statement == {"idle", "succeeded", "failed", "configs", "deleting"}

TypeOK ==
    /\ rows \in [Delivery ->
          [status : {"none", "pending", "delivering", "succeeded", "failed",
                     "cancelled"}, age : Age]]
    /\ configs \in [Config -> {"absent", "active", "inactive", "deleted", "purged"}]
    /\ messages \in [Event ->
          [state : {"none", "queued", "stored", "acked"}, age : Age]]
    /\ held \in SUBSET Delivery
    /\ purger \in [Purger -> [next : Statement, selected : SUBSET Config]]
    /\ created \in [Delivery -> 0..2]
    /\ owed \in [Event -> SUBSET Config]

Init ==
    /\ rows = [d \in Delivery |-> [status |-> "none", age |-> 0]]
    /\ configs = [c \in Config |-> "absent"]
    /\ messages = [e \in Event |-> [state |-> "none", age |-> 0]]
    /\ held = {}
    /\ purger = [p \in Purger |-> [next |-> "idle", selected |-> {}]]
    /\ created = [d \in Delivery |-> 0]
    /\ owed = [e \in Event |-> {}]

Exists(d) == rows[d].status # "none"
Referenced(c) == \E d \in RowsOf(c) : Exists(d)

\* The rows of a set are written: the status and updated_at.
Write(set, status) ==
    rows' = [d \in Delivery |->
        IF d \in set THEN [status |-> status, age |-> 0] ELSE rows[d]]
-----------------------------------------------------------------------------
(***************************************************************************)
(* Ingestion.  The handler returns nil, and the router acknowledges, only  *)
(* when the deliveries are committed; whatever fails before, or an         *)
(* acknowledgement that is lost, has the message delivered again.          *)
(***************************************************************************)
Publish(e) ==
    /\ messages[e].state = "none"
    /\ messages' = [messages EXCEPT ![e] = [state |-> "queued", age |-> 0]]
    /\ owed' = [owed EXCEPT ![e] = {c \in Config : configs[c] = "active"}]
    /\ UNCHANGED <<rows, configs, held, purger, created>>

\* Variant: the config only has to exist.
MayReceiveAny(c) == configs[c] \in {"active", "inactive", "deleted"}

MayReceive(c) == configs[c] = "active"

EnqueueEvent(e) ==
    LET new == {d \in {e} \X Config : MayReceive(ConfigOf(d)) /\ ~Exists(d)} IN
    /\ messages[e].state # "none" /\ messages[e].age =< RedeliveryWindow
    /\ Write(new, "pending")
    /\ created' = [d \in Delivery |->
          IF d \in new /\ created[d] < 2 THEN created[d] + 1 ELSE created[d]]
    /\ messages' = [messages EXCEPT ![e].state =
                       IF @ = "queued" THEN "stored" ELSE @]
    /\ UNCHANGED <<configs, held, purger, owed>>

\* Variant: an error of the store is swallowed.
HandledAnyhow(e) == messages[e].state \in {"queued", "stored"}

Handled(e) == messages[e].state = "stored"

Ack(e) ==
    /\ Handled(e)
    /\ messages' = [messages EXCEPT ![e].state = "acked"]
    /\ UNCHANGED <<rows, configs, held, purger, created, owed>>

(***************************************************************************)
(* The config API.  Switching off cancels the pending rows and waits for   *)
(* those that a replay has locked.                                         *)
(***************************************************************************)
InsertOneConfig(c) ==
    /\ configs[c] = "absent"
    /\ configs' = [configs EXCEPT ![c] = "active"]
    /\ UNCHANGED <<rows, messages, held, purger, created, owed>>

Pending(c) == {d \in RowsOf(c) : rows[d].status = "pending"}

SwitchOff(c, state) ==
    /\ Pending(c) \cap held = {}
    /\ configs' = [configs EXCEPT ![c] = state]
    /\ Write(Pending(c), "cancelled")
    /\ owed' = [e \in Event |-> owed[e] \ {c}]
    /\ UNCHANGED <<messages, held, purger, created>>

Deactivate(c) == configs[c] = "active" /\ SwitchOff(c, "inactive")

DeleteOneConfig(c) ==
    configs[c] \in {"active", "inactive"} /\ SwitchOff(c, "deleted")

Activate(c) ==
    /\ configs[c] = "inactive"
    /\ configs' = [configs EXCEPT ![c] = "active"]
    /\ UNCHANGED <<rows, messages, held, purger, created, owed>>

(***************************************************************************)
(* Workers and replay, by what they do to the status.                      *)
(***************************************************************************)
ClaimDelivery(d) ==
    /\ rows[d].status = "pending" /\ d \notin held
    /\ configs[ConfigOf(d)] = "active"
    /\ Write({d}, "delivering")
    /\ UNCHANGED <<configs, messages, held, purger, created, owed>>

\* Variant: the status of a legacy attempt is written.
OutcomeMisnamed(d) == {"succeeded", "to retry"}

\* A completion, or the recovery of a stale claim.
Outcome(d) ==
    IF configs[ConfigOf(d)] = "active"
    THEN {"succeeded", "failed", "pending"} ELSE {"succeeded", "failed", "cancelled"}

CompleteDelivery(d) ==
    /\ rows[d].status = "delivering"
    /\ \E status \in Outcome(d) : Write({d}, status)
    /\ UNCHANGED <<configs, messages, held, purger, created, owed>>

\* CancelDelivery needs no claim and may be late.
CancelDelivery(d) ==
    /\ rows[d].status \in {"pending", "delivering"} /\ d \notin held
    /\ Write({d}, "cancelled")
    /\ UNCHANGED <<configs, messages, held, purger, created, owed>>

BeginReplay(d) ==
    /\ rows[d].status \in {"failed", "pending"} /\ d \notin held
    /\ configs[ConfigOf(d)] = "active"
    /\ held' = held \cup {d}
    /\ UNCHANGED <<rows, configs, messages, purger, created, owed>>

CommitReplay(d) ==
    /\ d \in held /\ held' = held \ {d}
    /\ Write({d}, "pending")
    /\ UNCHANGED <<configs, messages, purger, created, owed>>

AbortReplay(d) ==
    /\ d \in held /\ held' = held \ {d}
    /\ UNCHANGED <<rows, configs, messages, purger, created, owed>>
-----------------------------------------------------------------------------
(***************************************************************************)
(* Retention: runOnce, statement by statement, each its own transaction.   *)
(***************************************************************************)
Continue(p, next, selected) ==
    purger' = [purger EXCEPT ![p] = [next |-> next, selected |-> selected]]

\* At the start of the process and with every period.
Start(p) ==
    /\ purger[p].next = "idle"
    /\ Continue(p, "succeeded", {})
    /\ UNCHANGED <<rows, configs, messages, held, created, owed>>

\* Variant: cancelled rows are nobody's.
TargetFailedOnly(target) == {target}

Target(target) ==
    IF target = "succeeded" THEN {"succeeded"} ELSE {"failed", "cancelled"}

Delay(target) == IF target = "succeeded" THEN SuccessDelay ELSE FailedDelay

\* Variant: every finished row is old enough.
OldAtOnce(d, delay) == TRUE

Old(d, delay) == rows[d].age > delay

\* The oldest rows first, skipping the locked ones.
Purgeable(target) ==
    {d \in Delivery \ held :
        /\ Delay(target) > 0
        /\ rows[d].status \in Target(target) /\ Old(d, Delay(target))}

OldestBatch(batch, from) ==
    /\ Cardinality(batch) =< BatchSize
    /\ Cardinality(batch) < BatchSize => batch = from
    /\ \A d \in batch, e \in from \ batch : rows[d].age >= rows[e].age

PurgeDeliveries(p, target, next) ==
    /\ purger[p].next = target
    /\ \E batch \in SUBSET Purgeable(target) :
          /\ OldestBatch(batch, Purgeable(target))
          /\ Write(batch, "none")
    /\ Continue(p, next, {})
    /\ UNCHANGED <<configs, messages, held, created, owed>>

PurgeSucceeded(p) == PurgeDeliveries(p, "succeeded", "failed")
PurgeFailed(p) == PurgeDeliveries(p, "failed", "configs")

\* The last statement: deleted configs that no delivery refers to are selected
\* and locked, and deleted while other statements commit.
Selected == UNION {purger[p].selected : p \in Purger}

SelectConfigs(p) ==
    LET free == {c \in Config \ Selected : configs[c] = "deleted" /\ ~Referenced(c)} IN
    /\ purger[p].next = "configs"
    /\ \E batch \in SUBSET free :
          /\ Cardinality(batch) =< BatchSize
          /\ Cardinality(batch) < BatchSize => batch = free
          /\ Continue(p, "deleting", batch)
    /\ UNCHANGED <<rows, configs, messages, held, created, owed>>

\* ON DELETE RESTRICT: one reference fails the statement.
DeleteConfigs(p) ==
    LET selected == purger[p].selected IN
    /\ purger[p].next = "deleting"
    /\ configs' = IF \E c \in selected : Referenced(c) THEN configs
                  ELSE [c \in Config |-> IF c \in selected THEN "purged"
                                         ELSE configs[c]]
    /\ Continue(p, "idle", {})
    /\ UNCHANGED <<rows, messages, held, created, owed>>

\* An error ends the run, and so does the process.
Fail(p) ==
    /\ purger[p].next # "idle"
    /\ Continue(p, "idle", {})
    /\ UNCHANGED <<rows, configs, messages, held, created, owed>>

Older(age) == IF age > Longest THEN age ELSE age + 1

Tick ==
    /\ rows' = [d \in Delivery |->
          IF Exists(d) THEN [rows[d] EXCEPT !.age = Older(@)] ELSE rows[d]]
    /\ messages' = [e \in Event |->
          IF messages[e].state = "none" THEN messages[e]
          ELSE [messages[e] EXCEPT !.age = Older(@)]]
    /\ UNCHANGED <<configs, held, purger, created, owed>>

Next ==
    \/ \E e \in Event : Publish(e) \/ EnqueueEvent(e) \/ Ack(e)
    \/ \E c \in Config :
          InsertOneConfig(c) \/ Deactivate(c) \/ DeleteOneConfig(c) \/ Activate(c)
    \/ \E d \in Delivery :
          \/ ClaimDelivery(d) \/ CompleteDelivery(d) \/ CancelDelivery(d)
          \/ BeginReplay(d) \/ CommitReplay(d) \/ AbortReplay(d)
    \/ \E p \in Purger :
          \/ Start(p) \/ PurgeSucceeded(p) \/ PurgeFailed(p)
          \/ SelectConfigs(p) \/ DeleteConfigs(p) \/ Fail(p)
    \/ Tick

Spec == Init /\ [][Next]_vars

\* The ticker starts runs, a claim is completed or recovered, time passes, and a
\* statement that is tried in run after run succeeds in one of them.
Fairness ==
    /\ WF_vars(Tick)
    /\ \A d \in Delivery : WF_vars(CompleteDelivery(d))
    /\ \A p \in Purger :
          /\ WF_vars(Start(p))
          /\ SF_vars(PurgeSucceeded(p)) /\ SF_vars(PurgeFailed(p))
          /\ SF_vars(SelectConfigs(p)) /\ SF_vars(DeleteConfigs(p))

FairSpec == Spec /\ Fairness
-----------------------------------------------------------------------------
(***************************************************************************)
(* Properties                                                              *)
(***************************************************************************)

\* An acknowledged event has got its delivery for every config that has been
\* active since it was published, whatever failed or was repeated in between.
NothingLost ==
    \A e \in Event : messages[e].state = "acked" =>
        \A c \in owed[e] : created[<<e, c>>] > 0

\* One delivery per event and config, ever: retention does not remove the row
\* that makes EnqueueEvent ignore a message delivered again.
CreatedOnce == \A d \in Delivery : created[d] =< 1

\* No delivery appears for a config that a run has selected for deletion: the
\* foreign key never refuses the purge, and no other config waits because of it.
SelectedUnreferenced ==
    \A p \in Purger : \A c \in purger[p].selected : ~Referenced(c)

\* A deleted config that no pending row and no open replay keeps is purged in
\* the end, with whatever it still had in flight when it was deleted.
Collected ==
    \A c \in Config :
        (configs[c] = "deleted" /\ Pending(c) = {} /\ RowsOf(c) \cap held = {})
            ~> (configs[c] = "purged")
=============================================================================
