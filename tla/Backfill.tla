------------------------------ MODULE Backfill ------------------------------
(***************************************************************************)
(* webhooks backfill-deliveries: the attempts that releases without a      *)
(* deliveries table left behind become deliveries.                         *)
(*                                                                         *)
(* The command repeats batches until one finds nothing to do.  It may fail *)
(* anywhere and be run again.  Early runs may overlap with the old         *)
(* workers, which add attempts and settle them; the last one starts after  *)
(* they have stopped, and the new workers start after it.  The API         *)
(* switches and deletes configs all along.  Every write of a worker or of  *)
(* the API has a timestamp of its own; within a batch the order of the     *)
(* webhooks is left open.                                                  *)
(***************************************************************************)
EXTENDS Integers, Sequences, FiniteSetsExt

CONSTANTS
    Webhook, Config, ConfigOf,
    BatchSize,
    SuccessSince, FailedSince,  \* --success-since and --failed-since, in ticks
    MaxAttempts,                \* bound: attempts of a webhook
    MaxTime,                    \* bound: writes of old workers and of the API
    MaxFailures                 \* bound: runs that fail

ASSUME BackfillAssumption ==
    /\ Webhook # {} /\ ConfigOf \in [Webhook -> Config]
    /\ BatchSize \in Nat \ {0} /\ MaxAttempts \in Nat \ {0}
    /\ {SuccessSince, FailedSince, MaxTime, MaxFailures} \subseteq Nat

VARIABLES
    now,
    attempts,   \* the attempts table: the attempts of each webhook in order
    unnamed,    \* webhooks whose last attempt has a config without an ID
    stopped,    \* the old workers have stopped
    configs,    \* state of each config
    rows,       \* the delivery of each webhook, or NoRow
    logged,     \* rows of each delivery in delivery_attempts
    command,    \* the command that is running
    failures,   \* runs that failed
    complete    \* a run has ended well after the old workers had stopped

vars == <<now, attempts, unnamed, stopped, configs, rows, logged, command,
          failures, complete>>

Time == 0..MaxTime

\* "retry" stands for "to retry" and "retrying".
AttemptStatus == {"retry", "success", "failed"}
Attempt == [status : AttemptStatus, updated : Time]
Attempts == UNION {[1..n -> Attempt] : n \in 1..MaxAttempts}

Status == {"pending", "succeeded", "failed", "cancelled"}
Row == [status : Status, count : 1..MaxAttempts, updated : Time]
NoRow == [status |-> "none", count |-> 0, updated |-> -1]

Command == [pc : {"idle", "select", "read", "import"}, batch : SUBSET Webhook,
            webhook : Webhook, read : Attempts]

TypeOK ==
    /\ now \in Time
    /\ attempts \in [Webhook -> Attempts] /\ unnamed \subseteq Webhook
    /\ configs \in [Config -> {"on", "off", "deleted", "missing"}]
    /\ rows \in [Webhook -> Row \cup {NoRow}]
    /\ logged \in [Webhook -> 0..MaxAttempts]
    /\ command \in Command
    /\ failures \in 0..MaxFailures
    /\ stopped \in BOOLEAN /\ complete \in BOOLEAN

\* The fields of an idle command have no meaning.
Idle == [pc |-> "idle", batch |-> {}, webhook |-> CHOOSE w \in Webhook : TRUE,
         read |-> <<[status |-> "retry", updated |-> 0]>>]

Init ==
    /\ now = 0 /\ stopped = FALSE /\ complete = FALSE /\ failures = 0
    /\ attempts \in [Webhook -> [1..1 -> [status : AttemptStatus, updated : {0}]]]
    /\ unnamed \in SUBSET Webhook
    /\ configs \in [Config -> {"on", "off", "deleted", "missing"}]
    /\ rows = [w \in Webhook |-> NoRow]
    /\ logged = [w \in Webhook |-> 0]
    /\ command = Idle
-----------------------------------------------------------------------------
(***************************************************************************)
(* The old workers, as the queries of the backfill expect them.            *)
(***************************************************************************)
Last(w) == attempts[w][Len(attempts[w])]

OldWorkersUnchanged ==
    UNCHANGED <<unnamed, configs, rows, logged, command, failures, complete>>

InsertAttempt(w) ==
    /\ ~stopped /\ Last(w).status = "retry"
    /\ Len(attempts[w]) < MaxAttempts /\ now < MaxTime
    /\ now' = now + 1
    /\ \E status \in AttemptStatus :
          attempts' = [attempts EXCEPT ![w] =
              Append(@, [status |-> status, updated |-> now + 1])]
    /\ UNCHANGED stopped /\ OldWorkersUnchanged

Outstanding(w) == {i \in DOMAIN attempts[w] : attempts[w][i].status = "retry"}

Written(w, chosen, status) ==
    [attempts EXCEPT ![w] =
        [i \in DOMAIN @ |-> IF i \in chosen
                            THEN [status |-> status, updated |-> now + 1] ELSE @[i]]]

\* Outstanding attempts are claimed for a retry, or given back by a recovery.
ClaimAttempts(w) ==
    /\ ~stopped /\ now < MaxTime
    /\ now' = now + 1
    /\ \E chosen \in (SUBSET Outstanding(w)) \ {{}} :
          attempts' = Written(w, chosen, "retry")
    /\ UNCHANGED stopped /\ OldWorkersUnchanged

\* The outcome goes to earlier attempts, with or without the last one, unless
\* the worker dies first.
UpdateAttemptsStatus(w) ==
    /\ ~stopped /\ now < MaxTime
    /\ now' = now + 1
    /\ \E chosen \in SUBSET DOMAIN attempts[w] :
          /\ \E i \in chosen : attempts[w][i].status # Last(w).status
          /\ attempts' = Written(w, chosen, Last(w).status)
    /\ UNCHANGED stopped /\ OldWorkersUnchanged

StopWorkers ==
    /\ ~stopped /\ stopped' = TRUE
    /\ UNCHANGED <<now, attempts>> /\ OldWorkersUnchanged
-----------------------------------------------------------------------------
(***************************************************************************)
(* The API: every change locks the config.                                 *)
(***************************************************************************)
Cancelled(c) ==
    [w \in Webhook |->
        IF ConfigOf[w] = c /\ rows[w].status = "pending"
        THEN [rows[w] EXCEPT !.status = "cancelled", !.updated = now + 1]
        ELSE rows[w]]

Switch(c, from, to) ==
    /\ configs[c] \in from /\ now < MaxTime
    /\ now' = now + 1
    /\ configs' = [configs EXCEPT ![c] = to]
    /\ rows' = IF to = "on" THEN rows ELSE Cancelled(c)
    /\ UNCHANGED <<attempts, unnamed, stopped, logged, command, failures, complete>>

ActivateConfig(c) == Switch(c, {"off"}, "on")
DeactivateConfig(c) == Switch(c, {"on"}, "off")
DeleteConfig(c) == Switch(c, {"on", "off"}, "deleted")
-----------------------------------------------------------------------------
(***************************************************************************)
(* The command.                                                            *)
(***************************************************************************)
CommandUnchanged == UNCHANGED <<now, attempts, unnamed, stopped>>

Start ==
    /\ command.pc = "idle" /\ ~complete
    /\ command' = [command EXCEPT !.pc = "select"]
    /\ CommandUnchanged /\ UNCHANGED <<configs, rows, logged, failures, complete>>

\* What is to be imported: everything outstanding, the rest while it is recent.
Due(w) ==
    \E i \in DOMAIN attempts[w] :
        LET a == attempts[w][i] IN
        \/ a.status = "retry"
        \/ a.status = "success" /\ now - a.updated =< SuccessSince
        \/ a.status = "failed" /\ now - a.updated =< FailedSince

\* Variant: what has been imported is not looked at again.
NoRowYet(w) == rows[w] = NoRow

\* Variant: timestamps may be equal.
NotNewer(w) == \E i \in DOMAIN attempts[w] : rows[w].updated =< attempts[w][i].updated

\* The delivery is older than the attempts; NoRow is older than any.
OutOfDate(w) == \E i \in DOMAIN attempts[w] : rows[w].updated < attempts[w][i].updated

Candidates == {w \in Webhook : Due(w) /\ OutOfDate(w)}

Limit == Min({BatchSize, Cardinality(Candidates)})

BackfillDeliveries ==
    /\ command.pc = "select"
    /\ \/ /\ Candidates = {}
          /\ command' = Idle /\ complete' = stopped
       \/ /\ Candidates # {}
          /\ \E batch \in kSubset(Limit, Candidates) :
                command' = [command EXCEPT !.pc = "read", !.batch = batch]
          /\ UNCHANGED complete
    /\ CommandUnchanged /\ UNCHANGED <<configs, rows, logged, failures>>

\* The attempts are read before the transaction begins.
ReadAttempts(w) ==
    /\ command.pc = "read" /\ w \in command.batch
    /\ command' = [command EXCEPT !.pc = "import", !.webhook = w,
                                  !.read = attempts[w]]
    /\ CommandUnchanged /\ UNCHANGED <<configs, rows, logged, failures, complete>>

\* Variant: the copy of the config in the attempts is believed.
ActiveAsCopied(c) == TRUE

ConfigActive(c) == configs[c] = "on"

\* Variant: the status of the last attempt is taken over.
StatusTakenOver(read, active) == read[Len(read)].status

ImportedStatus(read, active) ==
    CASE \E i \in DOMAIN read : read[i].status = "retry" ->
             IF active THEN "pending" ELSE "cancelled"
      [] \A i \in DOMAIN read : read[i].status # "retry" ->
             IF read[Len(read)].status = "success" THEN "succeeded" ELSE "failed"

Imported(read, active) ==
    [status |-> ImportedStatus(read, active), count |-> Len(read),
     updated |-> read[Len(read)].updated]

\* An error of the data: the run ends, and so does every one that gets here.
MissingConfigID ==
    /\ command.pc = "import" /\ command.webhook \in unnamed
    /\ command' = Idle
    /\ CommandUnchanged /\ UNCHANGED <<configs, rows, logged, failures, complete>>

\* One transaction, which holds the config.
backfillWebhook ==
    LET w == command.webhook
        c == ConfigOf[w]
    IN  /\ command.pc = "import" /\ w \notin unnamed
        /\ configs' = [configs EXCEPT ![c] = IF @ = "missing" THEN "deleted" ELSE @]
        /\ rows' = [rows EXCEPT ![w] = Imported(command.read, ConfigActive(c))]
        /\ logged' = [logged EXCEPT ![w] =
              IF @ < Len(command.read) THEN Len(command.read) ELSE @]
        /\ command' = [Idle EXCEPT
              !.pc = IF command.batch = {w} THEN "select" ELSE "read",
              !.batch = command.batch \ {w}]
        /\ CommandUnchanged /\ UNCHANGED <<failures, complete>>

\* A statement fails or the process is killed; what is committed stays.
FailRun ==
    /\ command.pc # "idle" /\ failures < MaxFailures
    /\ failures' = failures + 1 /\ command' = Idle
    /\ CommandUnchanged /\ UNCHANGED <<configs, rows, logged, complete>>

Run ==
    \/ Start \/ BackfillDeliveries \/ MissingConfigID \/ backfillWebhook
    \/ \E w \in Webhook : ReadAttempts(w)

\* Everything is done; the new workers take over.
Done == complete /\ UNCHANGED vars

Next ==
    \/ Run \/ FailRun \/ StopWorkers \/ Done
    \/ \E w \in Webhook :
          InsertAttempt(w) \/ ClaimAttempts(w) \/ UpdateAttemptsStatus(w)
    \/ \E c \in Config : ActivateConfig(c) \/ DeactivateConfig(c) \/ DeleteConfig(c)

\* The old workers are stopped in the end, and the command is run again until
\* it ends well.
Fairness == WF_vars(Run) /\ WF_vars(StopWorkers)

Spec == Init /\ [][Next]_vars /\ Fairness
-----------------------------------------------------------------------------
(***************************************************************************)
(* Properties                                                              *)
(***************************************************************************)
\* When the new workers start, the delivery of every webhook that is due has
\* all its attempts and the status they call for, so that none is sent again
\* that the old workers had settled lately: although they were settling some
\* while earlier runs imported them from attempts read before, and although
\* runs failed.  The API may have cancelled a delivery since it was imported.
Reconciled ==
    complete => \A w \in Webhook :
        Due(w) =>
            \/ rows[w].status = "cancelled"
            \/ /\ rows[w].count = Len(attempts[w])
               /\ logged[w] = Len(attempts[w])
               /\ rows[w].status = ImportedStatus(attempts[w], TRUE)

\* No delivery is pending under a config that is off, deleted or was missing,
\* although the attempts and the config are read at different times.
PendingOnlyOn ==
    \A w \in Webhook : rows[w].status = "pending" => configs[ConfigOf[w]] = "on"

\* What no run gets past: a webhook that is due and whose last attempt names no
\* config, or is older than another attempt, so that its delivery, which gets
\* the time of the last one, looks out of date for ever.
Stuck(w) ==
    /\ Due(w)
    /\ \/ w \in unnamed
       \/ \E i \in DOMAIN attempts[w] : attempts[w][i].updated > Last(w).updated

\* The command comes to an end, although every batch selects again what looks
\* older than its attempts, and is run again when it fails: unless the old
\* workers left a webhook behind that no run gets past.
Completes == <>complete \/ <>[](\E w \in Webhook : Stuck(w))
=============================================================================
