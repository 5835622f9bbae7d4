--------------------------- MODULE ConfigContents ---------------------------
(***************************************************************************)
(* What a config says: its endpoint and its secret, changed through the    *)
(* API while dispatchers and the test endpoint sign and send requests with *)
(* them.  One row of the configs table; the event types go with the        *)
(* endpoint, and the deliveries that a deactivation or a deletion cancels  *)
(* are in module Deliveries.                                               *)
(*                                                                         *)
(* Insertion and update are one statement, activation and deletion lock    *)
(* the row: each is one step.  A rotation of the secret reads and writes   *)
(* in separate statements, and whoever sends a request reads the config    *)
(* first: these are processes of two steps.                                *)
(***************************************************************************)
CONSTANTS
    Rotation,   \* goroutines that change the secret
    Sender,     \* goroutines that send deliveries or tests
    Endpoint,
    Secret

ASSUME ConfigContentsAssumption == Endpoint # {} /\ Secret # {}

Process == Rotation \cup Sender

VARIABLES
    row,        \* the config
    procs,      \* rotations and requests under way
    held,       \* history: what each process may answer or send
    out,        \* what this step answered or sent, if it did
    updated     \* history: the endpoint of the last insertion or update

vars == <<row, procs, held, out, updated>>

Row == [state : {"absent", "on", "off", "deleted"},
        endpoint : Endpoint, secret : Secret]

Kind == {"rotate", "deliver", "test"}
Contents == [endpoint : Endpoint, secret : Secret]

\* A process that has read the config, or is idle: the contents it has read and
\* the secret it was given.
Proc == [kind : Kind \cup {"idle"}, read : Contents, secret : Secret]

\* The contents a process has answered or sent, and those it may have.
Output == [kind : Kind \cup {"none"}, says : Contents, held : SUBSET Contents]

TypeOK ==
    /\ row \in Row
    /\ procs \in [Process -> Proc]
    /\ held \in [Process -> SUBSET Contents]
    /\ out \in Output
    /\ updated \in Endpoint

\* The values a Go variable has before it is set are never looked at.
AnyContents == CHOOSE contents \in Contents : TRUE
Idle == [kind |-> "idle", read |-> AnyContents, secret |-> AnyContents.secret]
NoOutput == [kind |-> "none", says |-> AnyContents, held |-> {}]

Init ==
    /\ row = [state |-> "absent", endpoint |-> AnyContents.endpoint,
              secret |-> AnyContents.secret]
    /\ procs = [p \in Process |-> Idle]
    /\ held = [p \in Process |-> {}]
    /\ out = NoOutput
    /\ updated = AnyContents.endpoint

ContentsOf(config) == [endpoint |-> config.endpoint, secret |-> config.secret]

\* Whether a config as it is now justifies what a process does: a rotation if
\* it has the new secret, a delivery if it is active, a test in any case.
Justifies(config, proc) ==
    /\ config.state \in {"on", "off"}
    /\ proc.kind = "rotate" => config.secret = proc.secret
    /\ proc.kind = "deliver" => config.state = "on"

\* Every process under way sees the config as this step leaves it.
Seen(p, proc) ==
    held[p] \cup IF Justifies(row', proc) THEN {ContentsOf(row')} ELSE {}

Observe ==
    held' = [p \in Process |->
        IF procs'[p].kind = "idle" THEN {} ELSE Seen(p, procs'[p])]
-----------------------------------------------------------------------------
(***************************************************************************)
(* Requests of the API that take one step.                                 *)
(***************************************************************************)
Live == row.state \in {"on", "off"}

\* Validate puts a secret of NewSecret where the request has none.
Validate(given, secret) == given = "none" \/ secret = given
Given == Secret \cup {"none"}

InsertOneConfig(endpoint, secret) ==
    /\ row.state = "absent"
    /\ row' = [state |-> "on", endpoint |-> endpoint, secret |-> secret]
    /\ updated' = endpoint

\* Answers alike whether or not there is such a config.
UpdateOneConfig(endpoint, secret) ==
    \/ /\ Live
       /\ row' = [row EXCEPT !.endpoint = endpoint, !.secret = secret]
       /\ updated' = endpoint
    \/ ~Live /\ UNCHANGED <<row, updated>>

UpdateOneConfigActivation(state) ==
    /\ Live /\ row.state # state
    /\ row' = [row EXCEPT !.state = state]
    /\ UNCHANGED updated

DeleteOneConfig ==
    /\ Live
    /\ row' = [row EXCEPT !.state = "deleted"]
    /\ UNCHANGED updated

Handled == UNCHANGED procs /\ out' = NoOutput /\ Observe

insertOneConfigHandle ==
    /\ \E endpoint \in Endpoint, given \in Given, secret \in Secret :
          Validate(given, secret) /\ InsertOneConfig(endpoint, secret)
    /\ Handled

updateOneConfigHandle ==
    /\ \E endpoint \in Endpoint, given \in Given, secret \in Secret :
          Validate(given, secret) /\ UpdateOneConfig(endpoint, secret)
    /\ Handled

activateOneConfigHandle == UpdateOneConfigActivation("on") /\ Handled
deactivateOneConfigHandle == UpdateOneConfigActivation("off") /\ Handled
deleteOneConfigHandle == DeleteOneConfig /\ Handled
-----------------------------------------------------------------------------
(***************************************************************************)
(* A process reads the config.                                             *)
(***************************************************************************)
\* A dispatcher asks for an active config, the others for one that is not
\* deleted.
FindManyConfigs(kind) == IF kind = "deliver" THEN row.state = "on" ELSE Live

Begin(p, kind) ==
    /\ procs[p].kind = "idle" /\ FindManyConfigs(kind)
    /\ \E secret \in Secret :
          /\ kind # "rotate" => secret = Idle.secret
          /\ procs' = [procs EXCEPT ![p] =
              [kind |-> kind, secret |-> secret, read |-> ContentsOf(row)]]
    /\ UNCHANGED <<row, updated>> /\ out' = NoOutput /\ Observe

changeSecretHandle(p) == Begin(p, "rotate")
dispatchOne(p) == Begin(p, "deliver")
testOneConfigHandle(p) == Begin(p, "test")
-----------------------------------------------------------------------------
(***************************************************************************)
(* The rotation writes.                                                    *)
(***************************************************************************)
\* Variant: the row is not looked at again.
RotatedAnyRow(p) == [row EXCEPT !.secret = procs[p].secret]

\* Variant: the config that was read is written back.
RotatedWholeRow(p) ==
    IF Live THEN [row EXCEPT !.endpoint = procs[p].read.endpoint,
                             !.secret = procs[p].secret]
    ELSE row

\* Variant: nothing is written when another rotation came first.
RotatedIfUnchanged(p) ==
    IF Live /\ row.secret = procs[p].read.secret
    THEN [row EXCEPT !.secret = procs[p].secret] ELSE row

\* Variant: the secret is stored in another form than it was given.
RotatedEncoded(p) ==
    IF Live THEN [row EXCEPT !.secret = <<procs[p].secret>>] ELSE row

Rotated(p) == IF Live THEN [row EXCEPT !.secret = procs[p].secret] ELSE row

Finish(p, contents) ==
    /\ procs' = [procs EXCEPT ![p] = Idle]
    /\ out' = [kind |-> procs[p].kind, says |-> contents,
               held |-> Seen(p, procs[p])]

Unmodified(p) == procs[p].secret = procs[p].read.secret

\* The answer has what was read, with the new secret.
UpdateOneConfigSecret(p) ==
    /\ procs[p].kind = "rotate"
    /\ row' = IF Unmodified(p) THEN row ELSE Rotated(p)
    /\ Finish(p, [procs[p].read EXCEPT !.secret = procs[p].secret])
    /\ UNCHANGED updated /\ Observe
-----------------------------------------------------------------------------
(***************************************************************************)
(* A request is signed and sent.                                           *)
(***************************************************************************)
\* Variant: the secret is looked up when it is needed.
SignedLate(p) == [procs[p].read EXCEPT !.secret = row.secret]

Signed(p) == procs[p].read

MakeAttempt(p) ==
    /\ procs[p].kind \in {"deliver", "test"}
    /\ UNCHANGED <<row, updated>>
    /\ Finish(p, Signed(p)) /\ Observe

\* A statement fails, or the process dies.
Fail(p) ==
    /\ procs[p].kind # "idle"
    /\ procs' = [procs EXCEPT ![p] = Idle]
    /\ UNCHANGED <<row, updated>> /\ out' = NoOutput /\ Observe

Next ==
    \/ insertOneConfigHandle \/ updateOneConfigHandle
    \/ activateOneConfigHandle \/ deactivateOneConfigHandle
    \/ deleteOneConfigHandle
    \/ \E p \in Rotation : changeSecretHandle(p) \/ UpdateOneConfigSecret(p)
    \/ \E p \in Sender :
          dispatchOne(p) \/ testOneConfigHandle(p) \/ MakeAttempt(p)
    \/ \E p \in Process : Fail(p)

Spec == Init /\ [][Next]_vars
-----------------------------------------------------------------------------
(***************************************************************************)
(* Properties                                                              *)
(***************************************************************************)

\* A request goes to an endpoint with a signature under a secret that the row
\* held together with it since the sender began, while the config was active
\* (for a delivery) or not deleted (for a test): no update or rotation splits
\* the two.
SignedTogether == out.kind \in {"deliver", "test"} => out.says \in out.held

\* The secret that a rotation answers was in force during the request, although
\* others rotate and update in between, unless the config was deleted meanwhile.
RotationTrue ==
    out.kind = "rotate" =>
        \/ row.state = "deleted"
        \/ \E said \in out.held : said.secret = out.says.secret

\* The endpoint in force is the one of the last update to be applied: no
\* rotation, activation or deletion that read the config earlier brings an
\* older one back.
UpdatesSurvive == row.state # "absent" => row.endpoint = updated

\* A deleted config stays as it was, although rotations that read it before
\* the deletion write after it.
DeletedFrozen == [][row.state = "deleted" => row' = row]_vars
=============================================================================
