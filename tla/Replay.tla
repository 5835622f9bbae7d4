-------------------------------- MODULE Replay --------------------------------
(***************************************************************************)
(* The replay API: one delivery, or all of them page by page, under        *)
(* idempotency keys that are kept for 24 hours.                            *)
(*                                                                         *)
(* A client repeats a request under its key until it has the answer; the   *)
(* request may run on several servers at once, abort, or commit while the  *)
(* answer is lost.  A transaction holds the advisory lock of its key from  *)
(* the first step and the rows of its page from LockRows to its end.       *)
(*                                                                         *)
(* Deliveries are numbered in the order (created_at, id).  Their configs   *)
(* are active; Deliveries has the race of a replay with a switched config. *)
(* A tick is long compared with a transaction.  The clock of a server is   *)
(* not behind the clocks that stamped created_at, so a page without an     *)
(* upper bound reaches the newest delivery.                                *)
(***************************************************************************)
EXTENDS Integers, FiniteSets

CONSTANTS
    Walker,         \* clients that replay everything, page by page
    Caller,         \* clients that replay one delivery
    Handler,        \* requests the servers can work on at a time
    Key,            \* idempotency keys
    NoKey, NoRequest,
    PageSize,       \* of a bulk request
    Expiry,         \* lifetime of a key, in ticks
    MaxRows,        \* bound on the deliveries
    MaxGeneration   \* bound on the generations of a delivery

ASSUME ReplayAssumption ==
    /\ PageSize \in Nat \ {0} /\ Expiry \in Nat
    /\ MaxRows \in Nat \ {0} /\ MaxGeneration \in Nat \ {0}

Client == Walker \cup Caller
Row == 1..MaxRows

VARIABLES
    rows,       \* the table deliveries: status, replay_generation
    records,    \* the table replay_requests, by key
    tx,         \* the request each handler is working on
    client,     \* what each client wants, and under which key
    covered,    \* history: rows reported to each client
    steady,     \* history: rows replayable ever since the client began
    applied     \* history: how often each key changed the table, and when last

vars == <<rows, records, tx, client, covered, steady, applied>>

Status == {"none", "pending", "delivering", "failed", "finished"}
Replayable(r) == rows[r].status \in {"failed", "pending"}

\* Requests: a page after a cursor up to created_at_to (0: none given), or one
\* delivery.  NextPage is what the cursor token of an answer leads to.
Page(cursor, to) == [route |-> "deliveries", at |-> cursor, to |-> to]
One(r) == [route |-> "delivery", at |-> r, to |-> 0]
Request == [route : {"deliveries", "delivery"}, at : 0..MaxRows, to : 0..MaxRows]

ASSUME NoneAssumption == NoRequest \notin Request /\ NoKey \notin Key

\* What is kept under a key.  No record is as good as one that has expired.
Record == [request : Request \cup {NoRequest}, next : Request \cup {NoRequest},
           rows : SUBSET Row, age : 0..(Expiry + 1)]
NoRecord == [request |-> NoRequest, next |-> NoRequest, rows |-> {},
             age |-> Expiry + 1]

Pc == {"idle", "received", "keyed", "scanning", "selected"}
Tx == [pc : Pc, client : Client, key : Key, request : Request,
       rows : SUBSET Row, to : 0..MaxRows]

TypeOK ==
    /\ rows \in [Row -> [status : Status, generation : 0..MaxGeneration]]
    /\ records \in [Key -> Record]
    /\ tx \in [Handler -> Tx \cup {[pc |-> "idle"]}]
    /\ client \in [Client -> [request : Request \cup {NoRequest},
                              key : Key \cup {NoKey}]]
    /\ covered \in [Client -> SUBSET Row]
    /\ steady \in [Client -> SUBSET Row]
    /\ applied \in [Key -> [times : Nat, age : 0..(Expiry + 1)]]

Init ==
    /\ rows \in [Row -> [status : {"none", "pending", "failed"}, generation : {0}]]
    /\ \A r \in Row \ {1} : rows[r].status # "none" => rows[r - 1].status # "none"
    /\ records = [k \in Key |-> NoRecord]
    /\ tx = [h \in Handler |-> [pc |-> "idle"]]
    /\ client = [c \in Client |->
          [request |-> IF c \in Walker THEN Page(0, 0) ELSE One(1),
           key |-> NoKey]]
    /\ covered = [c \in Client |-> {}]
    /\ steady = [c \in Client |-> {r \in Row : Replayable(r)}]
    /\ applied = [k \in Key |-> [times |-> 0, age |-> 0]]
-----------------------------------------------------------------------------
Holding(h) == tx[h].pc \in {"keyed", "scanning", "selected"}
KeyFree(h) == \A i \in Handler \ {h} : Holding(i) => tx[i].key # tx[h].key
Locked == UNION {tx[h].rows : h \in {i \in Handler : tx[i].pc = "selected"}}

Existing == {r \in Row : rows[r].status # "none"}
Newest == Cardinality(Existing)

Advance(h, pc, set, to) ==
    tx' = [tx EXCEPT ![h] = [@ EXCEPT !.pc = pc, !.rows = set, !.to = to]]
End(h) == tx' = [tx EXCEPT ![h] = [pc |-> "idle"]]

\* The answer reaches the client, if it still waits for it, or gets lost.
Waits(h) == client[tx[h].client] = [request |-> tx[h].request, key |-> tx[h].key]

Learns(h, next, set) ==
    \/ /\ Waits(h)
       /\ client' = [client EXCEPT ![tx[h].client] =
                        [request |-> next, key |-> NoKey]]
       /\ covered' = [covered EXCEPT ![tx[h].client] = @ \cup set]
    \/ UNCHANGED <<client, covered>>

\* The first n rows of a set.
First(n, set) == {r \in set : Cardinality({q \in set : q < r}) < n}

Last(set) == CHOOSE r \in set : \A q \in set : q =< r

\* Rows that stop being replayable are no longer steady.
Observe == steady' = [c \in Client |-> {r \in steady[c] : Replayable(r)'}]
-----------------------------------------------------------------------------
ChooseKey(c, k) ==
    /\ client[c].request # NoRequest /\ client[c].key = NoKey
    /\ client' = [client EXCEPT ![c].key = k]
    /\ UNCHANGED <<rows, records, tx, covered, steady, applied>>

\* A request arrives, for the first time or again.
Receive(h, c) ==
    /\ tx[h].pc = "idle" /\ client[c].key # NoKey
    /\ tx' = [tx EXCEPT ![h] = [pc |-> "received", client |-> c,
                 key |-> client[c].key, request |-> client[c].request,
                 rows |-> {}, to |-> client[c].request.to]]
    /\ UNCHANGED <<rows, records, client, covered, steady, applied>>

(***************************************************************************)
(* replayCached: the lock of the key, then the record kept for it.         *)
(***************************************************************************)
Expired(record) == record.age > Expiry

Fresh(h) == Expired(records[tx[h].key])

\* Variant: the hash of the request is not compared.
AnyRequest(h) == TRUE

SameRequest(h) == records[tx[h].key].request = tx[h].request

Proceed(h) ==
    /\ tx[h].pc = "received" /\ KeyFree(h) /\ Fresh(h)
    /\ Advance(h, "keyed", {}, tx[h].to)
    /\ UNCHANGED <<rows, records, client, covered, steady, applied>>

Cached(h) ==
    LET record == records[tx[h].key] IN
    /\ tx[h].pc = "received" /\ KeyFree(h) /\ ~Fresh(h) /\ SameRequest(h)
    /\ Learns(h, record.next, record.rows)
    /\ End(h)
    /\ UNCHANGED <<rows, records, steady, applied>>

\* ErrIdempotencyConflict: the client has to find another key.
Conflict(h) ==
    /\ tx[h].pc = "received" /\ KeyFree(h) /\ ~Fresh(h) /\ ~SameRequest(h)
    /\ Learns(h, tx[h].request, {})
    /\ End(h)
    /\ UNCHANGED <<rows, records, steady, applied>>

(***************************************************************************)
(* The rows.  SELECT ... FOR UPDATE finds them in its snapshot, waits for  *)
(* the ones another transaction holds, and keeps those that still match.   *)
(***************************************************************************)
Upper(h) == IF tx[h].to = 0 THEN Newest ELSE tx[h].to

\* Variant: the page starts with the row of the cursor.
FromCursor(h) ==
    {r \in Existing : Replayable(r) /\ r >= tx[h].request.at /\ r =< Upper(h)}

Matching(h) ==
    {r \in Existing : Replayable(r) /\ r > tx[h].request.at /\ r =< Upper(h)}

Snapshot(h) ==
    /\ tx[h].pc = "keyed"
    /\ IF tx[h].request.route = "delivery"
       THEN Advance(h, "scanning", {tx[h].request.at} \cap Existing, 0)
       ELSE Advance(h, "scanning", Matching(h), Upper(h))
    /\ UNCHANGED <<rows, records, client, covered, steady, applied>>

Candidates(h) ==
    LET found == {r \in tx[h].rows : Replayable(r)} IN
    IF tx[h].request.route = "delivery" THEN found ELSE First(PageSize + 1, found)

LockRows(h) ==
    /\ tx[h].pc = "scanning"
    /\ tx[h].request.route = "delivery" => Candidates(h) # {}
    /\ Candidates(h) \cap Locked = {}
    /\ Advance(h, "selected", Candidates(h), tx[h].to)
    /\ UNCHANGED <<rows, records, client, covered, steady, applied>>

\* ErrDeliveryNotFound, ErrDeliveryNotReplayable: nothing is stored.
Refuse(h) ==
    /\ tx[h].pc = "scanning"
    /\ tx[h].request.route = "delivery" /\ Candidates(h) = {}
    /\ Learns(h, NoRequest, {})
    /\ End(h)
    /\ UNCHANGED <<rows, records, steady, applied>>

\* Variant: a full page is the last one.
HasMoreLate(h) == Cardinality(tx[h].rows) > PageSize + 1

HasMore(h) == Cardinality(tx[h].rows) > PageSize

PageRows(h) == First(PageSize, tx[h].rows)

NextPage(h) ==
    IF tx[h].request.route = "deliveries" /\ HasMore(h)
    THEN Page(Last(PageRows(h)), tx[h].to) ELSE NoRequest

\* Variant: pending deliveries are treated like failed ones.
ReplayedAlike(row) == [status |-> "pending", generation |-> row.generation + 1]

Replayed(row) ==
    IF row.status = "failed"
    THEN [status |-> "pending", generation |-> row.generation + 1] ELSE row

\* Variant: the answer is not stored.
NothingStored(h) == UNCHANGED records

storeReplayResponse(h) ==
    records' = [records EXCEPT ![tx[h].key] =
        [request |-> tx[h].request, next |-> NextPage(h),
         rows |-> PageRows(h), age |-> 0]]

Commit(h) ==
    /\ tx[h].pc = "selected"
    /\ rows' = [r \in Row |-> IF r \in PageRows(h) THEN Replayed(rows[r]) ELSE rows[r]]
    /\ storeReplayResponse(h)
    /\ applied' = [applied EXCEPT ![tx[h].key] =
          [times |-> IF @.age > Expiry THEN 1 ELSE @.times + 1, age |-> 0]]
    /\ Learns(h, NextPage(h), PageRows(h))
    /\ End(h)
    /\ UNCHANGED steady

\* An error, a client that hangs up, a crash: the transaction is rolled back.
Abort(h) ==
    /\ tx[h].pc # "idle"
    /\ End(h)
    /\ UNCHANGED <<rows, records, client, covered, steady, applied>>
-----------------------------------------------------------------------------
(***************************************************************************)
(* What goes on meanwhile: workers, new deliveries, retention, time.       *)
(***************************************************************************)
Become(r, status) ==
    /\ rows' = [rows EXCEPT ![r].status = status]
    /\ Observe
    /\ UNCHANGED <<records, tx, client, covered, applied>>

\* A claim, its recovery, a retry, an outcome or a cancellation.
Work(r) ==
    /\ r \notin Locked
    /\ \/ rows[r].status = "pending" /\ Become(r, "delivering")
       \/ rows[r].status = "delivering" /\ Become(r, "pending")
       \/ /\ rows[r].status = "delivering"
          /\ rows[r].generation < MaxGeneration /\ Become(r, "failed")
       \/ rows[r].status \in {"pending", "delivering"} /\ Become(r, "finished")

Enqueue == Newest < MaxRows /\ Become(Newest + 1, "pending")

\* PurgeFinishedDeliveries, its part on replay_requests.
PurgeRecord(k) ==
    /\ records[k] # NoRecord /\ Expired(records[k])
    /\ records' = [records EXCEPT ![k] = NoRecord]
    /\ UNCHANGED <<rows, tx, client, covered, steady, applied>>

Older(age) == IF age > Expiry THEN age ELSE age + 1

Tick ==
    /\ \A h \in Handler : tx[h].pc = "idle"
    /\ applied' = [k \in Key |-> [applied[k] EXCEPT !.age = Older(@)]]
    /\ records' = [k \in Key |-> [records[k] EXCEPT !.age = Older(@)]]
    /\ UNCHANGED <<rows, tx, client, covered, steady>>

HandlerStep(h) ==
    \/ Proceed(h) \/ Cached(h) \/ Conflict(h) \/ Snapshot(h) \/ LockRows(h)
    \/ Refuse(h) \/ Commit(h) \/ Abort(h)

Next ==
    \/ \E c \in Client, k \in Key : ChooseKey(c, k)
    \/ \E h \in Handler, c \in Client : Receive(h, c)
    \/ \E h \in Handler : HandlerStep(h)
    \/ \E r \in Row : Work(r)
    \/ \E k \in Key : PurgeRecord(k)
    \/ Enqueue \/ Tick

Spec == Init /\ [][Next]_vars
-----------------------------------------------------------------------------
(***************************************************************************)
(* Properties                                                              *)
(***************************************************************************)

\* "Replay commands are idempotent through Idempotency-Key": however often a
\* request is repeated, on however many servers at once, its key changes the
\* table once in the 24 hours it is kept.
AppliedOncePerKey == \A k \in Key : applied[k].times =< 1

\* A client that has followed the cursors to the end has got every delivery
\* that could be replayed all the time, in spite of lost answers, repeated
\* pages, reused keys, concurrent replays and new deliveries.
WalkComplete ==
    \A c \in Walker :
        client[c].request = NoRequest => steady[c] \subseteq covered[c]

\* A page that is about to be replayed for a client has no delivery of its
\* earlier pages, however rows and cached answers changed since it read them.
\* The page itself may be replayed again, if its answer was lost and its key has
\* lapsed.
PagesDisjoint ==
    \A h \in Handler :
        tx[h].pc = "selected" /\ Waits(h) =>
            tx[h].rows \cap covered[tx[h].client] = {}
=============================================================================
