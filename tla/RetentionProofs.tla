--------------------------- MODULE RetentionProofs ---------------------------
(***************************************************************************)
(* Proofs about Retention, for any number of events, configs and retention *)
(* goroutines, any batch size and any delays that RetentionAssumption      *)
(* admits.                                                                 *)
(***************************************************************************)
EXTENDS Retention, TLAPS

\* What a delivery and its message know of each other: a row is inserted once, is
\* never older than its message, and is purged only when the broker has given
\* the message up.
Lived(d) ==
    /\ created[d] =< 1
    /\ Exists(d) => created[d] = 1 /\ rows[d].age =< messages[d[1]].age
    /\ created[d] > 0 => messages[d[1]].state # "none"
    /\ created[d] > 0 /\ ~Exists(d) => messages[d[1]].age > RedeliveryWindow

\* A replay holds rows it can replay.
HeldReplayable == \A d \in held : rows[d].status \in {"failed", "pending"}

\* A stored event has a delivery for every config it is owed to.
Owing ==
    \A e \in Event : \A c \in owed[e] :
        /\ configs[c] = "active"
        /\ messages[e].state \in {"stored", "acked"} => created[<<e, c>>] > 0

\* What a run has selected is deleted for good, and nothing refers to it.
Selection ==
    \A p \in Purger : \A c \in purger[p].selected :
        configs[c] \in {"deleted", "purged"} /\ ~Referenced(c)

Inv == TypeOK /\ (\A d \in Delivery : Lived(d)) /\ HeldReplayable /\ Owing /\ Selection
-----------------------------------------------------------------------------
(***************************************************************************)
(* Ages, rows and the operators that write them.                           *)
(***************************************************************************)
RowStatus == {"none", "pending", "delivering", "succeeded", "failed", "cancelled"}

\* The longest of the three delays is one of them, and none is longer.
LEMMA LongestType ==
    /\ Longest \in Nat
    /\ RedeliveryWindow =< Longest
    /\ SuccessDelay =< Longest /\ FailedDelay =< Longest
<1> DEFINE S == {SuccessDelay, FailedDelay, RedeliveryWindow}
<1>1. \E n \in S : \A m \in S : m =< n
    BY RetentionAssumption
<1>2. Longest \in S /\ \A m \in S : m =< Longest
    BY <1>1 DEF Longest
<1>3. QED
    BY <1>2, RetentionAssumption

\* Time makes an age larger, or leaves it past every delay, and keeps the order.
LEMMA OlderAges ==
    /\ 0 \in Age
    /\ \A a \in Age : Older(a) \in Age /\ a =< Older(a)
    /\ \A a, b \in Age : a =< b => Older(a) =< Older(b)
BY LongestType DEF Older, Age

\* A delivery is the pair of its event and its config.
LEMMA DeliveryPair ==
    /\ \A d \in Delivery : d[1] \in Event /\ d[2] \in Config /\ d = <<d[1], d[2]>>
    /\ \A e \in Event, c \in Config : <<e, c>> \in Delivery
BY DEF Delivery

\* The fields of a row and of a message.
LEMMA Fields ==
    ASSUME TypeOK
    PROVE  /\ \A d \in Delivery : rows[d].status \in RowStatus /\ rows[d].age \in Age
           /\ \A e \in Event : /\ messages[e].state \in {"none", "queued", "stored", "acked"}
                               /\ messages[e].age \in Age
           /\ Age \subseteq Nat
BY LongestType DEF TypeOK, RowStatus, Age

\* What Write does to each row.
LEMMA WriteRows ==
    ASSUME TypeOK, NEW S \in SUBSET Delivery, NEW st \in RowStatus, Write(S, st)
    PROVE  /\ rows' \in [Delivery -> [status : RowStatus, age : Age]]
           /\ \A d \in S : rows'[d].status = st /\ rows'[d].age = 0
           /\ \A d \in Delivery \ S : rows'[d] = rows[d]
<1>1. \A d \in Delivery :
         rows'[d] = IF d \in S THEN [status |-> st, age |-> 0] ELSE rows[d]
    BY DEF Write
<1>2. [status |-> st, age |-> 0] \in [status : RowStatus, age : Age]
    BY OlderAges
<1>3. rows \in [Delivery -> [status : RowStatus, age : Age]]
    BY DEF TypeOK, RowStatus
<1>4. \A d \in Delivery : rows'[d] \in [status : RowStatus, age : Age]
    BY <1>1, <1>2, <1>3
<1>5. rows' \in [Delivery -> [status : RowStatus, age : Age]]
    BY <1>4 DEF Write
<1>6. QED
    BY <1>1, <1>5

\* Existing rows that get a status go on living, and refer to their configs.
LEMMA Rewritten ==
    ASSUME Inv, NEW S \in SUBSET Delivery, NEW st \in RowStatus \ {"none"},
           \A d \in S : Exists(d), Write(S, st), UNCHANGED <<messages, created>>
    PROVE  /\ rows' \in [Delivery -> [status : RowStatus, age : Age]]
           /\ \A d \in Delivery : Lived(d)'
           /\ \A c \in Config : Referenced(c)' <=> Referenced(c)
           /\ \A d \in Delivery \ S : rows'[d] = rows[d]
           /\ \A d \in S : rows'[d].status = st
<1>1. TypeOK
    BY DEF Inv
<1>2. /\ rows' \in [Delivery -> [status : RowStatus, age : Age]]
      /\ \A d \in S : rows'[d].status = st /\ rows'[d].age = 0
      /\ \A d \in Delivery \ S : rows'[d] = rows[d]
    BY <1>1, WriteRows
<1>3. \A d \in Delivery : Exists(d)' <=> Exists(d)
    BY <1>2 DEF Exists
<1>4. \A c \in Config : Referenced(c)' <=> Referenced(c)
    BY <1>3 DEF Referenced, RowsOf
<1>5. ASSUME NEW d \in Delivery PROVE Lived(d)'
    <2>1. Lived(d)
        BY DEF Inv
    <2>2. rows'[d].age =< rows[d].age
        BY <1>1, <1>2, Fields
    <2>3. rows'[d].age \in Nat /\ rows[d].age \in Nat /\ messages[d[1]].age \in Nat
        BY <1>1, <1>2, Fields, DeliveryPair
    <2>4. Exists(d) => rows[d].age =< messages[d[1]].age
        BY <2>1 DEF Lived
    <2>5. Exists(d) => rows'[d].age =< messages[d[1]].age
        BY <2>2, <2>3, <2>4
    <2>6. Exists(d)' <=> Exists(d)
        BY <1>3
    <2>7. QED
        BY <2>1, <2>5, <2>6 DEF Lived
<1>6. QED
    BY <1>2, <1>4, <1>5

\* What Continue does to a run.
LEMMA ContinueRun ==
    ASSUME TypeOK, NEW p \in Purger, NEW next \in Statement,
           NEW selected \in SUBSET Config, Continue(p, next, selected)
    PROVE  /\ purger' \in [Purger -> [next : Statement, selected : SUBSET Config]]
           /\ purger'[p].selected = selected
           /\ \A q \in Purger \ {p} : purger'[q] = purger[q]
BY DEF TypeOK, Continue
-----------------------------------------------------------------------------
(***************************************************************************)
(* The invariant holds initially and is kept by every action.              *)
(***************************************************************************)
LEMMA InitInv == Init => Inv
<1> SUFFICES ASSUME Init PROVE Inv
    OBVIOUS
<1>1. TypeOK
    BY OlderAges DEF Init, TypeOK, Statement
<1>2. \A d \in Delivery : Lived(d)
    BY DEF Init, Lived, Exists
<1>3. HeldReplayable /\ Owing /\ Selection
    BY DEF Init, HeldReplayable, Owing, Selection
<1>4. QED
    BY <1>1, <1>2, <1>3 DEF Inv

\* A message that is published has no rows yet.
LEMMA PublishInv == ASSUME Inv, NEW e \in Event, Publish(e) PROVE Inv'
<1> DEFINE on == {c \in Config : configs[c] = "active"}
<1>1. TypeOK
    BY DEF Inv
<1>2. /\ messages[e].state = "none"
      /\ messages' = [messages EXCEPT ![e] = [state |-> "queued", age |-> 0]]
      /\ owed' = [owed EXCEPT ![e] = on]
      /\ UNCHANGED <<rows, configs, held, purger, created>>
    BY DEF Publish
<1>3. TypeOK'
    BY <1>1, <1>2, OlderAges DEF TypeOK
<1>4. messages'[e].state = "queued" /\ \A f \in Event \ {e} : messages'[f] = messages[f]
    BY <1>1, <1>2 DEF TypeOK
<1>5. ASSUME NEW d \in Delivery PROVE Lived(d)'
    <2>1. Lived(d) /\ d[1] \in Event
        BY DeliveryPair DEF Inv
    <2>2. CASE d[1] = e
        <3>1. ~(created[d] > 0)
            BY <1>2, <2>1, <2>2 DEF Lived
        <3>2. ~Exists(d)
            BY <2>1, <3>1 DEF Lived
        <3>3. QED
            BY <1>2, <2>1, <3>1, <3>2 DEF Lived, Exists
    <2>3. CASE d[1] # e
        BY <1>2, <1>4, <2>1, <2>3 DEF Lived, Exists
    <2>4. QED
        BY <2>2, <2>3
<1>6. HeldReplayable' /\ Selection'
    BY <1>2 DEF Inv, HeldReplayable, Selection, Referenced, Exists
<1>7. ASSUME NEW f \in Event, NEW c \in owed'[f]
      PROVE  /\ configs'[c] = "active"
             /\ messages'[f].state \in {"stored", "acked"} => created'[<<f, c>>] > 0
    <2>1. CASE f = e
        <3>1. owed'[f] = on
            BY <1>1, <1>2, <2>1 DEF TypeOK
        <3>2. QED
            BY <1>2, <1>4, <2>1, <3>1
    <2>2. CASE f # e
        <3>1. owed'[f] = owed[f]
            BY <1>1, <1>2, <2>2 DEF TypeOK
        <3>2. QED
            BY <1>2, <1>4, <2>2, <3>1 DEF Inv, Owing
    <2>3. QED
        BY <2>1, <2>2
<1>8. Owing'
    BY <1>7 DEF Owing
<1>9. QED
    BY <1>3, <1>5, <1>6, <1>8 DEF Inv

\* A message is delivered again only while the rows it made are there: a row
\* that EnqueueEvent inserts is inserted for the first time.
LEMMA EnqueueEventInv == ASSUME Inv, NEW e \in Event, EnqueueEvent(e) PROVE Inv'
<1> DEFINE new == {d \in {e} \X Config : MayReceive(ConfigOf(d)) /\ ~Exists(d)}
<1>1. TypeOK
    BY DEF Inv
<1>2. /\ messages[e].state # "none" /\ messages[e].age =< RedeliveryWindow
      /\ Write(new, "pending")
      /\ created' = [d \in Delivery |->
            IF d \in new /\ created[d] < 2 THEN created[d] + 1 ELSE created[d]]
      /\ messages' = [messages EXCEPT ![e].state = IF @ = "queued" THEN "stored" ELSE @]
      /\ UNCHANGED <<configs, held, purger, owed>>
    BY DEF EnqueueEvent
<1>3. /\ new \in SUBSET Delivery
      /\ \A d \in new : d[1] = e /\ ~Exists(d) /\ configs[d[2]] = "active"
      /\ \A c \in Config : configs[c] = "active" /\ ~Exists(<<e, c>>) => <<e, c>> \in new
    BY DEF Delivery, MayReceive, ConfigOf
<1> HIDE DEF new
<1>4. /\ rows' \in [Delivery -> [status : RowStatus, age : Age]]
      /\ \A d \in new : rows'[d].status = "pending" /\ rows'[d].age = 0
      /\ \A d \in Delivery \ new : rows'[d] = rows[d]
    BY <1>1, <1>2, <1>3, WriteRows DEF RowStatus
<1>5. /\ \A f \in Event : messages'[f].age = messages[f].age
      /\ \A f \in Event : messages'[f].state = "none" <=> messages[f].state = "none"
      /\ \A f \in Event \ {e} : messages'[f] = messages[f]
      /\ messages' \in [Event -> [state : {"none", "queued", "stored", "acked"}, age : Age]]
    BY <1>1, <1>2 DEF TypeOK
<1>6. \A d \in new : created[d] = 0
    <2> SUFFICES ASSUME NEW d \in new PROVE created[d] = 0
        OBVIOUS
    <2>1. Lived(d) /\ created[d] \in 0..2
        BY <1>1, <1>3 DEF Inv, TypeOK
    <2>2. messages[d[1]].age \in Nat /\ messages[d[1]].age =< RedeliveryWindow
        BY <1>1, <1>2, <1>3, Fields
    <2>3. QED
        BY <1>3, <2>1, <2>2, RetentionAssumption DEF Lived
<1>7. /\ created' \in [Delivery -> 0..2]
      /\ \A d \in new : created'[d] = 1
      /\ \A d \in Delivery \ new : created'[d] = created[d]
    BY <1>1, <1>2, <1>3, <1>6 DEF TypeOK
<1>8. TypeOK'
    BY <1>1, <1>2, <1>4, <1>5, <1>7 DEF TypeOK, RowStatus
<1>9. ASSUME NEW d \in Delivery PROVE Lived(d)'
    <2>1. Lived(d) /\ d[1] \in Event
        BY DeliveryPair DEF Inv
    <2>2. CASE d \in new
        <3>1. messages'[d[1]].age \in Nat
            BY <1>1, <1>5, <2>1, Fields
        <3>2. messages'[d[1]].state # "none"
            BY <1>2, <1>3, <1>5, <2>1, <2>2
        <3>3. QED
            BY <1>4, <1>7, <2>2, <3>1, <3>2 DEF Lived, Exists
    <2>3. CASE d \notin new
        BY <1>4, <1>5, <1>7, <2>1, <2>3 DEF Lived, Exists
    <2>4. QED
        BY <2>2, <2>3
<1>10. HeldReplayable'
    <2>1. \A d \in held : d \in Delivery /\ rows[d].status \in {"failed", "pending"}
        BY <1>1 DEF Inv, HeldReplayable, TypeOK
    <2>2. \A d \in held : d \notin new
        BY <1>3, <2>1 DEF Exists
    <2>3. QED
        BY <1>2, <1>4, <2>1, <2>2 DEF HeldReplayable
<1>11. ASSUME NEW f \in Event, NEW c \in owed'[f]
       PROVE  /\ configs'[c] = "active"
              /\ messages'[f].state \in {"stored", "acked"} => created'[<<f, c>>] > 0
    <2>1. /\ c \in owed[f] /\ c \in Config /\ configs[c] = "active"
          /\ messages[f].state \in {"stored", "acked"} => created[<<f, c>>] > 0
        BY <1>1, <1>2 DEF Inv, Owing, TypeOK
    <2>2. <<f, c>> \in Delivery
        BY <2>1, DeliveryPair
    <2>3. CASE f = e
        <3>1. CASE <<f, c>> \in new
            BY <1>2, <1>7, <2>1, <3>1
        <3>2. CASE <<f, c>> \notin new
            <4>1. Exists(<<f, c>>)
                BY <1>3, <2>1, <2>3, <3>2
            <4>2. Lived(<<f, c>>)
                BY <2>2 DEF Inv
            <4>3. created[<<f, c>>] = 1
                BY <4>1, <4>2 DEF Lived
            <4>4. QED
                BY <1>2, <1>7, <2>1, <2>2, <3>2, <4>3
        <3>3. QED
            BY <3>1, <3>2
    <2>4. CASE f # e
        <3>1. <<f, c>> \notin new
            BY <1>3, <2>4
        <3>2. QED
            BY <1>2, <1>5, <1>7, <2>1, <2>2, <2>4, <3>1
    <2>5. QED
        BY <2>3, <2>4
<1>12. Owing'
    BY <1>11 DEF Owing
<1>13. Selection'
    <2> SUFFICES ASSUME NEW p \in Purger, NEW c \in purger[p].selected
                 PROVE  configs[c] \in {"deleted", "purged"} /\ ~Referenced(c)'
        BY <1>2 DEF Selection
    <2>1. configs[c] \in {"deleted", "purged"} /\ ~Referenced(c)
        BY DEF Inv, Selection
    <2>2. \A d \in RowsOf(c) : d \in Delivery /\ d \notin new /\ ~Exists(d)
        BY <1>3, <2>1 DEF RowsOf, ConfigOf, Referenced
    <2>3. \A d \in RowsOf(c) : ~Exists(d)'
        BY <1>4, <2>2 DEF Exists
    <2>4. QED
        BY <2>1, <2>3 DEF Referenced, RowsOf
<1>14. QED
    BY <1>8, <1>9, <1>10, <1>12, <1>13 DEF Inv

\* A message that is acknowledged was stored.
LEMMA AckInv == ASSUME Inv, NEW e \in Event, Ack(e) PROVE Inv'
<1>1. TypeOK
    BY DEF Inv
<1>2. /\ messages[e].state = "stored"
      /\ messages' = [messages EXCEPT ![e].state = "acked"]
      /\ UNCHANGED <<rows, configs, held, purger, created, owed>>
    BY DEF Ack, Handled
<1>3. TypeOK'
    BY <1>1, <1>2 DEF TypeOK
<1>4. /\ \A f \in Event : messages'[f].age = messages[f].age
      /\ \A f \in Event : messages'[f].state = "none" <=> messages[f].state = "none"
      /\ \A f \in Event : messages'[f].state \in {"stored", "acked"} =>
                             messages[f].state \in {"stored", "acked"}
    BY <1>1, <1>2 DEF TypeOK
<1>5. ASSUME NEW d \in Delivery PROVE Lived(d)'
    <2>1. Lived(d) /\ d[1] \in Event
        BY DeliveryPair DEF Inv
    <2>2. QED
        BY <1>2, <1>4, <2>1 DEF Lived, Exists
<1>6. HeldReplayable' /\ Selection'
    BY <1>2 DEF Inv, HeldReplayable, Selection, Referenced, Exists
<1>7. Owing'
    BY <1>2, <1>4 DEF Inv, Owing
<1>8. QED
    BY <1>3, <1>5, <1>6, <1>7 DEF Inv

\* A config that is created or activated was neither owed anything nor selected.
LEMMA SwitchOnInv ==
    ASSUME Inv, NEW c \in Config, InsertOneConfig(c) \/ Activate(c)
    PROVE  Inv'
<1>1. TypeOK
    BY DEF Inv
<1>2. /\ configs[c] \in {"absent", "inactive"}
      /\ configs' = [configs EXCEPT ![c] = "active"]
      /\ UNCHANGED <<rows, messages, held, purger, created, owed>>
    BY DEF InsertOneConfig, Activate
<1>3. TypeOK'
    BY <1>1, <1>2 DEF TypeOK
<1>4. \A d \in Delivery : Lived(d)'
    BY <1>2 DEF Inv, Lived, Exists
<1>5. HeldReplayable'
    BY <1>2 DEF Inv, HeldReplayable
<1>6. \A b \in Config \ {c} : configs'[b] = configs[b]
    BY <1>1, <1>2 DEF TypeOK
<1>7. Owing'
    <2>1. \A e \in Event : owed[e] \in SUBSET Config
        BY <1>1 DEF TypeOK
    <2>2. QED
        BY <1>2, <1>6, <2>1 DEF Inv, Owing
<1>8. Selection'
    <2>1. \A p \in Purger : purger[p].selected \in SUBSET Config
        BY <1>1 DEF TypeOK
    <2>2. \A p \in Purger : \A b \in purger[p].selected :
             b \in Config \ {c} /\ configs[b] \in {"deleted", "purged"} /\ ~Referenced(b)
        BY <1>2, <2>1 DEF Inv, Selection
    <2>3. QED
        BY <1>2, <1>6, <2>2 DEF Selection, Referenced, Exists
<1>9. QED
    BY <1>3, <1>4, <1>5, <1>7, <1>8 DEF Inv

\* A config that is switched off is owed nothing more; if it was deleted, it
\* stays deleted.
LEMMA SwitchOffInv ==
    ASSUME Inv, NEW c \in Config, Deactivate(c) \/ DeleteOneConfig(c)
    PROVE  Inv'
<1>1. TypeOK
    BY DEF Inv
<1>2. PICK state \in {"inactive", "deleted"} :
         configs[c] \in {"active", "inactive"} /\ SwitchOff(c, state)
    BY DEF Deactivate, DeleteOneConfig
<1>3. /\ Pending(c) \cap held = {}
      /\ configs' = [configs EXCEPT ![c] = state]
      /\ Write(Pending(c), "cancelled")
      /\ owed' = [e \in Event |-> owed[e] \ {c}]
      /\ UNCHANGED <<messages, held, purger, created>>
    BY <1>2 DEF SwitchOff
<1>4. Pending(c) \in SUBSET Delivery /\ \A d \in Pending(c) : Exists(d)
    BY DEF Pending, RowsOf, Exists
<1>5. /\ rows' \in [Delivery -> [status : RowStatus, age : Age]]
      /\ \A d \in Delivery : Lived(d)'
      /\ \A b \in Config : Referenced(b)' <=> Referenced(b)
      /\ \A d \in Delivery \ Pending(c) : rows'[d] = rows[d]
    <2>1. "cancelled" \in RowStatus \ {"none"}
        BY DEF RowStatus
    <2>2. QED
        BY <1>3, <1>4, <2>1, Rewritten
<1>6. TypeOK'
    BY <1>1, <1>3, <1>5 DEF TypeOK, RowStatus
<1>7. HeldReplayable'
    <2>1. held \subseteq Delivery
        BY <1>1 DEF TypeOK
    <2>2. QED
        BY <1>3, <1>5, <2>1 DEF Inv, HeldReplayable
<1>8. \A b \in Config \ {c} : configs'[b] = configs[b]
    BY <1>1, <1>3 DEF TypeOK
<1>9. Owing'
    <2>1. \A e \in Event : owed'[e] = owed[e] \ {c} /\ owed[e] \subseteq Config
        BY <1>1, <1>3 DEF TypeOK
    <2>2. QED
        BY <1>3, <1>8, <2>1 DEF Inv, Owing
<1>10. Selection'
    <2>1. \A p \in Purger : purger[p].selected \in SUBSET Config
        BY <1>1 DEF TypeOK
    <2>2. \A p \in Purger : \A b \in purger[p].selected :
             b \in Config \ {c} /\ configs[b] \in {"deleted", "purged"} /\ ~Referenced(b)
        BY <1>2, <2>1 DEF Inv, Selection
    <2>3. QED
        BY <1>3, <1>5, <1>8, <2>2 DEF Selection
<1>11. QED
    BY <1>5, <1>6, <1>7, <1>9, <1>10 DEF Inv

\* One row that no replay holds gets another status.
LEMMA RowInv ==
    ASSUME Inv, NEW d \in Delivery, NEW st \in RowStatus \ {"none"},
           Exists(d), d \notin held, Write({d}, st),
           UNCHANGED <<configs, messages, held, purger, created, owed>>
    PROVE  Inv'
<1>1. TypeOK
    BY DEF Inv
<1>2. {d} \in SUBSET Delivery /\ \A e \in {d} : Exists(e)
    OBVIOUS
<1>3. /\ rows' \in [Delivery -> [status : RowStatus, age : Age]]
      /\ \A e \in Delivery : Lived(e)'
      /\ \A b \in Config : Referenced(b)' <=> Referenced(b)
      /\ \A e \in Delivery \ {d} : rows'[e] = rows[e]
    BY <1>2, Rewritten
<1>4. TypeOK'
    BY <1>1, <1>3 DEF TypeOK, RowStatus
<1>5. HeldReplayable'
    <2>1. held \subseteq Delivery
        BY <1>1 DEF TypeOK
    <2>2. QED
        BY <1>3, <2>1 DEF Inv, HeldReplayable
<1>6. Owing'
    BY DEF Inv, Owing
<1>7. Selection'
    <2>1. \A p \in Purger : purger[p].selected \in SUBSET Config
        BY <1>1 DEF TypeOK
    <2>2. QED
        BY <1>3, <2>1 DEF Inv, Selection
<1>8. QED
    BY <1>3, <1>4, <1>5, <1>6, <1>7 DEF Inv

\* The steps of a worker are such changes.
LEMMA WorkerInv ==
    ASSUME Inv, NEW d \in Delivery,
           ClaimDelivery(d) \/ CompleteDelivery(d) \/ CancelDelivery(d)
    PROVE  Inv'
<1>1. PICK st : /\ st \in RowStatus \ {"none"}
                /\ Write({d}, st)
    BY DEF ClaimDelivery, CompleteDelivery, CancelDelivery, Outcome, RowStatus
<1>2. Exists(d) /\ d \notin held
    BY DEF ClaimDelivery, CompleteDelivery, CancelDelivery, Exists, Inv, HeldReplayable
<1>3. UNCHANGED <<configs, messages, held, purger, created, owed>>
    BY DEF ClaimDelivery, CompleteDelivery, CancelDelivery
<1>4. QED
    BY <1>1, <1>2, <1>3, RowInv

LEMMA BeginReplayInv == ASSUME Inv, NEW d \in Delivery, BeginReplay(d) PROVE Inv'
<1>1. /\ rows[d].status \in {"failed", "pending"}
      /\ held' = held \cup {d}
      /\ UNCHANGED <<rows, configs, messages, purger, created, owed>>
    BY DEF BeginReplay
<1>2. TypeOK'
    BY <1>1 DEF Inv, TypeOK
<1>3. HeldReplayable'
    BY <1>1 DEF Inv, HeldReplayable
<1>4. (\A e \in Delivery : Lived(e)') /\ Owing' /\ Selection'
    BY <1>1 DEF Inv, Lived, Owing, Selection, Referenced, Exists
<1>5. QED
    BY <1>2, <1>3, <1>4 DEF Inv

\* A replay makes a row young again, and no row appears.
LEMMA CommitReplayInv == ASSUME Inv, NEW d \in Delivery, CommitReplay(d) PROVE Inv'
<1>1. TypeOK
    BY DEF Inv
<1>2. /\ d \in held /\ held' = held \ {d}
      /\ Write({d}, "pending")
      /\ UNCHANGED <<configs, messages, purger, created, owed>>
    BY DEF CommitReplay
<1>3. {d} \in SUBSET Delivery /\ \A e \in {d} : Exists(e)
    BY <1>2 DEF Inv, HeldReplayable, Exists
<1>4. /\ rows' \in [Delivery -> [status : RowStatus, age : Age]]
      /\ \A e \in Delivery : Lived(e)'
      /\ \A b \in Config : Referenced(b)' <=> Referenced(b)
      /\ \A e \in Delivery \ {d} : rows'[e] = rows[e]
    <2>1. "pending" \in RowStatus \ {"none"}
        BY DEF RowStatus
    <2>2. QED
        BY <1>2, <1>3, <2>1, Rewritten
<1>5. TypeOK'
    BY <1>1, <1>2, <1>4 DEF TypeOK, RowStatus
<1>6. HeldReplayable'
    <2>1. held \subseteq Delivery
        BY <1>1 DEF TypeOK
    <2>2. QED
        BY <1>2, <1>4, <2>1 DEF Inv, HeldReplayable
<1>7. Owing'
    BY <1>2 DEF Inv, Owing
<1>8. Selection'
    <2>1. \A p \in Purger : purger[p].selected \in SUBSET Config
        BY <1>1 DEF TypeOK
    <2>2. QED
        BY <1>2, <1>4, <2>1 DEF Inv, Selection
<1>9. QED
    BY <1>4, <1>5, <1>6, <1>7, <1>8 DEF Inv

LEMMA AbortReplayInv == ASSUME Inv, NEW d \in Delivery, AbortReplay(d) PROVE Inv'
<1>1. held' = held \ {d} /\ UNCHANGED <<rows, configs, messages, purger, created, owed>>
    BY DEF AbortReplay
<1>2. TypeOK' /\ HeldReplayable'
    BY <1>1 DEF Inv, TypeOK, HeldReplayable
<1>3. (\A e \in Delivery : Lived(e)') /\ Owing' /\ Selection'
    BY <1>1 DEF Inv, Lived, Owing, Selection, Referenced, Exists
<1>4. QED
    BY <1>2, <1>3 DEF Inv

\* A run that starts, or ends with an error, has selected nothing.
LEMMA StartOrFailInv == ASSUME Inv, NEW p \in Purger, Start(p) \/ Fail(p) PROVE Inv'
<1>1. TypeOK
    BY DEF Inv
<1>2. PICK next \in Statement : Continue(p, next, {})
    BY DEF Start, Fail, Statement
<1>3. UNCHANGED <<rows, configs, messages, held, created, owed>>
    BY DEF Start, Fail
<1>4. /\ purger' \in [Purger -> [next : Statement, selected : SUBSET Config]]
      /\ purger'[p].selected = {}
      /\ \A q \in Purger \ {p} : purger'[q] = purger[q]
    BY <1>1, <1>2, ContinueRun
<1>5. TypeOK'
    BY <1>1, <1>3, <1>4 DEF TypeOK
<1>6. (\A d \in Delivery : Lived(d)') /\ HeldReplayable' /\ Owing'
    BY <1>3 DEF Inv, Lived, Owing, HeldReplayable, Exists
<1>7. Selection'
    BY <1>3, <1>4 DEF Inv, Selection, Referenced, Exists
<1>8. QED
    BY <1>5, <1>6, <1>7 DEF Inv

\* A row that is purged has been finished for longer than the broker remembers
\* its message.
LEMMA PurgeInv ==
    ASSUME Inv, NEW p \in Purger, PurgeSucceeded(p) \/ PurgeFailed(p)
    PROVE  Inv'
<1>1. TypeOK
    BY DEF Inv
<1>2. PICK target \in {"succeeded", "failed"}, next \in Statement :
         PurgeDeliveries(p, target, next)
    BY DEF PurgeSucceeded, PurgeFailed, Statement
<1>3. PICK batch \in SUBSET Purgeable(target) : Write(batch, "none")
    BY <1>2 DEF PurgeDeliveries
<1>4. Continue(p, next, {}) /\ UNCHANGED <<configs, messages, held, created, owed>>
    BY <1>2 DEF PurgeDeliveries
<1>5. batch \in SUBSET Delivery /\ batch \cap held = {}
    BY <1>3 DEF Purgeable
<1>6. ASSUME NEW d \in batch PROVE messages[d[1]].age > RedeliveryWindow
    <2>1. /\ Exists(d) /\ Delay(target) > 0 /\ rows[d].age > Delay(target)
        BY <1>3 DEF Purgeable, Old, Target, Exists
    <2>2. Delay(target) \in Int /\ RedeliveryWindow =< Delay(target)
        BY <2>1, RetentionAssumption DEF Delay
    <2>3. rows[d].age =< messages[d[1]].age
        BY <1>5, <2>1 DEF Inv, Lived
    <2>4. rows[d].age \in Nat /\ messages[d[1]].age \in Nat
        BY <1>1, <1>5, Fields, DeliveryPair
    <2>5. QED
        BY <2>1, <2>2, <2>3, <2>4, RetentionAssumption
<1>7. /\ rows' \in [Delivery -> [status : RowStatus, age : Age]]
      /\ \A d \in batch : rows'[d].status = "none" /\ rows'[d].age = 0
      /\ \A d \in Delivery \ batch : rows'[d] = rows[d]
    BY <1>1, <1>3, <1>5, WriteRows DEF RowStatus
<1>8. /\ purger' \in [Purger -> [next : Statement, selected : SUBSET Config]]
      /\ purger'[p].selected = {}
      /\ \A q \in Purger \ {p} : purger'[q] = purger[q]
    BY <1>1, <1>4, ContinueRun
<1>9. TypeOK'
    BY <1>1, <1>4, <1>7, <1>8 DEF TypeOK, RowStatus
<1>10. ASSUME NEW d \in Delivery PROVE Lived(d)'
    <2>1. Lived(d)
        BY DEF Inv
    <2>2. CASE d \in batch
        BY <1>4, <1>6, <1>7, <2>1, <2>2 DEF Lived, Exists
    <2>3. CASE d \notin batch
        BY <1>4, <1>7, <2>1, <2>3 DEF Lived, Exists
    <2>4. QED
        BY <2>2, <2>3
<1>11. HeldReplayable'
    <2>1. held \subseteq Delivery
        BY <1>1 DEF TypeOK
    <2>2. QED
        BY <1>4, <1>5, <1>7, <2>1 DEF Inv, HeldReplayable
<1>12. Owing'
    BY <1>4 DEF Inv, Owing
<1>13. Selection'
    <2>1. \A d \in Delivery : Exists(d)' => Exists(d)
        BY <1>7 DEF Exists
    <2>2. \A c : Referenced(c)' => Referenced(c)
        BY <2>1 DEF Referenced, RowsOf
    <2>3. QED
        BY <1>4, <1>8, <2>2 DEF Inv, Selection
<1>14. QED
    BY <1>9, <1>10, <1>11, <1>12, <1>13 DEF Inv

LEMMA SelectConfigsInv == ASSUME Inv, NEW p \in Purger, SelectConfigs(p) PROVE Inv'
<1>1. TypeOK
    BY DEF Inv
<1>2. PICK batch \in SUBSET Config :
         /\ Continue(p, "deleting", batch)
         /\ \A c \in batch : configs[c] = "deleted" /\ ~Referenced(c)
    BY DEF SelectConfigs
<1>3. UNCHANGED <<rows, configs, messages, held, created, owed>>
    BY DEF SelectConfigs
<1>4. /\ purger' \in [Purger -> [next : Statement, selected : SUBSET Config]]
      /\ purger'[p].selected = batch
      /\ \A q \in Purger \ {p} : purger'[q] = purger[q]
    BY <1>1, <1>2, ContinueRun DEF Statement
<1>5. TypeOK'
    BY <1>1, <1>3, <1>4 DEF TypeOK
<1>6. (\A d \in Delivery : Lived(d)') /\ HeldReplayable' /\ Owing'
    BY <1>3 DEF Inv, Lived, Owing, HeldReplayable, Exists
<1>7. Selection'
    BY <1>2, <1>3, <1>4 DEF Inv, Selection, Referenced, Exists
<1>8. QED
    BY <1>5, <1>6, <1>7 DEF Inv

\* A config that is purged had been deleted.
LEMMA DeleteConfigsInv == ASSUME Inv, NEW p \in Purger, DeleteConfigs(p) PROVE Inv'
<1> DEFINE selected == purger[p].selected
<1>1. TypeOK
    BY DEF Inv
<1>2. /\ configs' = IF \E c \in selected : Referenced(c) THEN configs
                    ELSE [c \in Config |-> IF c \in selected THEN "purged" ELSE configs[c]]
      /\ Continue(p, "idle", {})
      /\ UNCHANGED <<rows, messages, held, created, owed>>
    BY DEF DeleteConfigs
<1>3. \A c \in selected : c \in Config /\ configs[c] \in {"deleted", "purged"}
    BY <1>1 DEF Inv, Selection, TypeOK
<1>4. /\ configs' \in [Config -> {"absent", "active", "inactive", "deleted", "purged"}]
      /\ \A c \in Config : configs'[c] = configs[c] \/ (c \in selected /\ configs'[c] = "purged")
    BY <1>1, <1>2 DEF TypeOK
<1>5. /\ purger' \in [Purger -> [next : Statement, selected : SUBSET Config]]
      /\ purger'[p].selected = {}
      /\ \A q \in Purger \ {p} : purger'[q] = purger[q]
    BY <1>1, <1>2, ContinueRun DEF Statement
<1>6. TypeOK'
    BY <1>1, <1>2, <1>4, <1>5 DEF TypeOK
<1>7. (\A d \in Delivery : Lived(d)') /\ HeldReplayable'
    BY <1>2 DEF Inv, Lived, HeldReplayable, Exists
<1>8. Owing'
    <2>1. \A e \in Event : owed[e] \in SUBSET Config
        BY <1>1 DEF TypeOK
    <2>2. \A e \in Event : \A c \in owed[e] : configs[c] = "active" /\ configs'[c] = "active"
        BY <1>3, <1>4, <2>1 DEF Inv, Owing
    <2>3. QED
        BY <1>2, <2>2 DEF Inv, Owing
<1>9. Selection'
    <2>1. \A q \in Purger : purger[q].selected \in SUBSET Config
        BY <1>1 DEF TypeOK
    <2>2. \A q \in Purger : \A c \in purger'[q].selected :
             c \in Config /\ configs[c] \in {"deleted", "purged"} /\ ~Referenced(c)
        BY <1>5, <2>1 DEF Inv, Selection
    <2>3. QED
        BY <1>2, <1>4, <2>2 DEF Selection, Referenced, Exists
<1>10. QED
    BY <1>6, <1>7, <1>8, <1>9 DEF Inv

\* A row and its message grow old together.
LEMMA TickInv == ASSUME Inv, Tick PROVE Inv'
<1>1. TypeOK
    BY DEF Inv
<1>2. /\ rows' = [d \in Delivery |->
            IF Exists(d) THEN [rows[d] EXCEPT !.age = Older(@)] ELSE rows[d]]
      /\ messages' = [e \in Event |->
            IF messages[e].state = "none" THEN messages[e]
            ELSE [messages[e] EXCEPT !.age = Older(@)]]
      /\ UNCHANGED <<configs, held, purger, created, owed>>
    BY DEF Tick
<1>3. /\ rows' \in [Delivery -> [status : RowStatus, age : Age]]
      /\ \A d \in Delivery :
            /\ rows'[d].status = rows[d].status
            /\ Exists(d) => rows'[d].age = Older(rows[d].age)
    <2>1. \A d \in Delivery : rows[d] \in [status : RowStatus, age : Age]
        BY <1>1 DEF TypeOK, RowStatus
    <2>2. ASSUME NEW d \in Delivery
          PROVE  /\ rows'[d] \in [status : RowStatus, age : Age]
                 /\ rows'[d].status = rows[d].status
                 /\ Exists(d) => rows'[d].age = Older(rows[d].age)
        <3>1. Older(rows[d].age) \in Age
            BY <2>1, OlderAges
        <3>2. QED
            BY <1>2, <2>1, <3>1
    <2>3. QED
        BY <1>2, <2>2
<1>4. /\ messages' \in [Event -> [state : {"none", "queued", "stored", "acked"}, age : Age]]
      /\ \A e \in Event :
            /\ messages'[e].state = messages[e].state
            /\ messages[e].state # "none" => messages'[e].age = Older(messages[e].age)
    <2> DEFINE Message == [state : {"none", "queued", "stored", "acked"}, age : Age]
    <2>1. \A e \in Event : messages[e] \in Message
        BY <1>1 DEF TypeOK
    <2>2. ASSUME NEW e \in Event
          PROVE  /\ messages'[e] \in Message
                 /\ messages'[e].state = messages[e].state
                 /\ messages[e].state # "none" => messages'[e].age = Older(messages[e].age)
        <3>1. Older(messages[e].age) \in Age
            BY <2>1, OlderAges
        <3>2. QED
            BY <1>2, <2>1, <3>1
    <2>3. QED
        BY <1>2, <2>2
<1>5. TypeOK'
    BY <1>1, <1>2, <1>3, <1>4 DEF TypeOK, RowStatus
<1>6. \A d \in Delivery : Exists(d)' <=> Exists(d)
    BY <1>3 DEF Exists
<1>7. ASSUME NEW d \in Delivery PROVE Lived(d)'
    <2> DEFINE e == d[1]
    <2>1. Lived(d) /\ e \in Event
        BY DeliveryPair DEF Inv
    <2>2. rows[d].age \in Age /\ messages[e].age \in Age
        BY <1>1, <2>1, Fields
    <2>3. created[d] > 0 => messages'[e].state # "none" /\ messages'[e].age = Older(messages[e].age)
        BY <1>4, <2>1 DEF Lived
    <2>4. Exists(d)' => created[d] = 1 /\ rows'[d].age =< messages'[e].age
        <3>1. Exists(d) => created[d] = 1 /\ rows[d].age =< messages[e].age
            BY <2>1 DEF Lived
        <3>2. Exists(d) => Older(rows[d].age) =< Older(messages[e].age)
            BY <2>2, <3>1, OlderAges
        <3>3. QED
            BY <1>3, <1>6, <2>3, <3>1, <3>2
    <2>5. created[d] > 0 /\ ~Exists(d)' => messages'[e].age > RedeliveryWindow
        <3>1. created[d] > 0 /\ ~Exists(d) => messages[e].age > RedeliveryWindow
            BY <2>1 DEF Lived
        <3>2. messages[e].age =< Older(messages[e].age)
            BY <2>2, OlderAges
        <3>3. messages[e].age \in Nat /\ Older(messages[e].age) \in Nat
            BY <1>1, <2>2, OlderAges, Fields
        <3>4. QED
            BY <1>6, <2>3, <3>1, <3>2, <3>3, RetentionAssumption
    <2>6. created' = created /\ created[d] =< 1
        BY <1>2, <2>1 DEF Lived
    <2>7. QED
        BY <2>3, <2>4, <2>5, <2>6 DEF Lived
<1>8. HeldReplayable'
    <2>1. held \subseteq Delivery
        BY <1>1 DEF TypeOK
    <2>2. QED
        BY <1>2, <1>3, <2>1 DEF Inv, HeldReplayable
<1>9. Owing'
    BY <1>2, <1>4 DEF Inv, Owing
<1>10. Selection'
    BY <1>2, <1>6 DEF Inv, Selection, Referenced, RowsOf
<1>11. QED
    BY <1>5, <1>7, <1>8, <1>9, <1>10 DEF Inv
-----------------------------------------------------------------------------
(***************************************************************************)
(* The theorems.                                                           *)
(***************************************************************************)
LEMMA NextInv == Inv /\ [Next]_vars => Inv'
<1> SUFFICES ASSUME Inv, [Next]_vars PROVE Inv'
    OBVIOUS
<1>1. CASE UNCHANGED vars
    BY <1>1 DEF vars, Inv, TypeOK, Lived, HeldReplayable, Owing, Selection,
                Referenced, Exists
<1>2. CASE \E e \in Event : Publish(e) \/ EnqueueEvent(e) \/ Ack(e)
    BY <1>2, PublishInv, EnqueueEventInv, AckInv
<1>3. CASE \E c \in Config :
              InsertOneConfig(c) \/ Deactivate(c) \/ DeleteOneConfig(c) \/ Activate(c)
    BY <1>3, SwitchOnInv, SwitchOffInv
<1>4. CASE \E d \in Delivery :
              \/ ClaimDelivery(d) \/ CompleteDelivery(d) \/ CancelDelivery(d)
              \/ BeginReplay(d) \/ CommitReplay(d) \/ AbortReplay(d)
    BY <1>4, WorkerInv, BeginReplayInv, CommitReplayInv, AbortReplayInv
<1>5. CASE \E p \in Purger :
              \/ Start(p) \/ PurgeSucceeded(p) \/ PurgeFailed(p)
              \/ SelectConfigs(p) \/ DeleteConfigs(p) \/ Fail(p)
    BY <1>5, StartOrFailInv, PurgeInv, SelectConfigsInv, DeleteConfigsInv
<1>6. CASE Tick
    BY <1>6, TickInv
<1>7. QED
    BY <1>1, <1>2, <1>3, <1>4, <1>5, <1>6 DEF Next

\* The invariant of every behaviour.
LEMMA InvHolds == Spec => []Inv
BY InitInv, NextInv, PTL DEF Spec

\* Type correctness of the tables, the broker and the retention runs.
THEOREM RetentionTypeCorrect == Spec => []TypeOK
<1>1. Inv => TypeOK
    BY DEF Inv
<1>2. QED
    BY <1>1, InvHolds, PTL

\* An event that was acknowledged has got its delivery for every config that has
\* been active since it was published, for any number of events, configs,
\* repetitions of its message and concurrent retention runs.
THEOREM EventsNotLost == Spec => []NothingLost
<1>1. Inv => NothingLost
    BY DEF Inv, Owing, NothingLost
<1>2. QED
    BY <1>1, InvHolds, PTL

\* EnqueueEvent never inserts a delivery twice, whatever retention has deleted:
\* a row is purged only when its message is past the window of the broker.
THEOREM DeliveriesCreatedOnce == Spec => []CreatedOnce
<1>1. Inv => CreatedOnce
    BY DEF Inv, Lived, CreatedOnce
<1>2. QED
    BY <1>1, InvHolds, PTL

\* The configs a retention run has selected for deletion stay unreferenced until
\* it deletes them, whatever is ingested, replayed or purged in between.
THEOREM SelectionUnreferenced == Spec => []SelectedUnreferenced
<1>1. Inv => SelectedUnreferenced
    BY DEF Inv, Selection, SelectedUnreferenced
<1>2. QED
    BY <1>1, InvHolds, PTL
=============================================================================
