----------------------------- MODULE ReplayProofs -----------------------------
(***************************************************************************)
(* Proofs about Replay, for any number of clients, servers, keys and       *)
(* deliveries, any page size and any lifetime of a key.                    *)
(***************************************************************************)
EXTENDS Replay, FiniteSetTheorems, TLAPS

\* The deliveries are numbered without gaps.
Prefix == \E n \in 0..MaxRows : Existing = 1..n

\* A failed delivery can be replayed once more.
FailedReplayable ==
    \A r \in Row : rows[r].status = "failed" => rows[r].generation < MaxGeneration

\* The lock of a key has one holder, which has found no record, and the record
\* is as old as the last change under its key.
KeyLocks ==
    /\ \A h, i \in Handler :
          h # i /\ Holding(h) /\ Holding(i) => tx[h].key # tx[i].key
    /\ \A h \in Handler : Holding(h) => Fresh(h)
    /\ \A k \in Key :
          /\ applied[k].times =< 1
          /\ applied[k].times = 1 => records[k].age = applied[k].age

\* The next definitions are about a value st of steady.  An upper bound that was
\* given or found leaves out no steady row.
Bounds(st, to) == to # 0 => \A c \in Client : \A r \in st[c] : r =< to

\* An answer has the steady rows from the cursor of its request to the cursor
\* it leads to, or to the end, and no row that an earlier page had.
Answers(st, q, next, set) ==
    \/ /\ q.route = "delivery" /\ q.to = 0
       /\ next = NoRequest \/ (next = q /\ set = {})
    \/ /\ q.route = "deliveries"
       /\ \A r \in set : q.at < r
       /\ \A c \in Client : \A r \in st[c] :
             q.at < r /\ (next # NoRequest => r =< next.at) => r \in set
       /\ next # NoRequest =>
             /\ next.route = "deliveries" /\ Bounds(st, next.to) /\ q.at =< next.at
             /\ \A r \in set : r =< next.at

\* A client that asks for q and has been told the rows of set: the steady rows up
\* to its cursor, and nothing beyond it.
Walked(st, c, q, set) ==
    /\ c \in Walker =>
          /\ q # NoRequest => q.route = "deliveries"
          /\ q = NoRequest => st[c] \subseteq set
    /\ q # NoRequest =>
          \/ q.route = "delivery" /\ q.to = 0 /\ set = {}
          \/ /\ q.route = "deliveries" /\ Bounds(st, q.to)
             /\ \A r \in set : r =< q.at
             /\ \A r \in st[c] : r =< q.at => r \in set

\* A transaction has found every steady row after its cursor; when it has locked
\* its rows, what is missing comes after a full page.
Found(st, t) ==
    t.pc # "idle" =>
        /\ Bounds(st, t.request.to) /\ Bounds(st, t.to)
        /\ t.request.route = "delivery" => t.request.to = 0
        /\ t.request.route = "deliveries" /\ t.pc \in {"scanning", "selected"} =>
              /\ \A r \in t.rows : t.request.at < r
              /\ \A c \in Client : \A r \in st[c] : t.request.at < r =>
                    \/ r \in t.rows
                    \/ /\ t.pc = "selected" /\ Cardinality(t.rows) > PageSize
                       /\ \A s \in t.rows : s < r

SteadyReplayable == \A c \in Client : \A r \in steady[c] : Replayable(r)

\* The walks: what is stored, what is being found, and what the clients know.
Stored ==
    \A k \in Key : records[k].request # NoRequest =>
        Answers(steady, records[k].request, records[k].next, records[k].rows)
Finding == \A h \in Handler : Found(steady, tx[h])
Walking ==
    \A c \in Client :
        /\ Walked(steady, c, client[c].request, covered[c])
        /\ client[c].key # NoKey => client[c].request # NoRequest

Inv == /\ TypeOK /\ Prefix /\ FailedReplayable /\ SteadyReplayable
       /\ KeyLocks /\ Stored /\ Finding /\ Walking
-----------------------------------------------------------------------------
(***************************************************************************)
(* Sets of rows: least and greatest elements, the first n.                 *)
(***************************************************************************)
\* A set of natural numbers has a least element.
LEMMA LeastNat ==
    ASSUME NEW T \in SUBSET Nat, T # {}
    PROVE  \E x \in T : \A y \in T : x =< y
<1> DEFINE R == OpToRel(<, Nat)
<1>1. IsWellFoundedOn(R, Nat)
    BY NatLessThanWellFounded
<1>2. \A x, y \in Nat : y < x => <<y, x>> \in R
    BY DEF OpToRel
<1> HIDE DEF R
<1>3. PICK x \in T : \A y \in T : ~(<<y, x>> \in R)
    BY <1>1, WFMin
<1>4. \A y \in T : ~(y < x)
    BY <1>2, <1>3
<1>5. \A y \in T : x =< y
    BY <1>4
<1>6. QED
    BY <1>5

\* Sets of rows are finite, and smaller ones have fewer elements.
LEMMA RowSets ==
    ASSUME NEW S \in SUBSET Row
    PROVE  /\ IsFiniteSet(S) /\ Cardinality(S) \in Nat
           /\ \A T \in SUBSET S : /\ Cardinality(T) \in Nat
                                  /\ Cardinality(T) =< Cardinality(S)
                                  /\ T # S => Cardinality(T) < Cardinality(S)
<1>1. IsFiniteSet(Row)
    BY FS_Interval, ReplayAssumption DEF Row
<1>2. IsFiniteSet(S)
    BY <1>1, FS_Subset
<1>3. Cardinality(S) \in Nat
    BY <1>2, FS_CardinalityType
<1>4. ASSUME NEW T \in SUBSET S
      PROVE  /\ Cardinality(T) \in Nat /\ Cardinality(T) =< Cardinality(S)
             /\ T # S => Cardinality(T) < Cardinality(S)
    <2>1. IsFiniteSet(T) /\ Cardinality(T) =< Cardinality(S)
          /\ (Cardinality(S) = Cardinality(T) => S = T)
        BY <1>2, FS_Subset
    <2>2. Cardinality(T) \in Nat
        BY <2>1, FS_CardinalityType
    <2>3. QED
        BY <1>3, <2>1, <2>2
<1>5. QED
    BY <1>2, <1>3, <1>4

\* Last is the greatest row of a set.
LEMMA LastRow ==
    ASSUME NEW S \in SUBSET Row, S # {}
    PROVE  Last(S) \in S /\ \A q \in S : q =< Last(S)
<1> DEFINE U == {n \in Nat : \A q \in S : q =< n}
<1>1. MaxRows \in U /\ U \in SUBSET Nat
    BY ReplayAssumption DEF Row
<1>2. PICK x \in U : \A y \in U : x =< y
    BY <1>1, LeastNat
<1>3. x \in Nat /\ \A q \in S : q =< x /\ q \in Nat
    BY <1>2 DEF Row
<1>4. x \in S
    <2> SUFFICES ASSUME x \notin S PROVE FALSE
        OBVIOUS
    <2>1. \A q \in S : q =< x - 1 /\ q >= 1
        BY <1>3 DEF Row
    <2>2. x - 1 \in Nat
        BY <1>3, <2>1
    <2>3. x - 1 \in U
        BY <2>1, <2>2
    <2>4. QED
        BY <1>2, <1>3, <2>3
<1>5. \E r \in S : \A q \in S : q =< r
    BY <1>3, <1>4
<1>6. QED
    BY <1>5 DEF Last

\* First is a prefix of the set, the whole of a small one, and a full page when
\* something is left out.
LEMMA FirstRows ==
    ASSUME NEW S \in SUBSET Row, NEW n \in Nat \ {0}
    PROVE  /\ First(n, S) \in SUBSET S
           /\ S # {} => First(n, S) # {}
           /\ Cardinality(S) =< n => First(n, S) = S
           /\ \A r \in S, q \in First(n, S) : r =< q => r \in First(n, S)
           /\ \A r \in S \ First(n, S) :
                 /\ Cardinality(First(n, S)) >= n
                 /\ \A q \in First(n, S) : q < r
<1> DEFINE Below(r) == {q \in S : q < r}
           F == First(n, S)
<1>1. F = {r \in S : Cardinality(Below(r)) < n}
    BY DEF First
<1>2. \A r \in S : Below(r) \in SUBSET S /\ r \notin Below(r) /\ Below(r) # S /\ r \in Nat
    BY DEF Row
<1>3. \A r \in S : Cardinality(Below(r)) \in Nat /\ Cardinality(Below(r)) < Cardinality(S)
    BY <1>2, RowSets
<1>4. \A q, r \in S : q =< r => Below(q) \in SUBSET Below(r)
    BY <1>2
<1>5. \A r \in S : \A T \in SUBSET Below(r) : Cardinality(T) =< Cardinality(Below(r))
    <2> SUFFICES ASSUME NEW r \in S, NEW T \in SUBSET Below(r)
                 PROVE  Cardinality(T) =< Cardinality(Below(r))
        OBVIOUS
    <2>1. Below(r) \in SUBSET Row
        BY <1>2
    <2>2. QED
        BY <2>1, RowSets
<1> HIDE DEF Below, F
<1>6. F \in SUBSET S
    BY <1>1
<1>7. Cardinality(S) \in Nat
    BY RowSets
<1>8. Cardinality(S) =< n => F = S
    BY <1>1, <1>3, <1>7
<1>9. ASSUME NEW r \in S, NEW q \in F, r =< q PROVE r \in F
    <2>1. q \in S /\ Cardinality(Below(q)) < n
        BY <1>1
    <2>2. Cardinality(Below(r)) =< Cardinality(Below(q))
        BY <1>4, <1>5, <1>9, <2>1
    <2>3. Cardinality(Below(r)) < n
        BY <1>3, <2>1, <2>2
    <2>4. QED
        BY <1>1, <2>3
<1>10. ASSUME S # {} PROVE F # {}
    <2>1. S \in SUBSET Nat
        BY DEF Row
    <2>2. PICK m \in S : \A y \in S : m =< y
        BY <1>10, <2>1, LeastNat
    <2>3. Below(m) = {}
        <3>1. \A y \in S : ~(y < m)
            BY <1>2, <2>2
        <3>2. QED
            BY <3>1 DEF Below
    <2>4. Cardinality(Below(m)) = 0
        BY <2>3, FS_EmptySet
    <2>5. QED
        BY <1>1, <2>4
<1>11. ASSUME NEW r \in S \ F
       PROVE  /\ Cardinality(F) >= n
              /\ \A q \in F : q < r
    <2>1. \A q \in F : q < r
        BY <1>2, <1>6, <1>9
    <2>2. (S \ F) \in SUBSET Nat /\ r \in S \ F
        BY <1>2
    <2>3. PICK m \in S \ F : \A y \in S \ F : m =< y
        BY <2>2, LeastNat
    <2>4. Below(m) \in SUBSET F
        <3>1. \A y \in S : y < m => y \in F
            BY <1>2, <2>3
        <3>2. QED
            BY <3>1 DEF Below
    <2>5. Cardinality(Below(m)) >= n
        BY <1>1, <1>3, <2>3
    <2>6. F \in SUBSET Row
        BY <1>6
    <2>7. /\ Cardinality(Below(m)) =< Cardinality(F)
          /\ Cardinality(F) \in Nat
        BY <2>4, <2>6, RowSets
    <2>8. QED
        BY <1>3, <2>1, <2>3, <2>5, <2>7
<1>12. QED
    BY <1>6, <1>8, <1>9, <1>10, <1>11 DEF F
-----------------------------------------------------------------------------
(***************************************************************************)
(* Steady rows only get fewer, and nothing said of them is lost by that.   *)
(***************************************************************************)
LEMMA Shrink ==
    ASSUME NEW st, NEW su, \A c \in Client : su[c] \subseteq st[c]
    PROVE  /\ \A to : Bounds(st, to) => Bounds(su, to)
           /\ \A q, next, set : Answers(st, q, next, set) => Answers(su, q, next, set)
           /\ \A c \in Client : \A q, set : Walked(st, c, q, set) => Walked(su, c, q, set)
           /\ \A t : Found(st, t) => Found(su, t)
<1>1. ASSUME NEW to, Bounds(st, to) PROVE Bounds(su, to)
    BY <1>1 DEF Bounds
<1>2. ASSUME NEW q, NEW next, NEW set, Answers(st, q, next, set)
      PROVE  Answers(su, q, next, set)
    BY <1>1, <1>2 DEF Answers
<1>3. ASSUME NEW c \in Client, NEW q, NEW set, Walked(st, c, q, set)
      PROVE  Walked(su, c, q, set)
    BY <1>1, <1>3 DEF Walked
<1>4. ASSUME NEW t, Found(st, t) PROVE Found(su, t)
    BY <1>1, <1>4 DEF Found
<1>5. QED
    BY <1>1, <1>2, <1>3, <1>4

\* A client that learns the answer to its request has walked on.
LEMMA WalkOn ==
    ASSUME NEW st \in [Client -> SUBSET Row], NEW c \in Client, NEW q \in Request,
           NEW set \in SUBSET Row, NEW next \in Request \cup {NoRequest},
           NEW told \in SUBSET Row,
           Walked(st, c, q, told), Answers(st, q, next, set)
    PROVE  Walked(st, c, next, told \cup set)
<1>1. q # NoRequest /\ q.at \in Nat
    BY NoneAssumption, ReplayAssumption DEF Request
<1>2. next # NoRequest => next \in Request /\ next.at \in Nat
    BY ReplayAssumption DEF Request
<1>3. \A r \in Row : r \in Nat
    BY DEF Row
<1>4. CASE q.route = "delivery"
    <2>1. c \notin Walker /\ told = {} /\ q.to = 0
        BY <1>1, <1>4 DEF Walked
    <2>2. next = NoRequest \/ (next = q /\ set = {})
        BY <1>4 DEF Answers
    <2>3. QED
        BY <1>4, <2>1, <2>2 DEF Walked
<1>5. CASE q.route = "deliveries"
    <2>1. /\ \A r \in told : r =< q.at
          /\ \A r \in st[c] : r =< q.at => r \in told
        BY <1>1, <1>5 DEF Walked
    <2>2. /\ \A r \in st[c] :
                q.at < r /\ (next # NoRequest => r =< next.at) => r \in set
          /\ next # NoRequest =>
                /\ next.route = "deliveries" /\ Bounds(st, next.to) /\ q.at =< next.at
                /\ \A r \in set : r =< next.at
        BY <1>5 DEF Answers
    <2>3. CASE next = NoRequest
        <3>1. st[c] \subseteq told \cup set
            BY <1>1, <1>3, <2>1, <2>2, <2>3
        <3>2. QED
            BY <2>3, <3>1 DEF Walked
    <2>4. CASE next # NoRequest
        <3>1. \A r \in told \cup set : r =< next.at
            BY <1>1, <1>2, <1>3, <2>1, <2>2, <2>4
        <3>2. \A r \in st[c] : r =< next.at => r \in told \cup set
            BY <1>1, <1>2, <1>3, <2>1, <2>2, <2>4
        <3>3. QED
            BY <2>2, <2>4, <3>1, <3>2 DEF Walked
    <2>5. QED
        BY <2>3, <2>4
<1>6. QED
    BY <1>4, <1>5 DEF Request
-----------------------------------------------------------------------------
(***************************************************************************)
(* The state: existing rows, transactions, and what an action leaves alone.*)
(***************************************************************************)
TxState == Tx \cup {[pc |-> "idle"]}

\* The fields of a transaction.
LEMMA TxFields ==
    ASSUME TypeOK, NEW h \in Handler, tx[h].pc # "idle"
    PROVE  /\ tx[h] \in Tx
           /\ tx[h].pc \in Pc /\ tx[h].client \in Client /\ tx[h].key \in Key
           /\ tx[h].request \in Request /\ tx[h].request # NoRequest
           /\ tx[h].rows \in SUBSET Row /\ tx[h].to \in 0..MaxRows
<1>1. tx[h] \in Tx
    BY DEF TypeOK
<1>2. QED
    BY <1>1, NoneAssumption DEF Tx

\* The deliveries that exist are 1, ..., Newest.
LEMMA NewestRow ==
    ASSUME Prefix
    PROVE  Newest \in 0..MaxRows /\ Existing = 1..Newest
<1>1. PICK n \in 0..MaxRows : Existing = 1..n
    BY DEF Prefix
<1>2. n \in Nat /\ 1 \in Int /\ n \in Int
    BY ReplayAssumption
<1>3. Cardinality(1..n) = IF 1 > n THEN 0 ELSE n - 1 + 1
    BY <1>2, FS_Interval
<1>4. Cardinality(1..n) = n
    BY <1>2, <1>3
<1>5. QED
    BY <1>1, <1>4 DEF Newest

\* One transaction changes.
LEMMA TxStep ==
    ASSUME TypeOK, NEW h \in Handler, NEW t \in TxState, tx' = [tx EXCEPT ![h] = t]
    PROVE  /\ tx' \in [Handler -> TxState]
           /\ tx'[h] = t /\ \A i \in Handler \ {h} : tx'[i] = tx[i]
BY DEF TypeOK, TxState

LEMMA EndStep ==
    ASSUME TypeOK, NEW h \in Handler, End(h)
    PROVE  /\ tx' \in [Handler -> TxState]
           /\ tx'[h].pc = "idle" /\ \A i \in Handler \ {h} : tx'[i] = tx[i]
<1>1. [pc |-> "idle"] \in TxState /\ [pc |-> "idle"].pc = "idle"
    BY DEF TxState
<1>2. QED
    BY <1>1, TxStep DEF End

LEMMA AdvanceStep ==
    ASSUME TypeOK, NEW h \in Handler, tx[h].pc # "idle", NEW pc \in Pc \ {"idle"},
           NEW set \in SUBSET Row, NEW to \in 0..MaxRows, Advance(h, pc, set, to)
    PROVE  /\ tx' \in [Handler -> TxState]
           /\ \A i \in Handler \ {h} : tx'[i] = tx[i]
           /\ tx'[h].pc = pc /\ tx'[h].rows = set /\ tx'[h].to = to
           /\ tx'[h].key = tx[h].key /\ tx'[h].request = tx[h].request
           /\ tx'[h].client = tx[h].client
<1> DEFINE t == [tx[h] EXCEPT !.pc = pc, !.rows = set, !.to = to]
<1>1. tx[h] \in Tx
    BY TxFields
<1>2. /\ t \in Tx
      /\ t.pc = pc /\ t.rows = set /\ t.to = to
      /\ t.key = tx[h].key /\ t.request = tx[h].request /\ t.client = tx[h].client
    BY <1>1 DEF Tx
<1>3. tx' = [tx EXCEPT ![h] = t]
    BY DEF Advance
<1> HIDE DEF t
<1>4. t \in TxState
    BY <1>2 DEF TxState
<1>5. /\ tx' \in [Handler -> TxState]
      /\ tx'[h] = t /\ \A i \in Handler \ {h} : tx'[i] = tx[i]
    BY <1>3, <1>4, TxStep
<1>6. QED
    BY <1>2, <1>5

\* The parts of the invariant about rows alone.
RowPart == Prefix /\ FailedReplayable /\ SteadyReplayable

LEMMA RowFrame ==
    ASSUME RowPart, UNCHANGED <<rows, steady>>
    PROVE  RowPart'
BY DEF RowPart, Prefix, FailedReplayable, SteadyReplayable, Existing, Replayable

LEMMA StoredFrame ==
    ASSUME Stored, UNCHANGED <<records, steady>>
    PROVE  Stored'
BY DEF Stored

LEMMA WalkingFrame ==
    ASSUME Walking, UNCHANGED <<client, covered, steady>>
    PROVE  Walking'
BY DEF Walking

\* A transaction that ends gives its key back.
LEMMA EndFrame ==
    ASSUME TypeOK, KeyLocks, Finding, NEW h \in Handler, End(h),
           UNCHANGED <<records, steady, applied>>
    PROVE  KeyLocks' /\ Finding'
<1>1. tx'[h].pc = "idle" /\ \A i \in Handler \ {h} : tx'[i] = tx[i]
    BY EndStep
<1>2. \A i \in Handler : Holding(i)' => i # h /\ Holding(i)
    BY <1>1 DEF Holding
<1>3. \A i \in Handler : i # h => tx'[i] = tx[i]
    BY <1>1
<1>4. \A i, j \in Handler :
         i # j /\ Holding(i)' /\ Holding(j)' => tx'[i].key # tx'[j].key
    BY <1>2, <1>3 DEF KeyLocks
<1>5. \A i \in Handler : Holding(i)' => Fresh(i)'
    BY <1>2, <1>3 DEF KeyLocks, Fresh, Expired
<1>6. KeyLocks'
    BY <1>4, <1>5 DEF KeyLocks
<1>7. Finding'
    <2>1. Found(steady, tx'[h])
        BY <1>1 DEF Found
    <2>2. QED
        BY <1>3, <2>1 DEF Finding
<1>8. QED
    BY <1>6, <1>7

\* A client learns an answer that is right, or nobody learns it.
LEMMA LearnsStep ==
    ASSUME TypeOK, Walking, NEW h \in Handler, tx[h].pc # "idle",
           NEW next \in Request \cup {NoRequest}, NEW set \in SUBSET Row,
           Answers(steady, tx[h].request, next, set), Learns(h, next, set),
           UNCHANGED steady
    PROVE  /\ client' \in [Client -> [request : Request \cup {NoRequest},
                                      key : Key \cup {NoKey}]]
           /\ covered' \in [Client -> SUBSET Row]
           /\ Walking'
<1> DEFINE c == tx[h].client
           q == tx[h].request
           w == [request |-> next, key |-> NoKey]
<1>1. c \in Client /\ q \in Request
    BY TxFields
<1>2. CASE UNCHANGED <<client, covered>>
    BY <1>2, WalkingFrame DEF TypeOK
<1>3. CASE /\ Waits(h)
           /\ client' = [client EXCEPT ![c] = w]
           /\ covered' = [covered EXCEPT ![c] = @ \cup set]
    <2>1. client[c].request = q
        BY <1>3 DEF Waits
    <2>2. /\ w \in [request : Request \cup {NoRequest}, key : Key \cup {NoKey}]
          /\ w.request = next /\ w.key = NoKey
        OBVIOUS
    <2> HIDE DEF w
    <2>3. /\ client' \in [Client -> [request : Request \cup {NoRequest},
                                     key : Key \cup {NoKey}]]
          /\ client'[c] = w /\ \A b \in Client \ {c} : client'[b] = client[b]
        BY <1>1, <1>3, <2>2 DEF TypeOK
    <2>4. /\ covered' \in [Client -> SUBSET Row]
          /\ covered'[c] = covered[c] \cup set
          /\ \A b \in Client \ {c} : covered'[b] = covered[b]
        BY <1>1, <1>3 DEF TypeOK
    <2>5. Walked(steady, c, q, covered[c])
        BY <1>1, <2>1 DEF Walking
    <2>6. Walked(steady, c, next, covered[c] \cup set)
        <3>1. steady \in [Client -> SUBSET Row] /\ covered[c] \in SUBSET Row
            BY <1>1 DEF TypeOK
        <3>2. QED
            BY <1>1, <2>5, <3>1, WalkOn
    <2>7. ASSUME NEW b \in Client
          PROVE  /\ Walked(steady, b, client'[b].request, covered'[b])
                 /\ client'[b].key # NoKey => client'[b].request # NoRequest
        <3>1. CASE b = c
            BY <2>2, <2>3, <2>4, <2>6, <3>1
        <3>2. CASE b # c
            BY <2>3, <2>4, <3>2 DEF Walking
        <3>3. QED
            BY <3>1, <3>2
    <2>8. Walking'
        BY <2>7 DEF Walking
    <2>9. QED
        BY <2>3, <2>4, <2>8
<1>4. QED
    BY <1>2, <1>3 DEF Learns
-----------------------------------------------------------------------------
(***************************************************************************)
(* The invariant holds initially: the rows that exist are numbered without *)
(* gaps, by least counterexample.                                          *)
(***************************************************************************)
LEMMA InitPrefix == Init => Prefix
<1> SUFFICES ASSUME Init PROVE Prefix
    OBVIOUS
<1> DEFINE E(r) == rows[r].status # "none"
           Free == {r \in 1..(MaxRows + 1) : r \in Row => ~E(r)}
<1>1. \A r \in Row : r \in Nat /\ r >= 1 /\ r =< MaxRows
    BY ReplayAssumption DEF Row
<1>2. \A r \in Row : r # 1 /\ E(r) => r - 1 \in Row /\ E(r - 1)
    BY ReplayAssumption DEF Init, Row
<1>3. Free \in SUBSET Nat /\ MaxRows + 1 \in Free
    BY ReplayAssumption DEF Row
<1> HIDE DEF E
<1>4. PICK m \in Free : \A y \in Free : m =< y
    BY <1>3, LeastNat
<1>5. m \in 1..(MaxRows + 1) /\ (m \in Row => ~E(m))
    BY <1>4
<1>6. \A r \in Row : r < m => E(r)
    <2> SUFFICES ASSUME NEW r \in Row, r < m, ~E(r) PROVE FALSE
        OBVIOUS
    <2>1. r \in Free
        BY <1>1, ReplayAssumption
    <2>2. QED
        BY <1>1, <1>4, <1>5, <2>1
<1>7. \A r \in Row : r >= m => ~E(r)
    <2> DEFINE Late == {r \in Row : r >= m /\ E(r)}
    <2> SUFFICES ASSUME Late # {} PROVE FALSE
        OBVIOUS
    <2>1. Late \in SUBSET Nat
        BY <1>1
    <2>2. PICK r \in Late : \A y \in Late : r =< y
        BY <2>1, LeastNat
    <2>3. r \in Row /\ r >= m /\ E(r) /\ r # m /\ r # 1
        BY <1>1, <1>5, <2>2
    <2>4. r - 1 \in Row /\ E(r - 1)
        BY <1>2, <2>3
    <2>5. r - 1 \in Late
        BY <1>1, <1>5, <2>3, <2>4
    <2>6. QED
        BY <1>1, <2>2, <2>3, <2>5
<1>8. Existing = 1..(m - 1)
    <2>1. Existing = {r \in Row : E(r)}
        BY DEF Existing, E
    <2>2. \A r \in Row : E(r) <=> r < m
        BY <1>1, <1>5, <1>6, <1>7
    <2>3. \A r : r \in 1..(m - 1) <=> r \in Row /\ r < m
        BY <1>5, ReplayAssumption DEF Row
    <2>4. QED
        BY <2>1, <2>2, <2>3
<1>9. m - 1 \in 0..MaxRows
    BY <1>5, ReplayAssumption
<1>10. QED
    BY <1>8, <1>9 DEF Prefix

\* The invariant holds initially and is kept by every action.
LEMMA InitInv == Init => Inv
<1> SUFFICES ASSUME Init PROVE Inv
    OBVIOUS
<1>1. TypeOK
    <2>1. rows \in [Row -> [status : Status, generation : 0..MaxGeneration]]
        BY ReplayAssumption DEF Init, Status
    <2>2. NoRecord \in Record
        BY ReplayAssumption DEF NoRecord, Record
    <2>3. Page(0, 0) \in Request /\ One(1) \in Request
        BY ReplayAssumption DEF Page, One, Request
    <2>4. QED
        BY <2>1, <2>2, <2>3, ReplayAssumption DEF Init, TypeOK
<1>2. FailedReplayable /\ SteadyReplayable
    BY ReplayAssumption DEF Init, FailedReplayable, SteadyReplayable
<1>3. KeyLocks
    BY DEF Init, KeyLocks, Holding
<1>4. Stored
    BY DEF Init, Stored, NoRecord
<1>5. Finding
    BY DEF Init, Finding, Found
<1>6. Walking
    <2> SUFFICES ASSUME NEW c \in Client
                 PROVE  /\ Walked(steady, c, client[c].request, covered[c])
                        /\ client[c].key # NoKey => client[c].request # NoRequest
        BY DEF Walking
    <2>1. covered[c] = {} /\ client[c].key = NoKey
        BY DEF Init
    <2>2. \A r \in steady[c] : r \in Nat /\ r > 0
        BY DEF Init, Row
    <2>3. CASE c \in Walker
        <3>1. client[c].request = Page(0, 0)
            BY <2>3 DEF Init
        <3>2. Page(0, 0) \in Request /\ Page(0, 0).route = "deliveries"
              /\ Page(0, 0).at = 0 /\ Page(0, 0).to = 0
            BY ReplayAssumption DEF Page, Request
        <3>3. QED
            BY <2>1, <2>2, <3>1, <3>2, NoneAssumption DEF Walked, Bounds
    <2>4. CASE c \notin Walker
        <3>1. client[c].request = One(1)
            BY <2>4 DEF Init
        <3>2. One(1) \in Request /\ One(1).route = "delivery" /\ One(1).to = 0
            BY ReplayAssumption DEF One, Request
        <3>3. QED
            BY <2>1, <2>4, <3>1, <3>2, NoneAssumption DEF Walked, Bounds
    <2>5. QED
        BY <2>3, <2>4
<1>7. QED
    BY <1>1, <1>2, <1>3, <1>4, <1>5, <1>6, InitPrefix DEF Inv
-----------------------------------------------------------------------------
(***************************************************************************)
(* Clients and requests.                                                   *)
(***************************************************************************)
LEMMA ChooseKeyInv ==
    ASSUME Inv, NEW c \in Client, NEW k \in Key, ChooseKey(c, k)
    PROVE  Inv'
<1>1. /\ client[c].request # NoRequest
      /\ client' = [client EXCEPT ![c].key = k]
      /\ UNCHANGED <<rows, records, tx, covered, steady, applied>>
    BY DEF ChooseKey
<1>2. TypeOK'
    BY <1>1 DEF Inv, TypeOK
<1>3. \A b \in Client : /\ client'[b].request = client[b].request
                        /\ b # c => client'[b].key = client[b].key
    BY <1>1 DEF Inv, TypeOK
<1>4. Walking'
    BY <1>1, <1>3 DEF Inv, Walking
<1>5. RowPart' /\ Stored' /\ Finding'
    BY <1>1, RowFrame, StoredFrame DEF Inv, RowPart, Finding
<1>6. KeyLocks'
    BY <1>1 DEF Inv, KeyLocks, Holding, Fresh
<1>7. QED
    BY <1>2, <1>4, <1>5, <1>6 DEF Inv, RowPart

LEMMA ReceiveInv ==
    ASSUME Inv, NEW h \in Handler, NEW c \in Client, Receive(h, c)
    PROVE  Inv'
<1> DEFINE q == client[c].request
           t == [pc |-> "received", client |-> c, key |-> client[c].key,
                 request |-> q, rows |-> {}, to |-> q.to]
<1>1. /\ tx[h].pc = "idle" /\ client[c].key # NoKey
      /\ tx' = [tx EXCEPT ![h] = t]
      /\ UNCHANGED <<rows, records, client, covered, steady, applied>>
    BY DEF Receive
<1>2. /\ TypeOK /\ q \in Request /\ q # NoRequest /\ client[c].key \in Key
      /\ Walked(steady, c, q, covered[c])
    BY <1>1 DEF Inv, TypeOK, Walking
<1>3. q.to \in 0..MaxRows /\ q.route \in {"deliveries", "delivery"}
    BY <1>2 DEF Request
<1>4. /\ t \in Tx
      /\ t.pc = "received" /\ t.request = q /\ t.to = q.to
    BY <1>2, <1>3 DEF Tx, Pc
<1>5. Bounds(steady, q.to) /\ (q.route = "delivery" => q.to = 0)
    BY <1>2, <1>3 DEF Walked, Bounds
<1> HIDE DEF q, t
<1>6. Found(steady, t)
    BY <1>4, <1>5 DEF Found
<1>7. /\ tx' \in [Handler -> TxState]
      /\ tx'[h] = t /\ \A i \in Handler \ {h} : tx'[i] = tx[i]
    <2>1. t \in TxState
        BY <1>4 DEF TxState
    <2>2. QED
        BY <1>1, <1>2, <2>1, TxStep
<1>8. TypeOK'
    BY <1>1, <1>2, <1>7 DEF TypeOK, TxState
<1>9. \A i \in Handler : Holding(i)' => i # h /\ Holding(i) /\ tx'[i] = tx[i]
    BY <1>4, <1>7 DEF Holding
<1>10. KeyLocks'
    BY <1>1, <1>9 DEF Inv, KeyLocks, Fresh, Expired
<1>11. Finding'
    BY <1>1, <1>6, <1>7 DEF Inv, Finding
<1>12. RowPart' /\ Stored' /\ Walking'
    BY <1>1, RowFrame, StoredFrame, WalkingFrame DEF Inv, RowPart
<1>13. QED
    BY <1>8, <1>10, <1>11, <1>12 DEF Inv, RowPart

\* A transaction proceeds when it alone has the lock and there is no record.
LEMMA ProceedInv == ASSUME Inv, NEW h \in Handler, Proceed(h) PROVE Inv'
<1>1. /\ tx[h].pc = "received" /\ KeyFree(h) /\ Fresh(h)
      /\ Advance(h, "keyed", {}, tx[h].to)
      /\ UNCHANGED <<rows, records, client, covered, steady, applied>>
    BY DEF Proceed
<1>2. TypeOK
    BY DEF Inv
<1>3. tx[h].to \in 0..MaxRows
    BY <1>1, <1>2, TxFields
<1>4. /\ tx' \in [Handler -> TxState]
      /\ \A i \in Handler \ {h} : tx'[i] = tx[i]
      /\ tx'[h].pc = "keyed" /\ tx'[h].to = tx[h].to
      /\ tx'[h].key = tx[h].key /\ tx'[h].request = tx[h].request
    <2>1. "keyed" \in Pc \ {"idle"}
        BY DEF Pc
    <2>2. QED
        BY <1>1, <1>2, <1>3, <2>1, AdvanceStep
<1>5. TypeOK'
    BY <1>1, <1>2, <1>4 DEF TypeOK, TxState
<1>6. KeyLocks'
    <2>1. \A i \in Handler : Holding(i)' /\ i # h => Holding(i) /\ tx'[i] = tx[i]
        BY <1>4 DEF Holding
    <2>2. \A i \in Handler : Holding(i)' => Fresh(i)'
        BY <1>1, <1>4, <2>1 DEF Inv, KeyLocks, Fresh, Expired
    <2>3. \A i \in Handler : Holding(i)' /\ i # h => tx'[i].key # tx'[h].key
        BY <1>1, <1>4, <2>1 DEF KeyFree
    <2>4. \A i, j \in Handler :
             i # j /\ Holding(i)' /\ Holding(j)' => tx'[i].key # tx'[j].key
        BY <2>1, <2>3 DEF Inv, KeyLocks
    <2>5. QED
        BY <1>1, <2>2, <2>4 DEF Inv, KeyLocks
<1>7. Finding'
    <2>1. Found(steady, tx[h])
        BY DEF Inv, Finding
    <2>2. Found(steady, tx'[h])
        BY <1>1, <1>4, <2>1 DEF Found
    <2>3. QED
        BY <1>1, <1>4, <2>2 DEF Inv, Finding
<1>8. RowPart' /\ Stored' /\ Walking'
    BY <1>1, RowFrame, StoredFrame, WalkingFrame DEF Inv, RowPart
<1>9. QED
    BY <1>5, <1>6, <1>7, <1>8 DEF Inv, RowPart

\* A transaction that ends with an answer and changes no row.
LEMMA AnswerInv ==
    ASSUME Inv, NEW h \in Handler, tx[h].pc # "idle",
           NEW next \in Request \cup {NoRequest}, NEW set \in SUBSET Row,
           Answers(steady, tx[h].request, next, set),
           Learns(h, next, set), End(h), UNCHANGED <<rows, records, steady, applied>>
    PROVE  Inv'
<1>1. TypeOK /\ Walking /\ KeyLocks /\ Finding
    BY DEF Inv
<1>2. /\ client' \in [Client -> [request : Request \cup {NoRequest},
                                 key : Key \cup {NoKey}]]
      /\ covered' \in [Client -> SUBSET Row]
      /\ Walking'
    BY <1>1, LearnsStep
<1>3. tx' \in [Handler -> TxState]
    BY <1>1, EndStep
<1>4. TypeOK'
    BY <1>1, <1>2, <1>3 DEF TypeOK, TxState
<1>5. KeyLocks' /\ Finding'
    BY <1>1, EndFrame
<1>6. RowPart' /\ Stored'
    BY RowFrame, StoredFrame DEF Inv, RowPart
<1>7. QED
    BY <1>2, <1>4, <1>5, <1>6 DEF Inv, RowPart

LEMMA CachedInv == ASSUME Inv, NEW h \in Handler, Cached(h) PROVE Inv'
<1> DEFINE record == records[tx[h].key]
<1>1. /\ tx[h].pc = "received" /\ record.request = tx[h].request
      /\ Learns(h, record.next, record.rows) /\ End(h)
      /\ UNCHANGED <<rows, records, steady, applied>>
    BY DEF Cached, SameRequest
<1>2. /\ tx[h].key \in Key /\ tx[h].request # NoRequest
    BY <1>1, TxFields DEF Inv
<1>3. record \in Record
    BY <1>2 DEF Inv, TypeOK
<1>4. record.next \in Request \cup {NoRequest} /\ record.rows \in SUBSET Row
    BY <1>3 DEF Record
<1>5. Answers(steady, tx[h].request, record.next, record.rows)
    BY <1>1, <1>2 DEF Inv, Stored
<1>6. tx[h].pc # "idle"
    BY <1>1
<1> HIDE DEF record
<1>7. QED
    BY <1>1, <1>4, <1>5, <1>6, AnswerInv

LEMMA ConflictInv == ASSUME Inv, NEW h \in Handler, Conflict(h) PROVE Inv'
<1> DEFINE q == tx[h].request
<1>1. /\ tx[h].pc = "received"
      /\ Learns(h, q, {}) /\ End(h)
      /\ UNCHANGED <<rows, records, steady, applied>>
    BY DEF Conflict
<1>2. tx[h].pc # "idle" /\ q \in Request
    BY <1>1, TxFields DEF Inv
<1>3. q.route \in {"deliveries", "delivery"} /\ q.at \in Nat
    BY <1>2, ReplayAssumption DEF Request
<1>4. Bounds(steady, q.to) /\ (q.route = "delivery" => q.to = 0)
    BY <1>1 DEF Inv, Finding, Found
<1>5. \A c \in Client : \A r \in steady[c] : r \in Nat
    BY DEF Inv, TypeOK, Row
<1>6. q # NoRequest
    BY <1>2, NoneAssumption
<1>7. Answers(steady, q, q, {})
    BY <1>3, <1>4, <1>5, <1>6 DEF Answers
<1>8. q \in Request \cup {NoRequest} /\ {} \in SUBSET Row
    BY <1>2
<1>9. QED
    BY <1>1, <1>2, <1>7, <1>8, AnswerInv

LEMMA RefuseInv == ASSUME Inv, NEW h \in Handler, Refuse(h) PROVE Inv'
<1>1. /\ tx[h].pc = "scanning" /\ tx[h].request.route = "delivery"
      /\ Learns(h, NoRequest, {}) /\ End(h)
      /\ UNCHANGED <<rows, records, steady, applied>>
    BY DEF Refuse
<1>2. tx[h].pc # "idle" /\ tx[h].request.to = 0
    BY <1>1 DEF Inv, Finding, Found
<1>3. Answers(steady, tx[h].request, NoRequest, {})
    BY <1>1, <1>2 DEF Answers
<1>4. NoRequest \in Request \cup {NoRequest} /\ {} \in SUBSET Row
    OBVIOUS
<1>5. QED
    BY <1>1, <1>2, <1>3, <1>4, AnswerInv

LEMMA AbortInv == ASSUME Inv, NEW h \in Handler, Abort(h) PROVE Inv'
<1>1. End(h) /\ UNCHANGED <<rows, records, client, covered, steady, applied>>
    BY DEF Abort
<1>2. TypeOK /\ KeyLocks /\ Finding
    BY DEF Inv
<1>3. tx' \in [Handler -> TxState]
    BY <1>1, <1>2, EndStep
<1>4. TypeOK'
    BY <1>1, <1>2, <1>3 DEF TypeOK, TxState
<1>5. KeyLocks' /\ Finding'
    BY <1>1, <1>2, EndFrame
<1>6. RowPart' /\ Stored' /\ Walking'
    BY <1>1, RowFrame, StoredFrame, WalkingFrame DEF Inv, RowPart
<1>7. QED
    BY <1>4, <1>5, <1>6 DEF Inv, RowPart
-----------------------------------------------------------------------------
(***************************************************************************)
(* The transaction that works under its key.                               *)
(***************************************************************************)

\* It goes on with a set of rows that leaves out no steady row before a full page.
LEMMA AdvanceInv ==
    ASSUME Inv, NEW h \in Handler, Holding(h), NEW pc \in {"scanning", "selected"},
           NEW set \in SUBSET Row, NEW to \in 0..MaxRows, Advance(h, pc, set, to),
           UNCHANGED <<rows, records, client, covered, steady, applied>>,
           Bounds(steady, to),
           tx[h].request.route = "deliveries" =>
              /\ \A r \in set : tx[h].request.at < r
              /\ \A c \in Client : \A r \in steady[c] : tx[h].request.at < r =>
                    \/ r \in set
                    \/ /\ pc = "selected" /\ Cardinality(set) > PageSize
                       /\ \A s \in set : s < r
    PROVE  Inv'
<1>1. TypeOK
    BY DEF Inv
<1>2. tx[h].pc # "idle"
    BY DEF Holding
<1>3. /\ tx' \in [Handler -> TxState]
      /\ \A i \in Handler \ {h} : tx'[i] = tx[i]
      /\ tx'[h].pc = pc /\ tx'[h].rows = set /\ tx'[h].to = to
      /\ tx'[h].key = tx[h].key /\ tx'[h].request = tx[h].request
    <2>1. pc \in Pc \ {"idle"}
        BY DEF Pc
    <2>2. QED
        BY ONLY TypeOK, h \in Handler, tx[h].pc # "idle", pc \in Pc \ {"idle"},
                set \in SUBSET Row, to \in 0..MaxRows, Advance(h, pc, set, to), AdvanceStep
<1>4. TypeOK'
    BY <1>1, <1>3 DEF TypeOK, TxState
<1>5. KeyLocks'
    <2>1. \A i \in Handler : Holding(i)' => Holding(i) /\ tx'[i].key = tx[i].key
        BY <1>3 DEF Holding
    <2>2. \A i \in Handler : Holding(i)' => Fresh(i)'
        BY <2>1 DEF Inv, KeyLocks, Fresh, Expired
    <2>3. QED
        BY <2>1, <2>2 DEF Inv, KeyLocks
<1>6. Finding'
    <2>1. Found(steady, tx[h])
        BY DEF Inv, Finding
    <2>2. Found(steady, tx'[h])
        BY <1>2, <1>3, <2>1 DEF Found
    <2>3. QED
        BY <1>3, <2>2 DEF Inv, Finding
<1>7. RowPart' /\ Stored' /\ Walking'
    BY RowFrame, StoredFrame, WalkingFrame DEF Inv, RowPart
<1>8. QED
    BY <1>4, <1>5, <1>6, <1>7 DEF Inv, RowPart

\* The snapshot has every steady row after the cursor.
LEMMA SnapshotInv == ASSUME Inv, NEW h \in Handler, Snapshot(h) PROVE Inv'
<1>1. tx[h].pc = "keyed" /\ UNCHANGED <<rows, records, client, covered, steady, applied>>
    BY DEF Snapshot
<1>2. Holding(h) /\ tx[h].pc # "idle"
    BY <1>1 DEF Holding
<1>3. tx[h].to \in 0..MaxRows /\ tx[h].request \in Request
    BY <1>2, TxFields DEF Inv
<1>4. Newest \in 0..MaxRows /\ Existing = 1..Newest
    BY NewestRow DEF Inv
<1>5. Upper(h) \in 0..MaxRows
    BY <1>3, <1>4 DEF Upper
<1>6. \A c \in Client : \A r \in steady[c] : r \in Existing /\ Replayable(r)
    BY DEF Inv, SteadyReplayable, Replayable, Existing, TypeOK
<1>7. \A c \in Client : \A r \in steady[c] : r =< Upper(h)
    <2>1. CASE tx[h].to = 0
        BY <1>4, <1>6, <2>1 DEF Upper
    <2>2. CASE tx[h].to # 0
        BY <1>2, <2>2 DEF Inv, Finding, Found, Bounds, Upper
    <2>3. QED
        BY <2>1, <2>2
<1>8. CASE tx[h].request.route = "delivery"
    <2> DEFINE set == {tx[h].request.at} \cap Existing
    <2>1. Advance(h, "scanning", set, 0)
        BY <1>8 DEF Snapshot
    <2>2. set \in SUBSET Row /\ 0 \in 0..MaxRows /\ Bounds(steady, 0)
        BY ReplayAssumption DEF Existing, Bounds
    <2> HIDE DEF set
    <2>3. QED
        BY <1>1, <1>2, <1>8, <2>1, <2>2, AdvanceInv
<1>9. CASE tx[h].request.route # "delivery"
    <2> DEFINE set == Matching(h)
    <2>1. Advance(h, "scanning", set, Upper(h))
        BY <1>9 DEF Snapshot
    <2>2. set \in SUBSET Row /\ \A r \in set : tx[h].request.at < r
        BY <1>3, ReplayAssumption DEF Matching, Existing, Row, Request
    <2>3. \A c \in Client : \A r \in steady[c] : tx[h].request.at < r => r \in set
        BY <1>3, <1>6, <1>7, ReplayAssumption DEF Matching, Existing, Row, Request
    <2>4. Bounds(steady, Upper(h))
        BY <1>7 DEF Bounds
    <2> HIDE DEF set
    <2>5. QED
        BY <1>1, <1>2, <1>5, <2>1, <2>2, <2>3, <2>4, AdvanceInv
<1>10. QED
    BY <1>8, <1>9

\* Locking drops rows that are no longer replayable, which are not steady.
LEMMA LockRowsInv == ASSUME Inv, NEW h \in Handler, LockRows(h) PROVE Inv'
<1> DEFINE set == Candidates(h)
           found == {r \in tx[h].rows : Replayable(r)}
           n == PageSize + 1
<1>1. /\ tx[h].pc = "scanning" /\ Advance(h, "selected", set, tx[h].to)
      /\ UNCHANGED <<rows, records, client, covered, steady, applied>>
    BY DEF LockRows
<1>2. Holding(h) /\ tx[h].pc # "idle"
    BY <1>1 DEF Holding
<1>3. /\ tx[h].to \in 0..MaxRows /\ tx[h].request \in Request
      /\ tx[h].rows \in SUBSET Row
    BY <1>2, TxFields DEF Inv
<1>4. Bounds(steady, tx[h].to)
    BY <1>2 DEF Inv, Finding, Found
<1>5. found \in SUBSET Row /\ n \in Nat \ {0} /\ PageSize \in Nat
    BY <1>3, ReplayAssumption
<1>6. set = IF tx[h].request.route = "delivery" THEN found ELSE First(n, found)
    BY DEF Candidates
<1>7. tx[h].request.route = "deliveries" =>
         /\ \A r \in found : tx[h].request.at < r
         /\ \A c \in Client : \A r \in steady[c] : tx[h].request.at < r => r \in found
    BY <1>1 DEF Inv, Finding, Found, SteadyReplayable
<1> HIDE DEF set, found, n
<1>8. /\ First(n, found) \in SUBSET found
      /\ \A r \in found \ First(n, found) :
            /\ Cardinality(First(n, found)) >= n
            /\ \A q \in First(n, found) : q < r
    BY <1>5, FirstRows
<1>9. set \in SUBSET Row
    BY <1>5, <1>6, <1>8
<1>10. ASSUME tx[h].request.route = "deliveries"
       PROVE  /\ \A r \in set : tx[h].request.at < r
              /\ \A c \in Client : \A r \in steady[c] : tx[h].request.at < r =>
                    \/ r \in set
                    \/ Cardinality(set) > PageSize /\ \A s \in set : s < r
    <2>1. set = First(n, found)
        BY <1>6, <1>10
    <2>2. Cardinality(set) \in Nat
        BY <1>9, RowSets
    <2>3. Cardinality(set) >= n => Cardinality(set) > PageSize
        BY <1>5, <2>2 DEF n
    <2>4. QED
        BY <1>7, <1>8, <1>10, <2>1, <2>3
<1>11. QED
    BY <1>1, <1>2, <1>3, <1>4, <1>9, <1>10, AdvanceInv

\* The answer of a transaction that has locked its rows.
LEMMA PageAnswers ==
    ASSUME Inv, NEW h \in Handler, tx[h].pc = "selected"
    PROVE  /\ PageRows(h) \in SUBSET Row
           /\ NextPage(h) \in Request \cup {NoRequest}
           /\ Answers(steady, tx[h].request, NextPage(h), PageRows(h))
<1> DEFINE q == tx[h].request
           set == tx[h].rows
           page == PageRows(h)
<1>1. /\ tx[h].to \in 0..MaxRows /\ q \in Request /\ set \in SUBSET Row
    BY TxFields DEF Inv
<1>2. /\ page \in SUBSET set
      /\ set # {} => page # {}
      /\ Cardinality(set) =< PageSize => page = set
      /\ \A r \in set, s \in page : r =< s => r \in page
    BY <1>1, FirstRows, ReplayAssumption DEF PageRows
<1>3. q.route \in {"deliveries", "delivery"} /\ q.at \in Nat
    BY <1>1, ReplayAssumption DEF Request
<1>4. /\ Bounds(steady, tx[h].to)
      /\ q.route = "delivery" => q.to = 0
      /\ q.route = "deliveries" =>
            /\ \A r \in set : q.at < r
            /\ \A c \in Client : \A r \in steady[c] : q.at < r =>
                  \/ r \in set
                  \/ Cardinality(set) > PageSize /\ \A s \in set : s < r
    BY DEF Inv, Finding, Found
<1>5. Cardinality(set) \in Nat /\ PageSize \in Nat \ {0}
    BY <1>1, RowSets, ReplayAssumption
<1>6. page \in SUBSET Row
    BY <1>1, <1>2
<1>7. CASE q.route = "delivery"
    <2>1. NextPage(h) = NoRequest
        BY <1>7 DEF NextPage
    <2>2. QED
        BY <1>4, <1>6, <1>7, <2>1 DEF Answers
<1>8. CASE q.route = "deliveries" /\ ~HasMore(h)
    <2>1. NextPage(h) = NoRequest
        BY <1>8 DEF NextPage
    <2>2. Cardinality(set) =< PageSize /\ page = set
        BY <1>2, <1>5, <1>8 DEF HasMore
    <2>3. QED
        BY <1>4, <1>5, <1>6, <1>8, <2>1, <2>2 DEF Answers
<1>9. CASE q.route = "deliveries" /\ HasMore(h)
    <2> DEFINE last == Last(page)
               next == Page(last, tx[h].to)
    <2>1. NextPage(h) = next
        BY <1>9 DEF NextPage
    <2>2. set # {}
        <3> SUFFICES ASSUME set = {} PROVE FALSE
            OBVIOUS
        <3>1. Cardinality(set) = 0
            BY FS_EmptySet
        <3>2. QED
            BY <1>5, <1>9, <3>1 DEF HasMore
    <2>3. last \in page /\ \A s \in page : s =< last
        BY <1>2, <1>6, <2>2, LastRow
    <2>4. last \in set /\ last \in Nat /\ last \in 0..MaxRows /\ q.at < last
        BY <1>1, <1>2, <1>4, <1>9, <2>3 DEF Row
    <2>5. /\ next \in Request /\ next # NoRequest
          /\ next.route = "deliveries" /\ next.at = last /\ next.to = tx[h].to
        BY <1>1, <2>4, NoneAssumption DEF Page, Request
    <2> HIDE DEF last, next
    <2>6. \A c \in Client : \A r \in steady[c] : q.at < r /\ r =< last => r \in page
        <3> SUFFICES ASSUME NEW c \in Client, NEW r \in steady[c], q.at < r, r =< last
                     PROVE  r \in page
            OBVIOUS
        <3>1. r \in Nat
            BY DEF Inv, TypeOK, Row
        <3>2. r \in set
            BY <1>4, <1>9, <2>4, <3>1
        <3>3. QED
            BY <1>2, <2>3, <3>2
    <2>7. Answers(steady, q, next, page)
        BY <1>2, <1>3, <1>4, <1>9, <2>3, <2>4, <2>5, <2>6 DEF Answers
    <2>8. QED
        BY <1>6, <2>1, <2>5, <2>7
<1>10. QED
    BY <1>3, <1>7, <1>8, <1>9

\* A commit replays the rows of the page, stores the answer under the key that
\* nobody else holds, and finds the last change under it expired.
LEMMA CommitInv == ASSUME Inv, NEW h \in Handler, Commit(h) PROVE Inv'
<1> DEFINE k == tx[h].key
           page == PageRows(h)
           next == NextPage(h)
           answer == [request |-> tx[h].request, next |-> next, rows |-> page, age |-> 0]
           times == IF applied[k].age > Expiry THEN 1 ELSE applied[k].times + 1
<1>1. /\ tx[h].pc = "selected"
      /\ rows' = [r \in Row |-> IF r \in page THEN Replayed(rows[r]) ELSE rows[r]]
      /\ records' = [records EXCEPT ![k] = answer]
      /\ applied' = [applied EXCEPT ![k] = [times |-> times, age |-> 0]]
      /\ Learns(h, next, page) /\ End(h) /\ steady' = steady
    BY DEF Commit, storeReplayResponse
<1>2. TypeOK /\ Walking /\ tx[h].pc # "idle"
    BY <1>1 DEF Inv
<1>3. k \in Key /\ tx[h].request \in Request /\ tx[h].request # NoRequest
    BY <1>2, TxFields
<1>4. /\ page \in SUBSET Row
      /\ next \in Request \cup {NoRequest}
      /\ Answers(steady, tx[h].request, next, page)
    BY <1>1, PageAnswers
<1>5. \A r \in Row :
         /\ rows'[r] \in [status : Status, generation : 0..MaxGeneration]
         /\ rows'[r].status # "none" <=> rows[r].status # "none"
         /\ Replayable(r) => rows'[r].status \in {"failed", "pending"}
         /\ rows'[r].status = "failed" => rows'[r] = rows[r]
    <2> SUFFICES ASSUME NEW r \in Row
                 PROVE  /\ rows'[r] \in [status : Status, generation : 0..MaxGeneration]
                        /\ rows'[r].status # "none" <=> rows[r].status # "none"
                        /\ Replayable(r) => rows'[r].status \in {"failed", "pending"}
                        /\ rows'[r].status = "failed" => rows'[r] = rows[r]
        OBVIOUS
    <2>1. rows'[r] = rows[r] \/ rows'[r] = Replayed(rows[r])
        BY <1>1
    <2>2. rows[r] \in [status : Status, generation : 0..MaxGeneration]
        BY <1>2 DEF TypeOK
    <2>3. rows[r].status = "failed" => rows[r].generation < MaxGeneration
        BY DEF Inv, FailedReplayable
    <2>4. QED
        BY <2>1, <2>2, <2>3, ReplayAssumption DEF Replayed, Status, Replayable
<1>6. RowPart'
    <2>1. Existing' = Existing
        BY <1>5 DEF Existing
    <2>2. FailedReplayable'
        BY <1>5 DEF Inv, FailedReplayable
    <2>3. SteadyReplayable'
        <3>1. \A c \in Client : steady[c] \subseteq Row
            BY <1>2 DEF TypeOK
        <3>2. QED
            BY <1>1, <1>5, <3>1 DEF Inv, SteadyReplayable, Replayable
    <2>4. QED
        BY <2>1, <2>2, <2>3 DEF Inv, RowPart, Prefix
<1>7. /\ records' \in [Key -> Record]
      /\ records'[k] = answer /\ answer.age = 0 /\ answer.request = tx[h].request
      /\ answer.next = next /\ answer.rows = page
      /\ \A j \in Key \ {k} : records'[j] = records[j]
    <2>1. answer \in Record
        BY <1>3, <1>4, ReplayAssumption DEF Record
    <2>2. QED
        BY <1>1, <1>2, <1>3, <2>1 DEF TypeOK
<1>8. /\ applied[k].times \in Nat /\ applied[k].times =< 1
      /\ applied[k].times = 1 => applied[k].age > Expiry
      /\ applied[k].age \in 0..(Expiry + 1)
    <2>1. Fresh(h)
        BY <1>1 DEF Inv, KeyLocks, Holding
    <2>2. QED
        BY <1>2, <1>3, <2>1 DEF Inv, KeyLocks, Fresh, Expired, TypeOK
<1>9. times = 1
    BY <1>8
<1>10. /\ applied' \in [Key -> [times : Nat, age : 0..(Expiry + 1)]]
       /\ applied'[k].times = 1 /\ applied'[k].age = 0
       /\ \A j \in Key \ {k} : applied'[j] = applied[j]
    BY <1>1, <1>2, <1>3, <1>9, ReplayAssumption DEF TypeOK
<1> HIDE DEF answer, times
<1>11. /\ client' \in [Client -> [request : Request \cup {NoRequest},
                                  key : Key \cup {NoKey}]]
       /\ covered' \in [Client -> SUBSET Row]
       /\ Walking'
    BY <1>1, <1>2, <1>4, LearnsStep
<1>12. /\ tx' \in [Handler -> TxState]
       /\ tx'[h].pc = "idle" /\ \A i \in Handler \ {h} : tx'[i] = tx[i]
    BY <1>1, <1>2, EndStep
<1>13. TypeOK'
    <2>1. rows' \in [Row -> [status : Status, generation : 0..MaxGeneration]]
        BY <1>1, <1>5
    <2>2. QED
        BY <1>1, <1>2, <1>7, <1>10, <1>11, <1>12, <2>1 DEF TypeOK, TxState
<1>14. KeyLocks'
    <2>1. Holding(h)
        BY <1>1 DEF Holding
    <2>2. \A i \in Handler : Holding(i)' =>
             /\ i # h /\ Holding(i) /\ tx'[i] = tx[i]
             /\ tx[i].key \in Key \ {k}
        <3> SUFFICES ASSUME NEW i \in Handler, Holding(i)'
                     PROVE  /\ i # h /\ Holding(i) /\ tx'[i] = tx[i]
                            /\ tx[i].key \in Key \ {k}
            OBVIOUS
        <3>1. i # h /\ tx'[i] = tx[i] /\ Holding(i)
            BY <1>12 DEF Holding
        <3>2. tx[i].key # k
            BY <2>1, <3>1 DEF Inv, KeyLocks
        <3>3. tx[i].pc # "idle"
            BY <3>1 DEF Holding
        <3>4. tx[i].key \in Key
            BY <1>2, <3>3, TxFields
        <3>5. QED
            BY <3>1, <3>2, <3>4
    <2>3. \A i \in Handler : Holding(i)' => Fresh(i)'
        BY <1>7, <2>2 DEF Inv, KeyLocks, Fresh, Expired
    <2>4. \A i, j \in Handler :
             i # j /\ Holding(i)' /\ Holding(j)' => tx'[i].key # tx'[j].key
        BY <2>2 DEF Inv, KeyLocks
    <2>5. \A j \in Key : /\ applied'[j].times =< 1
                         /\ applied'[j].times = 1 => records'[j].age = applied'[j].age
        BY <1>7, <1>10 DEF Inv, KeyLocks
    <2>6. QED
        BY <2>3, <2>4, <2>5 DEF KeyLocks
<1>15. Finding'
    <2>1. Found(steady, tx'[h])
        BY <1>12 DEF Found
    <2>2. QED
        BY <1>1, <1>12, <2>1 DEF Inv, Finding
<1>16. Stored'
    <2>1. \A j \in Key : records'[j].request # NoRequest =>
             Answers(steady, records'[j].request, records'[j].next, records'[j].rows)
        BY <1>4, <1>7 DEF Inv, Stored
    <2>2. QED
        BY <1>1, <2>1 DEF Stored
<1>17. QED
    BY <1>6, <1>11, <1>13, <1>14, <1>15, <1>16 DEF Inv, RowPart
-----------------------------------------------------------------------------
(***************************************************************************)
(* What goes on meanwhile.                                                 *)
(***************************************************************************)
LEMMA BecomeInv ==
    ASSUME Inv, NEW r \in Row, NEW status \in Status \ {"none"}, Become(r, status),
           r \in Existing \/ r = Newest + 1,
           status = "failed" => rows[r].generation < MaxGeneration
    PROVE  Inv'
<1>1. /\ rows' = [rows EXCEPT ![r].status = status]
      /\ steady' = [c \in Client |-> {s \in steady[c] : Replayable(s)'}]
      /\ UNCHANGED <<records, tx, client, covered, applied>>
    BY DEF Become, Observe
<1>2. TypeOK
    BY DEF Inv
<1>3. /\ rows' \in [Row -> [status : Status, generation : 0..MaxGeneration]]
      /\ rows'[r].status = status /\ rows'[r].generation = rows[r].generation
      /\ \A s \in Row \ {r} : rows'[s] = rows[s]
    BY <1>1, <1>2 DEF TypeOK
<1>4. \A c \in Client : steady'[c] \subseteq steady[c]
    BY <1>1
<1>5. TypeOK'
    BY <1>1, <1>2, <1>3 DEF TypeOK
<1>6. RowPart'
    <2>1. Existing' = Existing \cup {r}
        BY <1>3 DEF Existing
    <2>2. Newest \in 0..MaxRows /\ Existing = 1..Newest
        BY NewestRow DEF Inv
    <2>3. Prefix'
        <3>1. CASE r \in Existing
            BY <2>1, <2>2, <3>1 DEF Prefix
        <3>2. CASE r = Newest + 1
            <4>1. Newest + 1 \in 0..MaxRows
                BY <3>2, ReplayAssumption DEF Row
            <4>2. Existing' = 1..(Newest + 1)
                BY <2>1, <2>2, <3>2
            <4>3. QED
                BY <4>1, <4>2 DEF Prefix
        <3>3. QED
            BY <3>1, <3>2
    <2>4. FailedReplayable'
        BY <1>3 DEF Inv, FailedReplayable
    <2>5. SteadyReplayable'
        BY <1>1 DEF SteadyReplayable
    <2>6. QED
        BY <2>3, <2>4, <2>5 DEF RowPart
<1>7. KeyLocks'
    BY <1>1 DEF Inv, KeyLocks, Holding, Fresh
<1>8. Stored' /\ Finding' /\ Walking'
    <2> DEFINE st == steady
               su == steady'
    <2>1. /\ \A q, next, set : Answers(st, q, next, set) => Answers(su, q, next, set)
          /\ \A c \in Client : \A q, set : Walked(st, c, q, set) => Walked(su, c, q, set)
          /\ \A t : Found(st, t) => Found(su, t)
        BY <1>4, Shrink
    <2>2. QED
        BY <1>1, <2>1 DEF Inv, Stored, Finding, Walking
<1>9. QED
    BY <1>5, <1>6, <1>7, <1>8 DEF Inv, RowPart

\* The workers change rows that no replay holds.
LEMMA WorkInv == ASSUME Inv, NEW r \in Row, Work(r) PROVE Inv'
<1>1. r \in Existing
    BY DEF Work, Existing
<1>2. PICK status \in Status \ {"none"} :
         /\ Become(r, status)
         /\ status = "failed" => rows[r].generation < MaxGeneration
    BY DEF Work, Status
<1>3. QED
    BY <1>1, <1>2, BecomeInv

LEMMA EnqueueInv == ASSUME Inv, Enqueue PROVE Inv'
<1>1. Newest < MaxRows /\ Become(Newest + 1, "pending")
    BY DEF Enqueue
<1>2. Newest \in 0..MaxRows
    BY NewestRow DEF Inv
<1>3. Newest + 1 \in Row
    BY <1>1, <1>2, ReplayAssumption DEF Row
<1>4. "pending" \in Status \ {"none"}
    BY DEF Status
<1>5. QED
    BY <1>1, <1>3, <1>4, BecomeInv

\* A record that is purged was no longer valid.
LEMMA PurgeRecordInv == ASSUME Inv, NEW k \in Key, PurgeRecord(k) PROVE Inv'
<1>1. /\ records[k].age > Expiry
      /\ records' = [records EXCEPT ![k] = NoRecord]
      /\ UNCHANGED <<rows, tx, client, covered, steady, applied>>
    BY DEF PurgeRecord, Expired
<1>2. TypeOK /\ records[k] \in Record
    BY DEF Inv, TypeOK
<1>3. records[k].age = Expiry + 1
    BY <1>1, <1>2, ReplayAssumption DEF Record
<1>4. NoRecord \in Record /\ NoRecord.age = Expiry + 1 /\ NoRecord.request = NoRequest
    BY ReplayAssumption DEF NoRecord, Record
<1>5. /\ records' \in [Key -> Record]
      /\ records'[k] = NoRecord
      /\ \A j \in Key \ {k} : records'[j] = records[j]
    BY <1>1, <1>2, <1>4 DEF TypeOK
<1>6. TypeOK'
    BY <1>1, <1>2, <1>5 DEF TypeOK
<1>7. \A j \in Key : records'[j].age = records[j].age
    BY <1>3, <1>4, <1>5
<1>8. KeyLocks'
    <2>1. \A h \in Handler : Holding(h) => tx[h].key \in Key
        <3> SUFFICES ASSUME NEW h \in Handler, Holding(h) PROVE tx[h].key \in Key
            OBVIOUS
        <3>1. tx[h].pc # "idle"
            BY DEF Holding
        <3>2. QED
            BY <1>2, <3>1, TxFields
    <2>2. \A h \in Handler : Holding(h) => Fresh(h)'
        BY <1>1, <1>7, <2>1 DEF Inv, KeyLocks, Fresh, Expired
    <2>3. QED
        BY <1>1, <1>7, <2>2 DEF Inv, KeyLocks, Holding
<1>9. Stored'
    BY <1>1, <1>4, <1>5 DEF Inv, Stored
<1>10. RowPart' /\ Walking' /\ Finding'
    BY <1>1, RowFrame, WalkingFrame DEF Inv, RowPart, Finding
<1>11. QED
    BY <1>6, <1>8, <1>9, <1>10 DEF Inv, RowPart

LEMMA TickInv == ASSUME Inv, Tick PROVE Inv'
<1>1. /\ \A h \in Handler : tx[h].pc = "idle"
      /\ applied' = [k \in Key |-> [applied[k] EXCEPT !.age = Older(@)]]
      /\ records' = [k \in Key |-> [records[k] EXCEPT !.age = Older(@)]]
      /\ UNCHANGED <<rows, tx, client, covered, steady>>
    BY DEF Tick
<1>2. TypeOK
    BY DEF Inv
<1>3. \A a \in 0..(Expiry + 1) : Older(a) \in 0..(Expiry + 1)
    BY ReplayAssumption DEF Older
<1>4. ASSUME NEW k \in Key
      PROVE  /\ records'[k] \in Record
             /\ records'[k].age = Older(records[k].age)
             /\ records'[k].request = records[k].request
             /\ records'[k].next = records[k].next /\ records'[k].rows = records[k].rows
    <2>1. records[k] \in Record
        BY <1>2 DEF TypeOK
    <2>2. Older(records[k].age) \in 0..(Expiry + 1)
        BY <1>3, <2>1 DEF Record
    <2>3. records'[k] = [records[k] EXCEPT !.age = Older(records[k].age)]
        BY <1>1
    <2>4. QED
        BY <2>1, <2>2, <2>3 DEF Record
<1>5. ASSUME NEW k \in Key
      PROVE  /\ applied'[k] \in [times : Nat, age : 0..(Expiry + 1)]
             /\ applied'[k].age = Older(applied[k].age)
             /\ applied'[k].times = applied[k].times
    <2>1. applied[k] \in [times : Nat, age : 0..(Expiry + 1)]
        BY <1>2 DEF TypeOK
    <2>2. Older(applied[k].age) \in 0..(Expiry + 1)
        BY <1>3, <2>1
    <2>3. applied'[k] = [applied[k] EXCEPT !.age = Older(applied[k].age)]
        BY <1>1
    <2>4. QED
        BY <2>1, <2>2, <2>3
<1>6. TypeOK'
    BY <1>1, <1>2, <1>4, <1>5 DEF TypeOK
<1>7. KeyLocks'
    BY <1>1, <1>4, <1>5 DEF Inv, KeyLocks, Holding
<1>8. Stored'
    BY <1>1, <1>4 DEF Inv, Stored
<1>9. RowPart' /\ Walking' /\ Finding'
    BY <1>1, RowFrame, WalkingFrame DEF Inv, RowPart, Finding
<1>10. QED
    BY <1>6, <1>7, <1>8, <1>9 DEF Inv, RowPart
-----------------------------------------------------------------------------
(***************************************************************************)
(* The theorems.                                                           *)
(***************************************************************************)
LEMMA NextInv == Inv /\ [Next]_vars => Inv'
<1> SUFFICES ASSUME Inv, [Next]_vars PROVE Inv'
    OBVIOUS
<1>1. CASE UNCHANGED vars
    <2>1. UNCHANGED <<rows, records, tx, client, covered, steady, applied>>
        BY <1>1 DEF vars
    <2>2. TypeOK' /\ Finding'
        BY <2>1 DEF Inv, TypeOK, Finding
    <2>3. KeyLocks'
        BY <2>1 DEF Inv, KeyLocks, Holding, Fresh
    <2>4. RowPart' /\ Stored' /\ Walking'
        BY <2>1, RowFrame, StoredFrame, WalkingFrame DEF Inv, RowPart
    <2>5. QED
        BY <2>2, <2>3, <2>4 DEF Inv, RowPart
<1>2. CASE \E c \in Client, k \in Key : ChooseKey(c, k)
    BY <1>2, ChooseKeyInv
<1>3. CASE \E h \in Handler, c \in Client : Receive(h, c)
    BY <1>3, ReceiveInv
<1>4. CASE \E h \in Handler : HandlerStep(h)
    BY <1>4, ProceedInv, CachedInv, ConflictInv, SnapshotInv, LockRowsInv, RefuseInv,
       CommitInv, AbortInv DEF HandlerStep
<1>5. CASE \E r \in Row : Work(r)
    BY <1>5, WorkInv
<1>6. CASE \E k \in Key : PurgeRecord(k)
    BY <1>6, PurgeRecordInv
<1>7. CASE Enqueue
    BY <1>7, EnqueueInv
<1>8. CASE Tick
    BY <1>8, TickInv
<1>9. QED
    BY <1>1, <1>2, <1>3, <1>4, <1>5, <1>6, <1>7, <1>8 DEF Next

\* The invariant of every behaviour.
LEMMA InvHolds == Spec => []Inv
BY InitInv, NextInv, PTL DEF Spec

\* Type correctness of the tables, the transactions and the clients; in
\* particular a replay never passes the bound on the generations.
THEOREM ReplayTypeCorrect == Spec => []TypeOK
<1>1. Inv => TypeOK
    BY DEF Inv
<1>2. QED
    BY <1>1, InvHolds, PTL

\* A key changes the table at most once while it is kept, for any number of
\* clients, servers and repetitions: the advisory lock of replayCached keeps the
\* look-up of the record and the commit that stores it together.
THEOREM KeysAppliedOnce == Spec => []AppliedOncePerKey
<1>1. Inv => AppliedOncePerKey
    BY DEF Inv, KeyLocks, AppliedOncePerKey
<1>2. QED
    BY <1>1, InvHolds, PTL

\* A walk over the pages that has reached its end has covered every delivery that
\* could be replayed all the time, for any page size and number of deliveries.
THEOREM WalksComplete == Spec => []WalkComplete
<1>1. Inv => WalkComplete
    BY DEF Inv, Walking, Walked, WalkComplete, Client
<1>2. QED
    BY <1>1, InvHolds, PTL

\* No page that is about to be replayed for a client repeats a delivery of an
\* earlier page of the same walk.
THEOREM WalkPagesDisjoint == Spec => []PagesDisjoint
<1>1. ASSUME Inv PROVE PagesDisjoint
    <2> SUFFICES ASSUME NEW h \in Handler, tx[h].pc = "selected", Waits(h),
                        NEW r \in tx[h].rows, r \in covered[tx[h].client]
                 PROVE  FALSE
        BY DEF PagesDisjoint
    <2> DEFINE c == tx[h].client
               q == tx[h].request
    <2>1. /\ c \in Client /\ q \in Request /\ q # NoRequest
          /\ tx[h].rows \in SUBSET Row
        BY <1>1, TxFields DEF Inv
    <2>2. Walked(steady, c, q, covered[c])
        BY <1>1, <2>1 DEF Inv, Walking, Waits
    <2>3. q.route = "deliveries" /\ r =< q.at
        BY <2>1, <2>2 DEF Walked
    <2>4. q.at < r
        BY <1>1, <2>3 DEF Inv, Finding, Found
    <2>5. r \in Nat /\ q.at \in Nat
        BY <2>1, ReplayAssumption DEF Row, Request
    <2>6. QED
        BY <2>3, <2>4, <2>5
<1>2. QED
    BY <1>1, InvHolds, PTL
=============================================================================
