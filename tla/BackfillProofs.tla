--------------------------- MODULE BackfillProofs ---------------------------
(***************************************************************************)
(* Proofs about Backfill, for any number of webhooks and configs, any      *)
(* batch size and any retention of terminal history.                       *)
(***************************************************************************)
EXTENDS Backfill, SequenceTheorems, TLAPS

\* No timestamp lies ahead.
Ordered ==
    \A w \in Webhook :
        /\ rows[w].updated =< now
        /\ \A i \in DOMAIN attempts[w] : attempts[w][i].updated =< now

\* A delivery that has the status and the attempts of its webhook.
Tells(w) ==
    /\ rows[w].count = Len(attempts[w])
    /\ logged[w] = Len(attempts[w])
    /\ rows[w].status = ImportedStatus(attempts[w], TRUE)

\* A delivery that is not older than the attempts tells them, unless the API
\* cancelled it.
Agreed ==
    \A w \in Webhook :
        /\ logged[w] =< Len(attempts[w])
        /\ OutOfDate(w) \/ rows[w].status = "cancelled" \/ Tells(w)

\* Attempts that are about to be imported are the ones of the table, or the
\* table has one that was written since.
ReadCurrent ==
    LET w == command.webhook
        read == command.read
    IN  command.pc = "import" =>
            \/ read = attempts[w]
            \/ /\ \E i \in DOMAIN attempts[w] :
                     read[Len(read)].updated < attempts[w][i].updated
               /\ Len(read) =< Len(attempts[w])

\* Nothing is left to import once a run has ended well after the workers.
Finished ==
    complete =>
        /\ stopped /\ command.pc = "idle"
        /\ \A w \in Webhook : Due(w) => ~OutOfDate(w)

Inv == TypeOK /\ Ordered /\ Agreed /\ ReadCurrent /\ Finished

\* The attempts of a webhook are a sequence that is not empty.
LEMMA AttemptsType ==
    ASSUME NEW s \in Attempts
    PROVE  /\ s \in Seq(Attempt) /\ Len(s) \in 1..MaxAttempts
           /\ DOMAIN s = 1..Len(s)
           /\ \A i \in DOMAIN s : s[i] \in Attempt
           /\ Len(s) \in DOMAIN s
<1>1. PICK n \in 1..MaxAttempts : s \in [1..n -> Attempt]
  BY DEF Attempts
<1>2. n \in Nat
  BY <1>1, BackfillAssumption
<1>3. s \in Seq(Attempt)
  BY <1>1, <1>2, SeqDef
<1>4. Len(s) \in Nat /\ DOMAIN s = 1..Len(s)
  BY <1>3, LenProperties
<1>5. Len(s) = n
  BY <1>1, <1>2, <1>4
<1> QED
  BY <1>1, <1>3, <1>4, <1>5

\* A function on the first numbers is such a sequence.
LEMMA AttemptsIntro ==
    ASSUME NEW n \in 1..MaxAttempts, NEW s \in [1..n -> Attempt]
    PROVE  s \in Attempts /\ Len(s) = n
<1>1. s \in Attempts
  BY DEF Attempts
<1>2. DOMAIN s = 1..Len(s) /\ Len(s) \in Nat
  BY <1>1, AttemptsType
<1> QED
  BY <1>1, <1>2, BackfillAssumption

\* Another attempt.
LEMMA AppendType ==
    ASSUME NEW s \in Attempts, Len(s) < MaxAttempts, NEW a \in Attempt
    PROVE  /\ Append(s, a) \in Attempts
           /\ Len(Append(s, a)) = Len(s) + 1
           /\ DOMAIN Append(s, a) = 1..(Len(s) + 1)
           /\ Append(s, a)[Len(s) + 1] = a
           /\ \A i \in DOMAIN s : Append(s, a)[i] = s[i]
<1>1. s \in Seq(Attempt) /\ Len(s) \in 1..MaxAttempts /\ DOMAIN s = 1..Len(s)
  BY AttemptsType
<1>2. /\ Append(s, a) \in Seq(Attempt)
      /\ Len(Append(s, a)) = Len(s) + 1
      /\ Append(s, a)[Len(s) + 1] = a
      /\ \A i \in 1..Len(s) : Append(s, a)[i] = s[i]
  BY <1>1, AppendProperties
<1>3. Append(s, a) \in [1..(Len(s) + 1) -> Attempt]
  BY <1>2, LenProperties
<1>4. Len(s) + 1 \in 1..MaxAttempts
  BY <1>1, BackfillAssumption
<1> QED
  BY <1>1, <1>2, <1>3, <1>4 DEF Attempts

\* Idle is a command.
LEMMA IdleType == Idle \in Command
<1>1. (CHOOSE w \in Webhook : TRUE) \in Webhook
  BY BackfillAssumption
<1>2. <<[status |-> "retry", updated |-> 0]>> \in [1..1 -> Attempt]
  BY BackfillAssumption DEF Attempt, AttemptStatus, Time
<1>3. <<[status |-> "retry", updated |-> 0]>> \in Attempts
  BY <1>2, BackfillAssumption DEF Attempts
<1> QED
  BY <1>1, <1>3 DEF Idle, Command

\* The initial state satisfies the invariant.
LEMMA InitInv == Init => Inv
<1> SUFFICES ASSUME Init PROVE Inv
  OBVIOUS
<1>1. \A w \in Webhook :
         /\ attempts[w] \in Attempts
         /\ \A i \in DOMAIN attempts[w] : attempts[w][i].updated = 0
  <2> SUFFICES ASSUME NEW w \in Webhook
               PROVE  /\ attempts[w] \in Attempts
                      /\ \A i \in DOMAIN attempts[w] : attempts[w][i].updated = 0
    OBVIOUS
  <2>1. attempts[w] \in [1..1 -> [status : AttemptStatus, updated : {0}]]
    BY DEF Init
  <2>2. attempts[w] \in [1..1 -> Attempt]
    BY <2>1, BackfillAssumption DEF Attempt, Time
  <2>3. 1 \in 1..MaxAttempts
    BY BackfillAssumption
  <2>4. attempts[w] \in Attempts
    BY <2>2, <2>3, AttemptsIntro
  <2> QED
    BY <2>1, <2>4
<1>2. TypeOK
  <2>1. attempts \in [Webhook -> Attempts]
    BY <1>1 DEF Init
  <2>2. now \in Time /\ failures \in 0..MaxFailures /\ logged \in [Webhook -> 0..MaxAttempts]
    BY BackfillAssumption DEF Init, Time
  <2> QED
    BY <2>1, <2>2, IdleType DEF Init, TypeOK
<1>3. \A w \in Webhook : Last(w).updated = 0 /\ Len(attempts[w]) \in Nat
  BY <1>1, AttemptsType DEF Last
<1>4. Ordered
  BY <1>1, <1>3 DEF Ordered, Init, NoRow
<1>5. Agreed
  <2>1. \A w \in Webhook : OutOfDate(w)
    BY <1>1, AttemptsType DEF OutOfDate, Init, NoRow
  <2> QED
    BY <1>3, <2>1 DEF Agreed, Init
<1>6. ReadCurrent /\ Finished
  BY DEF ReadCurrent, Finished, Init, Idle
<1> QED
  BY <1>2, <1>4, <1>5, <1>6 DEF Inv

\* A step that leaves the attempts and deliveries alone.
LEMMA TableKept ==
    ASSUME Inv, UNCHANGED <<now, attempts, rows, logged>>
    PROVE  Ordered' /\ Agreed'
BY DEF Inv, Ordered, Agreed, Tells, OutOfDate, ImportedStatus

\* The old workers write attempts of one webhook: a sequence as long or longer,
\* with an entry of this instant and none ahead of it.
LEMMA WorkersWrite ==
    ASSUME Inv, NEW w \in Webhook, NEW s \in Attempts,
           ~stopped, now < MaxTime, now' = now + 1, UNCHANGED stopped,
           OldWorkersUnchanged,
           attempts' = [attempts EXCEPT ![w] = s],
           Len(attempts[w]) =< Len(s),
           \E i \in DOMAIN s : s[i].updated = now + 1,
           \A i \in DOMAIN s : s[i].updated =< now + 1
    PROVE  Inv'
<1> USE DEF OldWorkersUnchanged
<1>1. TypeOK'
  <2>1. now' \in Time
    BY BackfillAssumption DEF Inv, TypeOK, Time
  <2>2. attempts' \in [Webhook -> Attempts]
    BY DEF Inv, TypeOK
  <2> QED
    BY <2>1, <2>2 DEF Inv, TypeOK
<1>2. /\ now \in Int /\ attempts \in [Webhook -> Attempts]
      /\ \A v \in Webhook : rows[v].updated \in Int
  BY DEF Inv, TypeOK, Time, Row, NoRow
<1>3. \A v \in Webhook :
         /\ Len(attempts[v]) \in Nat /\ Len(attempts[v]) \in DOMAIN attempts[v]
         /\ \A i \in DOMAIN attempts[v] : attempts[v][i].updated \in Int
  BY <1>2, AttemptsType DEF Attempt, Time
<1>4. \A v \in Webhook : \/ v = w /\ attempts'[v] = s
                         \/ v # w /\ attempts'[v] = attempts[v]
  BY <1>2
<1>5. Len(s) \in Nat /\ \A i \in DOMAIN s : s[i].updated \in Int
  BY AttemptsType DEF Attempt, Time
<1>6. Ordered'
  BY <1>2, <1>3, <1>4, <1>5 DEF Inv, Ordered
<1>7. Agreed'
  <2> SUFFICES ASSUME NEW v \in Webhook
               PROVE  /\ logged'[v] =< Len(attempts'[v])
                      /\ OutOfDate(v)' \/ rows'[v].status = "cancelled" \/ Tells(v)'
    BY DEF Agreed
  <2>1. CASE v = w
    <3>1. logged[w] =< Len(attempts[w]) /\ logged[w] \in Int
      BY DEF Inv, Agreed, TypeOK
    <3>2. rows[w].updated =< now
      BY DEF Inv, Ordered
    <3>3. OutOfDate(v)'
      BY <1>2, <1>4, <2>1, <3>2 DEF OutOfDate
    <3> QED
      BY <1>3, <1>4, <1>5, <2>1, <3>1, <3>3
  <2>2. CASE v # w
    BY <1>4, <2>2 DEF Inv, Agreed, Tells, OutOfDate, ImportedStatus
  <2> QED
    BY <2>1, <2>2
<1>8. ReadCurrent'
  <2> DEFINE v == command.webhook
             read == command.read
  <2> SUFFICES ASSUME command.pc = "import"
               PROVE  \/ read = attempts'[v]
                      \/ /\ \E i \in DOMAIN attempts'[v] :
                               read[Len(read)].updated < attempts'[v][i].updated
                         /\ Len(read) =< Len(attempts'[v])
    BY DEF ReadCurrent
  <2>1. v \in Webhook /\ read \in Attempts
    BY DEF Inv, TypeOK, Command
  <2>2. /\ Len(read) \in Nat /\ Len(read) \in DOMAIN read
        /\ read[Len(read)].updated \in Int
    BY <2>1, AttemptsType DEF Attempt, Time
  <2>3. \/ read = attempts[v]
        \/ /\ \E i \in DOMAIN attempts[v] :
                 read[Len(read)].updated < attempts[v][i].updated
           /\ Len(read) =< Len(attempts[v])
    BY DEF Inv, ReadCurrent
  <2>4. \A i \in DOMAIN attempts[v] : attempts[v][i].updated =< now
    BY <2>1 DEF Inv, Ordered
  <2>5. read[Len(read)].updated =< now /\ Len(read) =< Len(attempts[v])
    BY <1>2, <1>3, <2>1, <2>2, <2>3, <2>4
  <2> HIDE DEF v, read
  <2>6. CASE v # w
    BY <1>4, <2>1, <2>3, <2>6
  <2>7. CASE v = w
    <3>1. PICK i \in DOMAIN s : s[i].updated = now + 1
      OBVIOUS
    <3>2. read[Len(read)].updated < s[i].updated
      BY <1>2, <2>2, <2>5, <3>1
    <3>3. Len(read) =< Len(s)
      BY <1>3, <1>5, <2>1, <2>2, <2>5, <2>7
    <3> QED
      BY <1>4, <2>1, <2>7, <3>2, <3>3
  <2> QED
    BY <2>6, <2>7
<1>9. Finished'
  BY DEF Inv, Finished
<1> QED
  BY <1>1, <1>6, <1>7, <1>8, <1>9 DEF Inv

\* An old worker adds an attempt.
LEMMA InsertAttemptInv ==
    ASSUME Inv, NEW w \in Webhook, InsertAttempt(w) PROVE Inv'
<1>1. PICK status \in AttemptStatus :
         attempts' = [attempts EXCEPT ![w] =
             Append(attempts[w], [status |-> status, updated |-> now + 1])]
  BY DEF InsertAttempt
<1> DEFINE a == [status |-> status, updated |-> now + 1]
           s == Append(attempts[w], a)
<1>2. now \in Time /\ attempts[w] \in Attempts
  BY DEF Inv, TypeOK
<1>3. now < MaxTime /\ Len(attempts[w]) < MaxAttempts
  BY DEF InsertAttempt
<1>4. a \in Attempt
  BY <1>2, <1>3, BackfillAssumption DEF Attempt, Time
<1>5. \A i \in DOMAIN attempts[w] : attempts[w][i].updated =< now
  BY DEF Inv, Ordered
<1>6. /\ DOMAIN attempts[w] = 1..Len(attempts[w]) /\ Len(attempts[w]) \in Nat
      /\ \A i \in DOMAIN attempts[w] : attempts[w][i].updated \in Int
  BY <1>2, AttemptsType DEF Attempt, Time
<1> HIDE DEF a
<1>7. /\ s \in Attempts /\ Len(s) = Len(attempts[w]) + 1
      /\ DOMAIN s = 1..(Len(attempts[w]) + 1)
      /\ s[Len(attempts[w]) + 1] = a
      /\ \A i \in DOMAIN attempts[w] : s[i] = attempts[w][i]
  BY <1>2, <1>3, <1>4, AppendType
<1> HIDE DEF s
<1>8. a.updated = now + 1
  BY DEF a
<1>9. \A i \in DOMAIN s : s[i].updated =< now + 1
  BY <1>2, <1>5, <1>6, <1>7, <1>8 DEF Time
<1>10. attempts' = [attempts EXCEPT ![w] = s]
  BY <1>1 DEF s, a
<1>11. (\E i \in DOMAIN s : s[i].updated = now + 1) /\ Len(attempts[w]) =< Len(s)
  BY <1>6, <1>7, <1>8
<1> QED
  BY <1>7, <1>9, <1>10, <1>11, WorkersWrite DEF InsertAttempt

\* An old worker writes some of the attempts of a webhook.
LEMMA WrittenInv ==
    ASSUME Inv, NEW w \in Webhook, NEW status \in AttemptStatus,
           NEW chosen \in SUBSET DOMAIN attempts[w], chosen # {},
           ~stopped, now < MaxTime, now' = now + 1, UNCHANGED stopped,
           OldWorkersUnchanged, attempts' = Written(w, chosen, status)
    PROVE  Inv'
<1> DEFINE a == [status |-> status, updated |-> now + 1]
           s == [i \in DOMAIN attempts[w] |-> IF i \in chosen THEN a ELSE attempts[w][i]]
<1>1. now \in Time /\ attempts[w] \in Attempts
  BY DEF Inv, TypeOK
<1>2. /\ Len(attempts[w]) \in 1..MaxAttempts /\ DOMAIN attempts[w] = 1..Len(attempts[w])
      /\ \A i \in DOMAIN attempts[w] : attempts[w][i] \in Attempt
  BY <1>1, AttemptsType
<1>3. a \in Attempt /\ a.updated = now + 1
  BY <1>1, BackfillAssumption DEF Attempt, Time
<1> HIDE DEF a
<1>4. s \in [1..Len(attempts[w]) -> Attempt]
  BY <1>2, <1>3
<1>5. s \in Attempts /\ Len(s) = Len(attempts[w])
  BY <1>2, <1>4, AttemptsIntro
<1>6. \A i \in DOMAIN s : i \in DOMAIN attempts[w] /\ s[i] \in {a, attempts[w][i]}
  OBVIOUS
<1>7. \E i \in DOMAIN s : s[i].updated = now + 1
  BY <1>3
<1>8. attempts' = [attempts EXCEPT ![w] = s]
  BY DEF Written, a
<1> HIDE DEF s
<1>9. \A i \in DOMAIN attempts[w] :
         attempts[w][i].updated =< now /\ attempts[w][i].updated \in Int
  BY <1>2 DEF Inv, Ordered, Attempt, Time
<1>10. \A i \in DOMAIN s : s[i].updated =< now + 1
  BY <1>1, <1>3, <1>6, <1>9 DEF Time
<1>11. Len(attempts[w]) =< Len(s)
  BY <1>2, <1>5
<1> QED
  BY <1>5, <1>7, <1>8, <1>10, <1>11, WorkersWrite

\* An old worker claims or gives back outstanding attempts.
LEMMA ClaimAttemptsInv ==
    ASSUME Inv, NEW w \in Webhook, ClaimAttempts(w) PROVE Inv'
<1>1. PICK chosen \in (SUBSET Outstanding(w)) \ {{}} :
         attempts' = Written(w, chosen, "retry")
  BY DEF ClaimAttempts
<1>2. chosen \in SUBSET DOMAIN attempts[w] /\ chosen # {} /\ "retry" \in AttemptStatus
  BY DEF Outstanding, AttemptStatus
<1> QED
  BY <1>1, <1>2, WrittenInv DEF ClaimAttempts

\* An old worker settles attempts of a webhook.
LEMMA UpdateAttemptsStatusInv ==
    ASSUME Inv, NEW w \in Webhook, UpdateAttemptsStatus(w) PROVE Inv'
<1>1. PICK chosen \in SUBSET DOMAIN attempts[w] :
         /\ \E i \in chosen : attempts[w][i].status # Last(w).status
         /\ attempts' = Written(w, chosen, Last(w).status)
  BY DEF UpdateAttemptsStatus
<1>2. Last(w).status \in AttemptStatus
  BY AttemptsType DEF Inv, TypeOK, Last, Attempt
<1>3. chosen # {}
  BY <1>1
<1> QED
  BY <1>1, <1>2, <1>3, WrittenInv DEF UpdateAttemptsStatus

\* The API switches a config: the deliveries it cancels are newer than any.
LEMMA SwitchInv ==
    ASSUME Inv, NEW c \in Config, NEW from, NEW to \in {"on", "off", "deleted"},
           Switch(c, from, to)
    PROVE  Inv'
<1> USE DEF Switch
<1>1. /\ now \in Time /\ now < MaxTime /\ now' \in Time /\ now' = now + 1
  BY BackfillAssumption DEF Inv, TypeOK, Time
<1>2. \A w \in Webhook : rows[w] \in Row \cup {NoRow} /\ rows[w].updated \in Int
  BY DEF Inv, TypeOK, Time, Row, NoRow
<1>3. \A w \in Webhook :
         \/ rows'[w] = rows[w]
         \/ /\ rows[w].status = "pending"
            /\ rows'[w] = [rows[w] EXCEPT !.status = "cancelled", !.updated = now + 1]
  BY DEF Cancelled, Inv, TypeOK
<1>4. \A w \in Webhook :
         /\ rows'[w] \in Row \cup {NoRow}
         /\ \/ rows'[w] = rows[w]
            \/ rows'[w].status = "cancelled" /\ rows'[w].updated = now + 1
  <2> SUFFICES ASSUME NEW w \in Webhook, rows'[w] # rows[w]
               PROVE  /\ rows'[w] \in Row
                      /\ rows'[w].status = "cancelled" /\ rows'[w].updated = now + 1
    BY <1>2
  <2>1. /\ rows[w].status = "pending"
        /\ rows'[w] = [rows[w] EXCEPT !.status = "cancelled", !.updated = now + 1]
    BY <1>3
  <2>2. rows[w] \in Row
    BY <1>2, <2>1 DEF NoRow
  <2> QED
    BY <1>1, <2>1, <2>2 DEF Row, Status
<1>5. rows' \in [Webhook -> Row \cup {NoRow}]
  BY <1>4 DEF Cancelled, Inv, TypeOK
<1>6. configs' \in [Config -> {"on", "off", "deleted", "missing"}]
  BY DEF Inv, TypeOK
<1>7. TypeOK'
  BY <1>1, <1>5, <1>6 DEF Inv, TypeOK
<1>8. \A w \in Webhook :
         /\ attempts'[w] = attempts[w] /\ logged'[w] = logged[w]
         /\ \A i \in DOMAIN attempts[w] : attempts[w][i].updated \in Int
  BY AttemptsType DEF Inv, TypeOK, Attempt, Time
<1>9. Ordered'
  BY <1>1, <1>2, <1>4, <1>8 DEF Inv, Ordered, Time
<1>10. Agreed'
  BY <1>4, <1>8 DEF Inv, Agreed, Tells, OutOfDate, ImportedStatus
<1>11. ReadCurrent'
  BY DEF Inv, ReadCurrent
<1>12. Finished'
  <2> SUFFICES ASSUME complete, NEW w \in Webhook, Due(w)' PROVE ~OutOfDate(w)'
    BY DEF Inv, Finished
  <2>1. Due(w)
    BY <1>1, <1>8, BackfillAssumption DEF Due, Time
  <2>2. ~OutOfDate(w)
    BY <2>1 DEF Inv, Finished
  <2> QED
    BY <1>1, <1>2, <1>4, <1>8, <2>2 DEF OutOfDate, Inv, Ordered, Time
<1> QED
  BY <1>7, <1>9, <1>10, <1>11, <1>12 DEF Inv

\* Steps of the command that write nothing.
LEMMA SelectInv == ASSUME Inv, BackfillDeliveries PROVE Inv'
<1> USE DEF BackfillDeliveries, CommandUnchanged
<1>1. CASE Candidates = {} /\ command' = Idle /\ complete' = stopped
  <2>1. TypeOK'
    BY <1>1, IdleType DEF Inv, TypeOK
  <2>2. ReadCurrent'
    BY <1>1 DEF ReadCurrent, Idle
  <2>3. \A w \in Webhook : Due(w)' => ~OutOfDate(w)'
    BY <1>1 DEF Candidates, Due, OutOfDate
  <2>4. Finished'
    BY <1>1, <2>3 DEF Finished, Idle
  <2> QED
    BY <2>1, <2>2, <2>4, TableKept DEF Inv
<1>2. CASE /\ UNCHANGED complete
           /\ \E batch \in kSubset(Limit, Candidates) :
                 command' = [command EXCEPT !.pc = "read", !.batch = batch]
  <2>1. PICK batch \in SUBSET Webhook :
           command' = [command EXCEPT !.pc = "read", !.batch = batch]
    BY <1>2 DEF kSubset, Candidates
  <2>2. command' \in Command /\ command'.pc = "read"
    BY <2>1 DEF Inv, TypeOK, Command
  <2>3. TypeOK'
    BY <1>2, <2>2 DEF Inv, TypeOK
  <2>4. ReadCurrent'
    BY <2>2 DEF ReadCurrent
  <2>5. Finished'
    BY <1>2 DEF Inv, Finished
  <2> QED
    BY <2>3, <2>4, <2>5, TableKept DEF Inv
<1> QED
  BY <1>1, <1>2

\* The command starts, reads the attempts of a webhook, or fails.
LEMMA CommandInv ==
    ASSUME Inv, Start \/ FailRun \/ MissingConfigID \/ \E w \in Webhook : ReadAttempts(w)
    PROVE  Inv'
<1> USE DEF CommandUnchanged
<1>1. CASE Start
  <2>1. command' \in Command /\ command'.pc = "select"
    BY <1>1 DEF Start, Inv, TypeOK, Command
  <2> QED
    BY <1>1, <2>1, TableKept DEF Start, Inv, TypeOK, ReadCurrent, Finished
<1>2. CASE FailRun
  <2>1. command' \in Command /\ command'.pc = "idle"
    BY <1>2, IdleType DEF FailRun, Idle
  <2>2. failures' \in 0..MaxFailures
    BY <1>2, BackfillAssumption DEF FailRun, Inv, TypeOK
  <2> QED
    BY <1>2, <2>1, <2>2, TableKept DEF FailRun, Inv, TypeOK, ReadCurrent, Finished
<1>3. ASSUME NEW w \in Webhook, ReadAttempts(w) PROVE Inv'
  <2>1. /\ command' \in Command /\ command'.pc = "import" /\ command'.webhook = w
        /\ command'.read = attempts'[w]
    BY <1>3 DEF ReadAttempts, Inv, TypeOK, Command
  <2>2. ~complete
    BY <1>3 DEF ReadAttempts, Inv, Finished
  <2> QED
    BY <1>3, <2>1, <2>2, TableKept DEF ReadAttempts, Inv, TypeOK, ReadCurrent, Finished
<1>4. CASE MissingConfigID
  <2>1. command' \in Command /\ command'.pc = "idle"
    BY <1>4, IdleType DEF MissingConfigID, Idle
  <2> QED
    BY <1>4, <2>1, TableKept DEF MissingConfigID, Inv, TypeOK, ReadCurrent, Finished
<1> QED
  BY <1>1, <1>2, <1>3, <1>4

\* The transaction: a delivery imported from the attempts in the table tells
\* them, one from older attempts is older than the table.
LEMMA ImportInv == ASSUME Inv, backfillWebhook PROVE Inv'
<1> DEFINE w == command.webhook
           c == ConfigOf[w]
           read == command.read
           row == Imported(read, ConfigActive(c))
<1> USE DEF CommandUnchanged
<1>1. /\ w \in Webhook /\ read \in Attempts /\ c \in Config
      /\ command.pc = "import" /\ command \in Command
  BY BackfillAssumption DEF backfillWebhook, Inv, TypeOK, Command
<1>2. /\ Len(read) \in 1..MaxAttempts /\ read[Len(read)] \in Attempt
      /\ \A i \in DOMAIN read : read[i] \in Attempt
  BY <1>1, AttemptsType
<1>3. ImportedStatus(read, ConfigActive(c)) \in Status
  BY DEF ImportedStatus, Status
<1>4. /\ row \in Row /\ row.count = Len(read) /\ row.updated = read[Len(read)].updated
      /\ row.status = ImportedStatus(read, ConfigActive(c))
  BY <1>2, <1>3 DEF Imported, Row, Attempt
<1>5. ImportedStatus(read, ConfigActive(c)) \in {"cancelled", ImportedStatus(read, TRUE)}
  BY DEF ImportedStatus
<1>6. /\ rows' = [rows EXCEPT ![w] = row]
      /\ logged' = [logged EXCEPT ![w] = IF @ < Len(read) THEN Len(read) ELSE @]
      /\ configs' = [configs EXCEPT ![c] = IF @ = "missing" THEN "deleted" ELSE @]
      /\ command' = [Idle EXCEPT !.pc = IF command.batch = {w} THEN "select" ELSE "read",
                                 !.batch = command.batch \ {w}]
      /\ UNCHANGED <<now, attempts, unnamed, stopped, failures, complete>>
  BY DEF backfillWebhook
<1>7. ~complete
  BY <1>1 DEF Inv, Finished
<1> HIDE DEF row
<1>8. command' \in Command /\ command'.pc # "import"
  BY <1>1, <1>6, IdleType DEF Command
<1>9. TypeOK'
  <2>1. logged' \in [Webhook -> 0..MaxAttempts]
    BY <1>1, <1>2, <1>6, BackfillAssumption DEF Inv, TypeOK
  <2> QED
    BY <1>1, <1>4, <1>6, <1>8, <2>1 DEF Inv, TypeOK
<1>10. \A v \in Webhook :
          /\ attempts'[v] = attempts[v] /\ Len(attempts[v]) \in DOMAIN attempts[v]
          /\ Len(attempts[v]) \in Nat
          /\ \A i \in DOMAIN attempts[v] :
                attempts[v][i].updated \in Int /\ attempts[v][i].updated =< now
          /\ v # w => rows'[v] = rows[v] /\ logged'[v] = logged[v]
          /\ v = w => /\ rows'[v] = row
                      /\ logged'[v] = IF logged[v] < Len(read) THEN Len(read) ELSE logged[v]
  BY <1>6, AttemptsType DEF Inv, Ordered, TypeOK, Attempt, Time
<1>11. /\ \/ read = attempts[w]
          \/ \E i \in DOMAIN attempts[w] : row.updated < attempts[w][i].updated
       /\ Len(read) =< Len(attempts[w])
       /\ logged[w] =< Len(attempts[w]) /\ logged[w] \in Int
  BY <1>1, <1>2, <1>4, <1>10 DEF Inv, ReadCurrent, Agreed, TypeOK
<1>12. row.updated \in Int /\ now \in Int /\ row.updated =< now
  BY <1>1, <1>4, <1>10, <1>11 DEF Row, Time, Inv, TypeOK
<1>13. Ordered'
  BY <1>6, <1>10, <1>12 DEF Inv, Ordered
<1>14. Agreed'
  <2> SUFFICES ASSUME NEW v \in Webhook
               PROVE  /\ logged'[v] =< Len(attempts'[v])
                      /\ OutOfDate(v)' \/ rows'[v].status = "cancelled" \/ Tells(v)'
    BY DEF Agreed
  <2>1. CASE v # w
    BY <1>10, <2>1 DEF Inv, Agreed, Tells, OutOfDate, ImportedStatus
  <2>2. CASE /\ v = w
             /\ \E i \in DOMAIN attempts[w] : row.updated < attempts[w][i].updated
    <3>1. OutOfDate(v)'
      BY <1>10, <2>2 DEF OutOfDate
    <3> QED
      BY <1>1, <1>2, <1>10, <1>11, <2>2, <3>1
  <2>3. CASE v = w /\ read = attempts[w]
    <3>1. ImportedStatus(attempts'[v], TRUE) = ImportedStatus(read, TRUE)
      BY <1>10, <2>3
    <3>2. logged'[v] = Len(attempts'[v])
      BY <1>2, <1>10, <1>11, <2>3
    <3>3. rows'[v] = row /\ Len(attempts'[v]) = Len(read) /\ Len(read) \in Nat
      BY <1>2, <1>10, <2>3
    <3>4. rows'[v].count = Len(attempts'[v])
      BY <1>4, <3>3
    <3>5. rows'[v].status \in {"cancelled", ImportedStatus(attempts'[v], TRUE)}
      BY <1>4, <1>5, <3>1, <3>3
    <3>6. rows'[v].status = "cancelled" \/ Tells(v)'
      BY <3>2, <3>4, <3>5 DEF Tells
    <3> QED
      BY <3>2, <3>3, <3>6
  <2> QED
    BY <1>11, <2>1, <2>2, <2>3
<1>15. ReadCurrent' /\ Finished'
  BY <1>6, <1>7, <1>8 DEF ReadCurrent, Finished
<1> QED
  BY <1>9, <1>13, <1>14, <1>15 DEF Inv

\* Every step keeps the invariant.
LEMMA NextInv == Inv /\ [Next]_vars => Inv'
<1> SUFFICES ASSUME Inv, [Next]_vars PROVE Inv'
  OBVIOUS
<1>1. CASE Run \/ FailRun
  BY <1>1, CommandInv, SelectInv, ImportInv DEF Run
<1>2. CASE StopWorkers
  BY <1>2, TableKept
  DEF StopWorkers, OldWorkersUnchanged, Inv, TypeOK, ReadCurrent, Finished, Due, OutOfDate
<1>3. CASE \E w \in Webhook :
             InsertAttempt(w) \/ ClaimAttempts(w) \/ UpdateAttemptsStatus(w)
  BY <1>3, InsertAttemptInv, ClaimAttemptsInv, UpdateAttemptsStatusInv
<1>4. CASE \E c \in Config : ActivateConfig(c) \/ DeactivateConfig(c) \/ DeleteConfig(c)
  BY <1>4, SwitchInv DEF ActivateConfig, DeactivateConfig, DeleteConfig
<1>5. CASE Done \/ UNCHANGED vars
  BY <1>5, TableKept
  DEF Done, vars, Inv, TypeOK, ReadCurrent, Finished, Due, OutOfDate
<1> QED
  BY <1>1, <1>2, <1>3, <1>4, <1>5 DEF Next

\* The inductive invariant holds in every state.
LEMMA InvHolds == Spec => []Inv
BY InitInv, NextInv, PTL DEF Spec

\* The tables and the command keep their types.
THEOREM BackfillTypeCorrect == Spec => []TypeOK
<1>1. Inv => TypeOK
  BY DEF Inv
<1> QED
  BY <1>1, InvHolds, PTL

\* When a run has ended well after the old workers have stopped, the deliveries
\* of the webhooks that are due tell what is in the attempts table, however many
\* runs of backfill-deliveries failed and whatever they read before.
THEOREM UpgradeReconciles == Spec => []Reconciled
<1>1. Inv => Reconciled
  <2> SUFFICES ASSUME Inv, complete, NEW w \in Webhook, Due(w)
               PROVE  rows[w].status = "cancelled" \/ Tells(w)
    BY DEF Reconciled, Tells
  <2>1. ~OutOfDate(w)
    BY DEF Inv, Finished
  <2> QED
    BY <2>1 DEF Inv, Agreed
<1> QED
  BY <1>1, InvHolds, PTL

\* A step of the specification leaves no delivery pending under a config that is
\* not active: the switches cancel, backfillWebhook looks at the config it locks.
LEMMA PendingOnlyOnNext == Inv /\ PendingOnlyOn /\ [Next]_vars => PendingOnlyOn'
<1> SUFFICES ASSUME Inv, PendingOnlyOn, [Next]_vars PROVE PendingOnlyOn'
  OBVIOUS
<1>1. CASE \E c \in Config : ActivateConfig(c) \/ DeactivateConfig(c) \/ DeleteConfig(c)
  <2>1. PICK c \in Config, from \in SUBSET {"on", "off"}, to \in {"on", "off", "deleted"} :
           Switch(c, from, to)
    BY <1>1 DEF ActivateConfig, DeactivateConfig, DeleteConfig
  <2>2. configs' = [configs EXCEPT ![c] = to] /\ configs \in [Config -> {"on", "off", "deleted", "missing"}]
    BY <2>1 DEF Switch, Inv, TypeOK
  <2>3. CASE to = "on"
    BY <2>1, <2>2, <2>3, BackfillAssumption DEF Switch, PendingOnlyOn
  <2>4. CASE to # "on"
    <3>1. rows' = Cancelled(c)
      BY <2>1, <2>4 DEF Switch
    <3> SUFFICES ASSUME NEW w \in Webhook, rows'[w].status = "pending"
                 PROVE  configs'[ConfigOf[w]] = "on"
      BY DEF PendingOnlyOn
    <3>2. rows[w] \in Row \cup {NoRow}
      BY DEF Inv, TypeOK
    <3>3. ~(ConfigOf[w] = c /\ rows[w].status = "pending")
      <4> SUFFICES ASSUME ConfigOf[w] = c, rows[w].status = "pending" PROVE FALSE
        OBVIOUS
      <4>1. rows[w] \in Row
        BY <3>2 DEF NoRow
      <4>2. rows'[w] = [rows[w] EXCEPT !.status = "cancelled", !.updated = now + 1]
        BY <3>1 DEF Cancelled
      <4>3. rows'[w].status = "cancelled"
        BY <4>1, <4>2 DEF Row
      <4> QED
        BY <4>3
    <3>4. rows'[w] = rows[w]
      BY <3>1, <3>3 DEF Cancelled
    <3> QED
      BY <2>2, <3>3, <3>4, BackfillAssumption DEF PendingOnlyOn
  <2> QED
    BY <2>3, <2>4
<1>2. CASE backfillWebhook
  <2> SUFFICES ASSUME NEW v \in Webhook, rows'[v].status = "pending"
               PROVE  configs'[ConfigOf[v]] = "on"
    BY DEF PendingOnlyOn
  <2> DEFINE w == command.webhook
  <2>1. /\ rows' = [rows EXCEPT ![w] = Imported(command.read, ConfigActive(ConfigOf[w]))]
        /\ configs' = [configs EXCEPT ![ConfigOf[w]] = IF @ = "missing" THEN "deleted" ELSE @]
    BY <1>2 DEF backfillWebhook
  <2>2. /\ configs \in [Config -> {"on", "off", "deleted", "missing"}] /\ ConfigOf[v] \in Config
        /\ rows \in [Webhook -> Row \cup {NoRow}]
    BY BackfillAssumption DEF Inv, TypeOK
  <2>3. configs[ConfigOf[v]] = "on"
    <3>1. CASE v # w
      BY <2>1, <2>2, <3>1 DEF PendingOnlyOn
    <3>2. CASE v = w
      <4>1. rows'[v].status = ImportedStatus(command.read, ConfigActive(ConfigOf[v]))
        BY <2>1, <2>2, <3>2 DEF Imported
      <4> QED
        BY <4>1 DEF ImportedStatus, ConfigActive
    <3> QED
      BY <3>1, <3>2
  <2> QED
    BY <2>1, <2>2, <2>3
<1>3. CASE UNCHANGED <<rows, configs>>
  BY <1>3 DEF PendingOnlyOn
<1>4. CASE Run \/ FailRun \/ StopWorkers \/ Done \/ UNCHANGED vars
           \/ \E w \in Webhook :
                 InsertAttempt(w) \/ ClaimAttempts(w) \/ UpdateAttemptsStatus(w)
  BY <1>2, <1>3, <1>4
  DEF Run, Start, BackfillDeliveries, ReadAttempts, FailRun, StopWorkers, Done, vars,
      MissingConfigID, OldWorkersUnchanged, InsertAttempt, ClaimAttempts,
      UpdateAttemptsStatus
<1> QED
  BY <1>1, <1>4 DEF Next

\* No delivery is pending under a config that is off, deleted or missing.
THEOREM ImportsRespectConfigs == Spec => []PendingOnlyOn
<1>1. Init => PendingOnlyOn
  BY DEF Init, PendingOnlyOn, NoRow
<1> QED
  BY <1>1, InvHolds, PendingOnlyOnNext, PTL DEF Spec
=============================================================================
