------------------------ MODULE ConfigContentsProofs ------------------------
(***************************************************************************)
(* Proofs about ConfigContents, for any number of rotations and senders    *)
(* and any sets of endpoints and secrets.                                  *)
(***************************************************************************)
EXTENDS ConfigContents, TLAPS

\* A process under way has seen what it read: a sender the whole of it, a
\* rotation to the secret that was there already too; and there is a config.
ReadSeen ==
    \A p \in Process :
        procs[p].kind # "idle" =>
            /\ row.state # "absent"
            /\ procs[p].kind = "rotate" /\ Unmodified(p) => procs[p].read \in held[p]
            /\ procs[p].kind # "rotate" => procs[p].read \in held[p]

Inv == TypeOK /\ UpdatesSurvive /\ ReadSeen /\ SignedTogether /\ RotationTrue

\* The values used before the first insertion exist.
LEMMA AnyContentsType == AnyContents \in Contents
<1>1. PICK endpoint \in Endpoint, secret \in Secret : TRUE
  BY ConfigContentsAssumption
<1>2. [endpoint |-> endpoint, secret |-> secret] \in Contents
  BY DEF Contents
<1> QED
  BY <1>2 DEF AnyContents

\* A config that is written is a row, and its contents are contents.
LEMMA ContentsType ==
    ASSUME NEW config \in Row PROVE ContentsOf(config) \in Contents
BY DEF Row, ContentsOf, Contents

\* What a process sees grows, by contents only.
LEMMA SeenType ==
    ASSUME TypeOK, row' \in Row, NEW p \in Process, NEW proc
    PROVE  /\ Seen(p, proc) \in SUBSET Contents
           /\ held[p] \subseteq Seen(p, proc)
           /\ Justifies(row', proc) => ContentsOf(row') \in Seen(p, proc)
BY ContentsType DEF TypeOK, Seen

\* Observe keeps the type of held.
LEMMA ObserveType ==
    ASSUME TypeOK, row' \in Row, Observe
    PROVE  held' \in [Process -> SUBSET Contents]
<1>1. \A p \in Process : Seen(p, procs'[p]) \in SUBSET Contents
  BY SeenType
<1> QED
  BY <1>1 DEF Observe

\* A step that starts no process and leaves a config where there was one keeps
\* what is known of the others.
LEMMA ReadSeenKept ==
    ASSUME Inv, row' \in Row, Observe, row.state # "absent" => row'.state # "absent",
           procs' \in [Process -> Proc],
           \A p \in Process : procs'[p] = procs[p] \/ procs'[p].kind = "idle"
    PROVE  ReadSeen'
<1> SUFFICES ASSUME NEW p \in Process, procs'[p].kind # "idle"
             PROVE  /\ row'.state # "absent"
                    /\ procs'[p].kind = "rotate" /\ Unmodified(p)'
                          => procs'[p].read \in held'[p]
                    /\ procs'[p].kind # "rotate" => procs'[p].read \in held'[p]
  BY DEF ReadSeen
<1>1. procs'[p] = procs[p]
  OBVIOUS
<1>2. held'[p] = Seen(p, procs'[p])
  BY DEF Observe
<1>3. held[p] \subseteq held'[p]
  BY <1>2, SeenType DEF Inv
<1> QED
  BY <1>1, <1>3 DEF Inv, ReadSeen, Unmodified

\* The initial state satisfies the invariant.
LEMMA InitInv == Init => Inv
<1> SUFFICES ASSUME Init PROVE Inv
  OBVIOUS
<1>1. AnyContents.endpoint \in Endpoint /\ AnyContents.secret \in Secret
  BY AnyContentsType DEF Contents
<1>2. Idle \in Proc
  BY <1>1, AnyContentsType DEF Idle, Proc, Kind
<1>3. NoOutput \in Output
  BY AnyContentsType DEF NoOutput, Output, Kind
<1>4. TypeOK
  BY <1>1, <1>2, <1>3 DEF Init, TypeOK, Row
<1>5. ReadSeen
  BY DEF Init, ReadSeen, Idle
<1>6. UpdatesSurvive /\ SignedTogether /\ RotationTrue
  BY DEF Init, UpdatesSurvive, SignedTogether, RotationTrue, NoOutput, Kind
<1> QED
  BY <1>4, <1>5, <1>6 DEF Inv

\* A request of the API that is handled in one step keeps the invariant if the
\* row it leaves is one, is not absent, and has the endpoint of the last update.
LEMMA HandledInv ==
    ASSUME Inv, Handled, row' \in Row, updated' \in Endpoint,
           row.state # "absent" => row'.state # "absent",
           row'.state # "absent" => row'.endpoint = updated'
    PROVE  Inv'
<1>1. NoOutput \in Output /\ NoOutput.kind = "none"
  BY AnyContentsType DEF NoOutput, Output, Kind
<1>2. TypeOK'
  BY <1>1, ObserveType DEF Inv, TypeOK, Handled
<1>3. ReadSeen'
  BY ReadSeenKept DEF Inv, TypeOK, Handled
<1>4. UpdatesSurvive' /\ SignedTogether' /\ RotationTrue'
  BY <1>1 DEF Handled, UpdatesSurvive, SignedTogether, RotationTrue
<1> QED
  BY <1>2, <1>3, <1>4 DEF Inv

\* A process that reads the config has seen what it read.
LEMMA BeginInv ==
    ASSUME Inv, NEW p \in Process, NEW kind \in Kind, Begin(p, kind)
    PROVE  Inv'
<1>1. PICK secret \in Secret :
         procs' = [procs EXCEPT ![p] =
             [kind |-> kind, secret |-> secret, read |-> ContentsOf(row)]]
  BY DEF Begin
<1>2. row' = row /\ updated' = updated /\ out' = NoOutput /\ Observe /\ Live
  BY DEF Begin, FindManyConfigs, Live
<1>3. ContentsOf(row) \in Contents /\ row \in Row
  BY ContentsType DEF Inv, TypeOK
<1>4. NoOutput \in Output /\ NoOutput.kind = "none"
  BY AnyContentsType DEF NoOutput, Output, Kind
<1>5. procs' \in [Process -> Proc]
  BY <1>1, <1>3 DEF Inv, TypeOK, Proc
<1>6. TypeOK'
  BY <1>2, <1>3, <1>4, <1>5, ObserveType DEF Inv, TypeOK
<1>7. ReadSeen'
  <2> SUFFICES ASSUME NEW q \in Process, procs'[q].kind # "idle"
               PROVE  /\ row'.state # "absent"
                      /\ procs'[q].kind = "rotate" /\ Unmodified(q)'
                            => procs'[q].read \in held'[q]
                      /\ procs'[q].kind # "rotate" => procs'[q].read \in held'[q]
    BY DEF ReadSeen
  <2>1. held'[q] = Seen(q, procs'[q])
    BY <1>2 DEF Observe
  <2>2. CASE q = p
    <3>1. /\ procs'[q].kind = kind /\ procs'[q].secret = secret
          /\ procs'[q].read = ContentsOf(row)
      BY <1>1, <2>2 DEF Inv, TypeOK
    <3>2. kind = "rotate" /\ Unmodified(q)' => Justifies(row', procs'[q])
      BY <1>2, <3>1 DEF Unmodified, Justifies, ContentsOf, Live
    <3>3. kind # "rotate" => Justifies(row', procs'[q])
      BY <1>2, <3>1 DEF Begin, FindManyConfigs, Justifies, Live
    <3>4. Justifies(row', procs'[q]) => ContentsOf(row') \in held'[q]
      BY <1>2, <1>3, <2>1, SeenType DEF Inv
    <3> QED
      BY <1>2, <3>1, <3>2, <3>3, <3>4 DEF Live
  <2>3. CASE q # p
    <3>1. procs'[q] = procs[q]
      BY <1>1, <2>3 DEF Inv, TypeOK
    <3>2. held[q] \subseteq held'[q]
      BY <1>2, <1>3, <2>1, SeenType DEF Inv
    <3> QED
      BY <1>2, <3>1, <3>2 DEF Inv, ReadSeen, Unmodified
  <2> QED
    BY <2>2, <2>3
<1>8. UpdatesSurvive' /\ SignedTogether' /\ RotationTrue'
  BY <1>2, <1>4 DEF Inv, UpdatesSurvive, SignedTogether, RotationTrue
<1> QED
  BY <1>6, <1>7, <1>8 DEF Inv

\* A rotation that writes answers a secret in force, or finds the config deleted.
LEMMA RotateInv ==
    ASSUME Inv, NEW p \in Process, UpdateOneConfigSecret(p)
    PROVE  Inv'
<1> DEFINE says == [procs[p].read EXCEPT !.secret = procs[p].secret]
<1>1. /\ procs[p].kind = "rotate" /\ procs[p].read \in Contents
      /\ procs[p].secret \in Secret /\ procs[p] \in Proc
  BY DEF UpdateOneConfigSecret, Inv, TypeOK, Proc
<1>2. row \in Row /\ row.state # "absent"
  BY <1>1 DEF Inv, TypeOK, ReadSeen
<1>3. /\ row' \in Row /\ row'.state = row.state /\ row'.endpoint = row.endpoint
      /\ ~Unmodified(p) /\ Live => row'.secret = procs[p].secret
  BY <1>1, <1>2 DEF UpdateOneConfigSecret, Rotated, Row
<1>4. /\ procs' = [procs EXCEPT ![p] = Idle] /\ updated' = updated /\ Observe
      /\ out' = [kind |-> "rotate", says |-> says, held |-> Seen(p, procs[p])]
  BY <1>1 DEF UpdateOneConfigSecret, Finish
<1>5. Idle \in Proc /\ Idle.kind = "idle"
  BY AnyContentsType DEF Idle, Proc, Kind, Contents
<1>6. procs' \in [Process -> Proc]
  BY <1>4, <1>5 DEF Inv, TypeOK
<1>7. says \in Contents /\ says.secret = procs[p].secret
  BY <1>1 DEF Contents
<1>8. /\ Seen(p, procs[p]) \in SUBSET Contents
      /\ held[p] \subseteq Seen(p, procs[p])
      /\ Justifies(row', procs[p]) => ContentsOf(row') \in Seen(p, procs[p])
  BY <1>3, SeenType DEF Inv
<1>9. out' \in Output
  BY <1>4, <1>7, <1>8 DEF Output, Kind
<1>10. TypeOK'
  BY <1>3, <1>4, <1>6, <1>9, ObserveType DEF Inv, TypeOK
<1>11. ReadSeen'
  BY <1>2, <1>3, <1>4, <1>5, <1>6, ReadSeenKept DEF Inv, TypeOK
<1>12. RotationTrue'
  <2>1. CASE Unmodified(p)
    <3>1. procs[p].read \in held[p] /\ procs[p].read.secret = says.secret
      BY <1>1, <1>7, <2>1 DEF Inv, ReadSeen, Unmodified
    <3> QED
      BY <1>4, <1>8, <3>1 DEF RotationTrue
  <2>2. CASE ~Unmodified(p) /\ Live
    <3>1. Justifies(row', procs[p])
      BY <1>1, <1>3, <2>2 DEF Justifies, Live
    <3>2. ContentsOf(row').secret = says.secret
      BY <1>3, <1>7, <2>2 DEF ContentsOf
    <3> QED
      BY <1>4, <1>8, <3>1, <3>2 DEF RotationTrue
  <2>3. CASE ~Live
    BY <1>2, <1>3, <2>3 DEF RotationTrue, Live, Row
  <2> QED
    BY <2>1, <2>2, <2>3
<1>13. UpdatesSurvive' /\ SignedTogether'
  BY <1>2, <1>3, <1>4 DEF Inv, UpdatesSurvive, SignedTogether
<1> QED
  BY <1>10, <1>11, <1>12, <1>13 DEF Inv

\* A sender signs and sends what it read, which it has seen.
LEMMA MakeAttemptInv ==
    ASSUME Inv, NEW p \in Process, MakeAttempt(p)
    PROVE  Inv'
<1>1. /\ procs[p].kind \in {"deliver", "test"} /\ procs[p].read \in Contents
      /\ procs[p].read \in held[p] /\ row \in Row
  BY DEF MakeAttempt, Inv, TypeOK, ReadSeen, Proc
<1>2. /\ row' = row /\ updated' = updated /\ Observe
      /\ procs' = [procs EXCEPT ![p] = Idle]
      /\ out' = [kind |-> procs[p].kind, says |-> procs[p].read,
                 held |-> Seen(p, procs[p])]
  BY DEF MakeAttempt, Finish, Signed
<1>3. Idle \in Proc /\ Idle.kind = "idle"
  BY AnyContentsType DEF Idle, Proc, Kind, Contents
<1>4. procs' \in [Process -> Proc]
  BY <1>2, <1>3 DEF Inv, TypeOK
<1>5. Seen(p, procs[p]) \in SUBSET Contents /\ held[p] \subseteq Seen(p, procs[p])
  BY <1>1, <1>2, SeenType DEF Inv
<1>6. out' \in Output
  BY <1>1, <1>2, <1>5 DEF Output, Kind
<1>7. TypeOK'
  BY <1>1, <1>2, <1>4, <1>6, ObserveType DEF Inv, TypeOK
<1>8. ReadSeen'
  BY <1>1, <1>2, <1>3, <1>4, ReadSeenKept DEF Inv, TypeOK
<1>9. UpdatesSurvive' /\ SignedTogether' /\ RotationTrue'
  BY <1>1, <1>2, <1>5 DEF Inv, UpdatesSurvive, SignedTogether, RotationTrue
<1> QED
  BY <1>7, <1>8, <1>9 DEF Inv

\* A process that fails leaves nothing behind.
LEMMA FailInv ==
    ASSUME Inv, NEW p \in Process, Fail(p)
    PROVE  Inv'
<1>1. /\ row' = row /\ updated' = updated /\ Observe /\ out' = NoOutput
      /\ procs' = [procs EXCEPT ![p] = Idle] /\ row \in Row
  BY DEF Fail, Inv, TypeOK
<1>2. Idle \in Proc /\ Idle.kind = "idle"
  BY AnyContentsType DEF Idle, Proc, Kind, Contents
<1>3. NoOutput \in Output /\ NoOutput.kind = "none"
  BY AnyContentsType DEF NoOutput, Output, Kind
<1>4. procs' \in [Process -> Proc]
  BY <1>1, <1>2 DEF Inv, TypeOK
<1>5. TypeOK'
  BY <1>1, <1>3, <1>4, ObserveType DEF Inv, TypeOK
<1>6. ReadSeen'
  BY <1>1, <1>2, <1>4, ReadSeenKept DEF Inv, TypeOK
<1>7. UpdatesSurvive' /\ SignedTogether' /\ RotationTrue'
  BY <1>1, <1>3 DEF Inv, UpdatesSurvive, SignedTogether, RotationTrue
<1> QED
  BY <1>5, <1>6, <1>7 DEF Inv

\* Every step keeps the invariant.
LEMMA NextInv == Inv /\ [Next]_vars => Inv'
<1> SUFFICES ASSUME Inv, [Next]_vars PROVE Inv'
  OBVIOUS
<1>1. row \in Row /\ updated \in Endpoint /\ Rotation \cup Sender = Process
  BY DEF Inv, TypeOK, Process
<1>2. CASE insertOneConfigHandle
  <2>1. PICK endpoint \in Endpoint, secret \in Secret :
           InsertOneConfig(endpoint, secret) /\ Handled
    BY <1>2 DEF insertOneConfigHandle
  <2> QED
    BY <2>1, HandledInv DEF InsertOneConfig, Row
<1>3. CASE updateOneConfigHandle
  <2>1. PICK endpoint \in Endpoint, secret \in Secret :
           UpdateOneConfig(endpoint, secret) /\ Handled
    BY <1>3 DEF updateOneConfigHandle
  <2>2. CASE Live
    <3>1. /\ row' = [row EXCEPT !.endpoint = endpoint, !.secret = secret]
          /\ updated' = endpoint
      BY <2>1, <2>2 DEF UpdateOneConfig
    <3> QED
      BY <1>1, <2>1, <3>1, HandledInv DEF Row
  <2>3. CASE ~Live
    BY <1>1, <2>1, <2>3, HandledInv DEF UpdateOneConfig, Inv, UpdatesSurvive
  <2> QED
    BY <2>2, <2>3
<1>4. CASE activateOneConfigHandle \/ deactivateOneConfigHandle
  <2>1. PICK state \in {"on", "off"} : UpdateOneConfigActivation(state) /\ Handled
    BY <1>4 DEF activateOneConfigHandle, deactivateOneConfigHandle
  <2> QED
    BY <1>1, <2>1, HandledInv
    DEF UpdateOneConfigActivation, Live, Row, Inv, UpdatesSurvive
<1>5. CASE deleteOneConfigHandle
  BY <1>1, <1>5, HandledInv
  DEF deleteOneConfigHandle, DeleteOneConfig, Live, Row, Inv, UpdatesSurvive
<1>6. CASE \E p \in Rotation : changeSecretHandle(p) \/ UpdateOneConfigSecret(p)
  BY <1>1, <1>6, BeginInv, RotateInv DEF changeSecretHandle, Kind
<1>7. CASE \E p \in Sender :
             dispatchOne(p) \/ testOneConfigHandle(p) \/ MakeAttempt(p)
  BY <1>1, <1>7, BeginInv, MakeAttemptInv DEF dispatchOne, testOneConfigHandle, Kind
<1>8. CASE \E p \in Process : Fail(p)
  BY <1>8, FailInv
<1>9. CASE UNCHANGED vars
  BY <1>9 DEF vars, Inv, TypeOK, UpdatesSurvive, ReadSeen, Unmodified,
              SignedTogether, RotationTrue
<1> QED
  BY <1>2, <1>3, <1>4, <1>5, <1>6, <1>7, <1>8, <1>9 DEF Next

\* The inductive invariant holds in every state.
LEMMA InvHolds == Spec => []Inv
BY InitInv, NextInv, PTL DEF Spec

\* Rows, processes and outputs keep their types.
THEOREM ContentsTypeCorrect == Spec => []TypeOK
<1>1. Inv => TypeOK
  BY DEF Inv
<1> QED
  BY <1>1, InvHolds, PTL

\* What dispatchOne and the test endpoint send was in the row together, however
\* many updates and rotations run beside them.
THEOREM SentTogether == Spec => []SignedTogether
<1>1. Inv => SignedTogether
  BY DEF Inv
<1> QED
  BY <1>1, InvHolds, PTL

\* UpdateOneConfigSecret answers a secret that was in force, unless the config
\* was deleted meanwhile.
THEOREM RotationsTrue == Spec => []RotationTrue
<1>1. Inv => RotationTrue
  BY DEF Inv
<1> QED
  BY <1>1, InvHolds, PTL

\* No rotation, activation or deletion undoes an UpdateOneConfig.
THEOREM NoUpdateLost == Spec => []UpdatesSurvive
<1>1. Inv => UpdatesSurvive
  BY DEF Inv
<1> QED
  BY <1>1, InvHolds, PTL

\* No statement changes a row whose deleted_at is set.
THEOREM DeletedStays == Spec => DeletedFrozen
<1>1. [Next]_vars => [row.state = "deleted" => row' = row]_vars
  <2> SUFFICES ASSUME [Next]_vars, row.state = "deleted" PROVE row' = row
    BY DEF vars
  <2>1. ~Live
    BY DEF Live
  <2>2. CASE \E p \in Rotation : changeSecretHandle(p) \/ UpdateOneConfigSecret(p)
    BY <2>1, <2>2 DEF changeSecretHandle, Begin, UpdateOneConfigSecret, Rotated
  <2>3. CASE \E p \in Sender :
               dispatchOne(p) \/ testOneConfigHandle(p) \/ MakeAttempt(p)
    BY <2>3 DEF dispatchOne, testOneConfigHandle, Begin, MakeAttempt
  <2>4. CASE \/ insertOneConfigHandle \/ updateOneConfigHandle
             \/ activateOneConfigHandle \/ deactivateOneConfigHandle
             \/ deleteOneConfigHandle
    BY <2>1, <2>4
    DEF insertOneConfigHandle, InsertOneConfig, updateOneConfigHandle, UpdateOneConfig,
        activateOneConfigHandle, deactivateOneConfigHandle,
        UpdateOneConfigActivation, deleteOneConfigHandle, DeleteOneConfig
  <2>5. CASE \E p \in Process : Fail(p)
    BY <2>5 DEF Fail
  <2>6. CASE UNCHANGED vars
    BY <2>6 DEF vars
  <2> QED
    BY <2>2, <2>3, <2>4, <2>5, <2>6 DEF Next
<1> QED
  BY <1>1, PTL DEF Spec, DeletedFrozen
=============================================================================
