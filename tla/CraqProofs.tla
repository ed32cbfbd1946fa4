---------------------------- MODULE CraqProofs ----------------------------
(***************************************************************************)
(* Proofs about Craq's writes, for every chain length, payload set, bound  *)
(* and number of transports, with or without orphaned requests.            *)
(***************************************************************************)
EXTENDS Craq, TLAPS

(* A request HEAD makes up, and the one a target forwards, are calls.      *)
LEMMA HeadCallType ==
  ASSUME TypeOK, NEW stage \in {"prepare", "remove"}, NEW s \in BOOLEAN,
         NEW d \in Value \cup {Absent}
  PROVE  [req |-> headReq(stage, s), data |-> d, live |-> TRUE] \in Call
BY Zenon DEF TypeOK, headReq, Call, ReplicaWrite

LEMMA ForwardType ==
  ASSUME NEW i, NEW c \in Call, NEW v \in Nat
  PROVE  /\ forwardReplica(i, c, v) \in Call
         /\ forwardReplica(i, c, v).req.UpdateVer = v
         /\ forwardReplica(i, c, v).live
BY Zenon DEF forwardReplica, Call, ReplicaWrite

LEMMA NoCallType == NoCall \in Call /\ ~NoCall.live
BY Zenon DEF NoCall, Call, ReplicaWrite

LEMMA OrphanType ==
  ASSUME NEW c \in Call
  PROVE  /\ [c EXCEPT !.live = FALSE] \in Call
         /\ [c EXCEPT !.live = FALSE].live = FALSE
         /\ [c EXCEPT !.live = FALSE].req = c.req
BY Zenon DEF Call

(* Every variable keeps its type.                                          *)
LEMMA InitType == Init => TypeOK
<1> SUFFICES ASSUME Init PROVE TypeOK
  OBVIOUS
<1>1. UpdateVer \in [Target -> Nat] /\ CommitVer \in [Target -> Nat]
      /\ State \in [Target -> {"none", "pending", "committed"}]
      /\ chunks \in [Target -> Value \cup {Absent}]
  BY Zenon DEF Init
<1>2. okKeys \in [Target -> SUBSET ReplicaWrite] /\ errKeys \in [Target -> SUBSET ReplicaWrite]
  BY Zenon DEF Init
<1>3. pc \in [Target -> Control]
  BY Zenon DEF Init, Control
<1>4. call \in [Target -> Call]
  BY Zenon, NoCallType DEF Init
<1>5. ver \in [Target -> Nat] /\ tries \in [Target -> Nat] /\ chainVer \in Nat
  BY Zenon DEF Init
<1>6. inbox \in [Target -> SUBSET Call]
  BY Zenon DEF Init
<1>7. pending \in BOOLEAN
  BY Zenon DEF Init
<1>8. acks \in SUBSET Ack
  BY Zenon DEF Init
<1> QED
  BY <1>1, <1>2, <1>3, <1>4, <1>5, <1>6, <1>7, <1>8, Zenon DEF TypeOK

LEMMA ReplyType ==
  ASSUME TypeOK, NEW i \in Target, NEW c \in Call,
         NEW res \in {"acked", "failed"}, Reply(i, c, res)
  PROVE  pc' \in [Target -> Control]
BY Zenon DEF TypeOK, Reply, Control

LEMMA ReturnOkType ==
  ASSUME TypeOK, NEW i \in Target, NEW c \in Call, NEW v \in Nat,
         NEW cached \in BOOLEAN, ReturnOk(i, c, v, cached)
  PROVE  pc' \in [Target -> Control] /\ pending' \in BOOLEAN /\ acks' \in SUBSET Ack
<1>1. pc' \in [Target -> Control]
  BY Zenon, ReplyType DEF ReturnOk
<1>2. CASE i # HEAD
  BY Zenon, <1>1, <1>2 DEF ReturnOk, TypeOK, Ack
<1>3. CASE i = HEAD
  <2> USE <1>3 DEF ReturnOk, HeadOk, TypeOK
  <2>1. pending' \in BOOLEAN
    <3>1. pending \in BOOLEAN
      OBVIOUS
    <3>2. pending' \in {FALSE, TRUE, pending}
      BY Zenon DEF Call, ReplicaWrite
    <3> QED BY <3>1, <3>2, Zenon
  <2>2. [data |-> c.data, ver |-> v, cached |-> cached] \in Ack
    BY Zenon DEF Ack, Call
  <2>3. acks' \in SUBSET Ack
    BY <2>2 DEF Ack
  <2> QED BY Zenon, <1>1, <2>1, <2>3
<1> QED BY Zenon, <1>2, <1>3

LEMMA ReturnErrType ==
  ASSUME TypeOK, NEW i \in Target, NEW c \in Call, ReturnErr(i, c)
  PROVE  pc' \in [Target -> Control] /\ pending' \in BOOLEAN /\ acks' \in SUBSET Ack
BY Zenon, ReplyType DEF ReturnErr, TypeOK, Ack

LEMMA HoldType ==
  ASSUME TypeOK, NEW i \in Target, NEW c \in Call, NEW v \in Nat, NEW k \in Nat,
         Hold(i, c, v, k)
  PROVE  call' \in [Target -> Call] /\ ver' \in [Target -> Nat] /\ tries' \in [Target -> Nat]
BY Zenon DEF TypeOK, Hold

LEMMA ForwardKeepsType ==
  ASSUME TypeOK, NEW i \in Target, NEW c \in Call, NEW v \in Nat,
         NEW box \in [Target -> SUBSET Call], Forward(i, c, v, box)
  PROVE  pc' \in [Target -> Control] /\ inbox' \in [Target -> SUBSET Call]
<1>1. CASE i = TAIL
  BY Zenon, <1>1 DEF Forward, TypeOK, Control
<1>2. CASE i # TAIL
  <2>1. i + 1 \in Target
    BY <1>2, ConstantsOK DEF Target, TAIL
  <2>2. forwardReplica(i, c, v) \in Call
    BY Zenon, ForwardType
  <2> QED BY <1>2, <2>1, <2>2 DEF Forward, TypeOK, Control
<1> QED BY Zenon, <1>1, <1>2

LEMMA RememberType ==
  ASSUME TypeOK, NEW i \in Target, NEW key \in ReplicaWrite,
         rememberOk(i, key) \/ rememberErr(i, key)
  PROVE  okKeys' \in [Target -> SUBSET ReplicaWrite] /\ errKeys' \in [Target -> SUBSET ReplicaWrite]
BY DEF TypeOK, rememberOk, rememberErr

LEMMA NextType == TypeOK /\ [WriteNext]_vars => TypeOK'
<1> SUFFICES ASSUME TypeOK, [WriteNext]_vars PROVE TypeOK'
  OBVIOUS
<1> USE ConstantsOK
<1>1. ASSUME NEW v \in Value, putChunk(v) PROVE TypeOK'
  <2>1. inbox' \in [Target -> SUBSET Call]
    BY Zenon, <1>1, HeadCallType DEF putChunk, Enter, TypeOK, Target, HEAD
  <2> QED BY Zenon, <1>1, <2>1 DEF putChunk, TypeOK, metaVars, idemVars, lockVars
<1>2. CASE repairChunk
  <2>1. PICK d \in Value :
          /\ chunks' \in {chunks, [chunks EXCEPT ![HEAD] = d]}
          /\ Enter(headReq("prepare", TRUE), d)
    BY Zenon, <1>2 DEF repairChunk
  <2>0. [req |-> headReq("prepare", TRUE), data |-> d, live |-> TRUE] \in Call
    BY Zenon, HeadCallType
  <2>2. inbox' \in [Target -> SUBSET Call]
    BY Zenon, <2>0, <2>1 DEF Enter, TypeOK, Target, HEAD
  <2>3. chunks' \in [Target -> Value \cup {Absent}]
    BY Zenon, <2>1 DEF TypeOK
  <2> QED BY Zenon, <1>2, <2>2, <2>3 DEF repairChunk, TypeOK, metaVars, idemVars, lockVars
<1>3. CASE raiseChainVer
  BY <1>3 DEF raiseChainVer, TypeOK, metaVars, idemVars, lockVars
<1>4. ASSUME NEW i \in Target, NEW c \in inbox[i], Cached(i, c) PROVE TypeOK'
  <2>1. c \in Call /\ CommitVer[i] \in Nat
    BY Zenon DEF TypeOK
  <2>2. inbox' \in [Target -> SUBSET Call]
    BY Zenon, <1>4 DEF Cached, TypeOK
  <2>3. pc' \in [Target -> Control] /\ pending' \in BOOLEAN /\ acks' \in SUBSET Ack
    BY Zenon, <1>4, <2>1, ReturnOkType, ReturnErrType DEF Cached
  <2> QED BY Zenon, <1>4, <2>2, <2>3 DEF Cached, TypeOK, metaVars, idemVars, lockVars
<1>5. ASSUME NEW i \in Target, NEW c \in inbox[i], PrepareFails(i, c) PROVE TypeOK'
  <2>1. c \in Call /\ idempotencyKey(c.req) \in ReplicaWrite
    BY DEF TypeOK, Call, idempotencyKey
  <2>2. inbox' \in [Target -> SUBSET Call]
    BY Zenon, <1>5 DEF PrepareFails, TypeOK
  <2>3. pc' \in [Target -> Control] /\ pending' \in BOOLEAN /\ acks' \in SUBSET Ack
    BY Zenon, <1>5, <2>1, ReturnErrType DEF PrepareFails
  <2>4. okKeys' \in [Target -> SUBSET ReplicaWrite] /\ errKeys' \in [Target -> SUBSET ReplicaWrite]
    BY Zenon, <1>5, <2>1, RememberType DEF PrepareFails
  <2> QED BY Zenon, <1>5, <2>2, <2>3, <2>4 DEF PrepareFails, TypeOK, metaVars, lockVars
<1>6. ASSUME NEW i \in Target, NEW c \in inbox[i], StoreData(i, c) PROVE TypeOK'
  <2>1. c \in Call /\ c.data \in Value \cup {Absent} /\ updateVerOf(i, c) \in Nat
    BY DEF TypeOK, Call, ReplicaWrite, updateVerOf
  <2>2. inbox' \in [Target -> SUBSET Call] /\ chunks' \in [Target -> Value \cup {Absent}]
        /\ pc' \in [Target -> Control]
    BY Zenon, <1>6, <2>1 DEF StoreData, TypeOK, Control
  <2>3. call' \in [Target -> Call] /\ ver' \in [Target -> Nat] /\ tries' \in [Target -> Nat]
    BY Zenon, <1>6, <2>1, HoldType DEF StoreData
  <2> QED BY Zenon, <1>6, <2>2, <2>3 DEF StoreData, TypeOK, metaVars, idemVars
<1>7. ASSUME NEW i \in Target, NEW c \in inbox[i], SkipPrepare(i, c) PROVE TypeOK'
  <2>1. c \in Call /\ UpdateVer[i] \in Nat /\ [inbox EXCEPT ![i] = @ \ {c}] \in [Target -> SUBSET Call]
    BY Zenon DEF TypeOK
  <2>2. pc' \in [Target -> Control] /\ inbox' \in [Target -> SUBSET Call]
    BY Zenon, <1>7, <2>1, ForwardKeepsType DEF SkipPrepare
  <2>3. call' \in [Target -> Call] /\ ver' \in [Target -> Nat] /\ tries' \in [Target -> Nat]
    BY Zenon, <1>7, <2>1, HoldType DEF SkipPrepare
  <2> QED BY Zenon, <1>7, <2>2, <2>3 DEF SkipPrepare, TypeOK, metaVars, idemVars
<1>8. ASSUME NEW i \in Target, SetPending(i) PROVE TypeOK'
  <2>1. pc' \in [Target -> Control] /\ inbox' \in [Target -> SUBSET Call]
    BY Zenon, <1>8, ForwardKeepsType DEF SetPending, TypeOK
  <2>2. UpdateVer' \in [Target -> Nat] /\ State' \in [Target -> {"none", "pending", "committed"}]
    BY Zenon, <1>8 DEF SetPending, TypeOK
  <2> QED BY Zenon, <1>8, <2>1, <2>2 DEF SetPending, TypeOK, idemVars, lockVars
<1>9. ASSUME NEW i \in Target \ {TAIL}, LoseRequest(i) PROVE TypeOK'
  <2>1. PICK c \in inbox[i + 1] : inbox' = [inbox EXCEPT ![i + 1] = @ \ {c}]
    BY Zenon, <1>9 DEF LoseRequest
  <2>2. inbox' \in [Target -> SUBSET Call]
    BY Zenon, <2>1 DEF TypeOK
  <2> QED BY Zenon, <1>9, <2>2 DEF LoseRequest, TypeOK, metaVars, idemVars, lockVars
<1>10. ASSUME NEW i \in Target \ {TAIL}, AttemptFails(i) PROVE TypeOK'
  <2>1. i + 1 \in Target
    BY DEF Target, TAIL
  <2>2. inbox' \in [Target -> SUBSET Call] /\ pc' \in [Target -> Control]
    BY <1>10, <2>1, OrphanType DEF AttemptFails, TypeOK, Control
  <2>3. call' \in [Target -> Call]
    BY Zenon, <1>10, <2>1, OrphanType DEF AttemptFails, TypeOK
  <2> QED BY Zenon, <1>10, <2>2, <2>3 DEF AttemptFails, TypeOK, metaVars, idemVars
<1>11. ASSUME NEW i \in Target \ {TAIL}, NextTransport(i) PROVE TypeOK'
  <2>0. forwardReplica(i, call[i], ver[i]) \in Call
    BY Zenon, ForwardType DEF TypeOK
  <2>1. inbox' \in [Target -> SUBSET Call] /\ pc' \in [Target -> Control]
    BY Zenon, <1>11, <2>0 DEF NextTransport, TypeOK, Control
  <2>2. tries' \in [Target -> Nat]
    BY <1>11 DEF NextTransport, TypeOK
  <2> QED BY Zenon, <1>11, <2>1, <2>2 DEF NextTransport, TypeOK, metaVars, idemVars
<1>12. ASSUME NEW i \in Target \ {TAIL}, ForwardFails(i) PROVE TypeOK'
  <2>1. call[i] \in Call /\ idempotencyKey(call[i].req) \in ReplicaWrite
    BY Zenon DEF TypeOK, Call, idempotencyKey
  <2>2. pc' \in [Target -> Control] /\ pending' \in BOOLEAN /\ acks' \in SUBSET Ack
    BY Zenon, <1>12, <2>1, ReturnErrType DEF ForwardFails
  <2>3. okKeys' \in [Target -> SUBSET ReplicaWrite] /\ errKeys' \in [Target -> SUBSET ReplicaWrite]
    BY Zenon, <1>12, <2>1, RememberType DEF ForwardFails
  <2>4. call' \in [Target -> Call] /\ ver' \in [Target -> Nat] /\ tries' \in [Target -> Nat]
    BY Zenon, <1>12, HoldType, NoCallType DEF ForwardFails, Release
  <2> QED BY Zenon, <1>12, <2>2, <2>3, <2>4 DEF ForwardFails, TypeOK, metaVars
<1>13. ASSUME NEW i \in Target, writeCommit(i) PROVE TypeOK'
  <2>1. call[i] \in Call /\ idempotencyKey(call[i].req) \in ReplicaWrite /\ ver[i] \in Nat
    BY Zenon DEF TypeOK, Call, idempotencyKey
  <2>2. pc' \in [Target -> Control] /\ pending' \in BOOLEAN /\ acks' \in SUBSET Ack
    BY Zenon, <1>13, <2>1, ReturnOkType DEF writeCommit
  <2>3. okKeys' \in [Target -> SUBSET ReplicaWrite] /\ errKeys' \in [Target -> SUBSET ReplicaWrite]
    BY Zenon, <1>13, <2>1, RememberType DEF writeCommit
  <2>4. call' \in [Target -> Call] /\ ver' \in [Target -> Nat] /\ tries' \in [Target -> Nat]
    BY Zenon, <1>13, HoldType, NoCallType DEF writeCommit, Release
  <2>5. CommitVer' \in [Target -> Nat] /\ State' \in [Target -> {"none", "pending", "committed"}]
    BY Zenon, <1>13 DEF writeCommit, TypeOK, Max
  <2> QED BY Zenon, <1>13, <2>2, <2>3, <2>4, <2>5 DEF writeCommit, TypeOK
<1>14. CASE UNCHANGED vars
  BY Zenon, <1>14 DEF vars, TypeOK, metaVars, idemVars, lockVars
<1> QED
  BY Zenon, <1>1, <1>2, <1>3, <1>4, <1>5, <1>6, <1>7, <1>8, <1>9, <1>10, <1>11, <1>12, <1>13, <1>14
  DEF WriteNext, Arrive, Proceed, ForwardReturns

(* The type invariant of the write protocol, for every constant.           *)
THEOREM WritesTypeCorrect == WriteSpec => []TypeOK
BY InitType, NextType, PTL DEF WriteSpec

---------------------------------------------------------------------------
LEMMA InitCommit == Init => CommitInv
BY ConstantsOK DEF Init, CommitInv, HandlerVer, Remembered, Link, Target, HEAD, TAIL

LEMMA SuccType == ASSUME NEW i \in Target \ {TAIL} PROVE i + 1 \in Target \ {HEAD}
BY ConstantsOK DEF Target, TAIL, HEAD

LEMMA StoreDataCommit ==
  ASSUME TypeOK, CommitInv, NEW i \in Target, NEW c \in inbox[i], StoreData(i, c)
  PROVE  CommitInv'
<1> USE ConstantsOK
<1>1. c \in Call /\ c.req.UpdateVer \in Nat
  BY DEF TypeOK, Call, ReplicaWrite
<1>2. c.req.UpdateVer <= updateVerOf(i, c) /\ updateVerOf(i, c) \in Nat
  BY <1>1 DEF TypeOK, updateVerOf
<1>3. pc[i] = "idle"
  BY SMTT(30) DEF StoreData, Fresh, Take
<1>4. ASSUME NEW j \in Target PROVE HandlerVer(j)'
  BY SMTT(30), <1>2 DEF StoreData, Hold, HandlerVer, CommitInv, TypeOK, metaVars
<1>5. ASSUME NEW j \in Target \ {HEAD} PROVE Remembered(j)'
  BY Zenon DEF StoreData, Remembered, CommitInv, metaVars, idemVars
<1>6. ASSUME NEW j \in Target \ {TAIL} PROVE Link(j)'
  <2>1. j + 1 \in Target /\ j \in Target /\ Link(j)
    BY SMTT(30), SuccType DEF CommitInv
  <2>2. CASE j + 1 = i
    BY <1>3, <2>1, <2>2 DEF StoreData, Hold, Link, LiveCallOf, TypeOK, metaVars
  <2>3. CASE j = i
    BY SMTT(30), <1>3, <2>1, <2>3 DEF StoreData, Hold, Link, LiveCallOf, TypeOK, metaVars, Target
  <2>4. CASE j # i /\ j + 1 # i
    BY <2>1, <2>4 DEF StoreData, Hold, Link, LiveCallOf, TypeOK, metaVars
  <2> QED BY Zenon, <2>2, <2>3, <2>4
<1> QED BY Zenon, <1>4, <1>5, <1>6 DEF CommitInv

(* A handler that starts to forward version v, or TAIL's that starts to    *)
(* commit it, keeps the invariant.                                         *)
LEMMA ForwardCommit ==
  ASSUME TypeOK, CommitInv, NEW i \in Target, NEW c \in Call, NEW v \in Nat,
         NEW box \in [Target -> SUBSET Call],
         Forward(i, c, v, box),
         call' = [call EXCEPT ![i] = c],
         ver' = [ver EXCEPT ![i] = v],
         UpdateVer' = [UpdateVer EXCEPT ![i] = v],
         CommitVer[i] <= v,
         c.req.UpdateVer <= v,
         \A j \in Target : box[j] \subseteq inbox[j],
         pc[i] \in {"stored", "idle"},
         \A j \in Target : j + 1 = i /\ c.live =>
                             LiveCallOf(j, c) /\ \A d \in box[i] : ~d.live,
         UNCHANGED <<CommitVer, okKeys>>
  PROVE  CommitInv'
<1> USE ConstantsOK
<1>2. /\ pc' = [pc EXCEPT ![i] = IF i = TAIL THEN "acked" ELSE "forwarding"]
      /\ inbox' = IF i = TAIL THEN box
                  ELSE [box EXCEPT ![i + 1] = @ \cup {forwardReplica(i, c, v)}]
  BY Zenon DEF Forward
<1>3. forwardReplica(i, c, v) \in Call /\ forwardReplica(i, c, v).req.UpdateVer = v
  BY SMTT(30), ForwardType
<1>4. ASSUME NEW j \in Target PROVE HandlerVer(j)'
  BY SMTT(30), <1>2 DEF HandlerVer, CommitInv, TypeOK
<1>5. ASSUME NEW j \in Target \ {HEAD} PROVE Remembered(j)'
  BY Zenon DEF Remembered, CommitInv
<1>6. ASSUME NEW j \in Target \ {TAIL} PROVE Link(j)'
  <2>1. j + 1 \in Target /\ j \in Target /\ Link(j) /\ j # TAIL /\ j \in Nat /\ i \in Nat
    BY SuccType DEF CommitInv, Target
  <2>2. CASE j + 1 = i
    <3>1. pc'[j] = pc[j] /\ ver'[j] = ver[j] /\ call'[i] = c
      BY <1>2, <2>1, <2>2 DEF TypeOK
    <3>2. inbox'[i] = box[i] /\ box[i] \subseteq inbox[i]
      BY SMTT(30), <1>2, <2>1
    <3> QED BY <2>1, <2>2, <3>1, <3>2 DEF Link, LiveCallOf
  <2>3. CASE j = i
    <3>1. \A d \in inbox[i + 1] : ~d.live
      BY Zenon, <2>1, <2>3 DEF Link, LiveCallOf
    <3>2. ~(pc[i + 1] # "idle" /\ call[i + 1].live)
      BY Zenon, <2>1, <2>3 DEF Link, LiveCallOf
    <3>3. inbox'[i + 1] \subseteq inbox[i + 1] \cup {forwardReplica(i, c, v)}
      BY Zenon, <1>2, <2>1, <2>3
    <3>4. \A d \in inbox'[i + 1] : d.live => d = forwardReplica(i, c, v) /\ d.req.UpdateVer = v
      BY Zenon, <1>3, <3>1, <3>3
    <3>5. pc'[i] = "forwarding" /\ ver'[i] = v
      BY Zenon, <1>2, <2>1, <2>3 DEF TypeOK
    <3>6. pc'[i + 1] = pc[i + 1] /\ call'[i + 1] = call[i + 1]
      BY SMTT(30), <1>2, <2>1, <2>3 DEF TypeOK
    <3> QED BY SMTT(30), <2>1, <2>3, <3>2, <3>4, <3>5, <3>6 DEF Link, LiveCallOf
  <2>4. CASE j # i /\ j + 1 # i
    <3>1. pc'[j] = pc[j] /\ ver'[j] = ver[j] /\ call'[j + 1] = call[j + 1] /\ pc'[j + 1] = pc[j + 1]
      BY Zenon, <1>2, <2>1, <2>4 DEF TypeOK
    <3>2. inbox'[j + 1] \subseteq inbox[j + 1]
      BY <1>2, <2>1, <2>4
    <3> QED BY Zenon, <2>1, <3>1, <3>2 DEF Link, LiveCallOf
  <2> QED BY Zenon, <2>2, <2>3, <2>4
<1> QED BY Zenon, <1>4, <1>5, <1>6 DEF CommitInv

LEMMA SetPendingCommit ==
  ASSUME TypeOK, CommitInv, NEW i \in Target, SetPending(i)
  PROVE  CommitInv'
<1>1. HandlerVer(i) /\ pc[i] = "stored" /\ call[i] \in Call /\ ver[i] \in Nat
  BY SMTT(30) DEF SetPending, CommitInv, TypeOK
<1>2. CommitVer[i] <= ver[i] /\ call[i].req.UpdateVer <= ver[i]
  BY <1>1 DEF HandlerVer, TypeOK
<1>3. ASSUME NEW j \in Target, j + 1 = i, call[i].live
      PROVE  LiveCallOf(j, call[i]) /\ \A d \in inbox[i] : ~d.live
  <2>1. Link(j)
    BY <1>3, ConstantsOK DEF CommitInv, Target, TAIL
  <2> QED BY Zenon, <1>1, <1>3, <2>1 DEF Link
<1>4. call' = [call EXCEPT ![i] = call[i]] /\ ver' = [ver EXCEPT ![i] = ver[i]]
  BY Zenon DEF SetPending, lockVars, TypeOK
<1>5. inbox \in [Target -> SUBSET Call] /\ \A j \in Target : inbox[j] \subseteq inbox[j]
  BY SMTT(30) DEF TypeOK
<1>6. /\ Forward(i, call[i], ver[i], inbox)
      /\ UpdateVer' = [UpdateVer EXCEPT ![i] = ver[i]]
      /\ UNCHANGED <<CommitVer, okKeys>>
  BY Zenon DEF SetPending, idemVars
<1> QED BY Zenon, <1>1, <1>2, <1>3, <1>4, <1>5, <1>6, ForwardCommit

LEMMA SkipPrepareCommit ==
  ASSUME TypeOK, CommitInv, NEW i \in Target, NEW c \in inbox[i], SkipPrepare(i, c)
  PROVE  CommitInv'
<1> DEFINE box == [inbox EXCEPT ![i] = @ \ {c}]
<1>1. c \in Call /\ c.req.UpdateVer \in Nat /\ pc[i] = "idle" /\ UpdateVer[i] \in Nat
  BY SMTT(30) DEF TypeOK, Call, ReplicaWrite, SkipPrepare, Fresh, Take
<1>2. CommitVer[i] <= UpdateVer[i]
  BY SMTT(30) DEF CommitInv, HandlerVer
<1>3. c.req.UpdateVer <= UpdateVer[i]
  BY SMTT(30), <1>1, <1>2 DEF SkipPrepare, updateVerOf, TypeOK
<1>4. ASSUME NEW j \in Target, j + 1 = i, c.live
      PROVE  LiveCallOf(j, c) /\ \A d \in box[i] : ~d.live
  <2>1. Link(j)
    BY <1>4, ConstantsOK DEF CommitInv, Target, TAIL
  <2>2. box[i] = inbox[i] \ {c}
    BY Zenon DEF TypeOK
  <2> QED BY Zenon, <1>4, <2>1, <2>2 DEF Link
<1>5. box \in [Target -> SUBSET Call] /\ \A j \in Target : box[j] \subseteq inbox[j]
  BY SMTT(30) DEF TypeOK
<1>6. UpdateVer' = [UpdateVer EXCEPT ![i] = UpdateVer[i]]
  BY Zenon DEF SkipPrepare, TypeOK, metaVars
<1>7. /\ Forward(i, c, UpdateVer[i], box)
      /\ call' = [call EXCEPT ![i] = c]
      /\ ver' = [ver EXCEPT ![i] = UpdateVer[i]]
      /\ UNCHANGED <<CommitVer, okKeys>>
  BY SMTT(30) DEF SkipPrepare, Hold, metaVars, idemVars
<1> HIDE DEF box
<1> QED BY Zenon, <1>1, <1>2, <1>3, <1>4, <1>5, <1>6, <1>7, ForwardCommit

(* A handler that returns keeps the invariant, if a success it reports is  *)
(* committed.                                                              *)
LEMMA ReplyCommit ==
  ASSUME TypeOK, TypeOK', CommitInv, NEW i \in Target, NEW c \in Call,
         NEW res \in {"acked", "failed"},
         Reply(i, c, res),
         pc[i] # "forwarding",
         \A j \in Target : j + 1 = i /\ c.live =>
                             LiveCallOf(j, c) /\ \A d \in inbox'[i] : ~d.live,
         res = "acked" => c.req.UpdateVer <= CommitVer'[i],
         \A j \in Target : inbox'[j] \subseteq inbox[j],
         \A j \in Target \ {i} : /\ call'[j] = call[j]
                                 /\ ver'[j] = ver[j]
                                 /\ CommitVer'[j] = CommitVer[j]
                                 /\ okKeys'[j] = okKeys[j],
         UpdateVer' = UpdateVer,
         CommitVer[i] <= CommitVer'[i],
         CommitVer'[i] <= UpdateVer[i],
         i # TAIL => CommitVer'[i] <= CommitVer[i + 1],
         i # HEAD => Remembered(i)'
  PROVE  CommitInv'
<1> USE ConstantsOK
<1>1. pc' = [pc EXCEPT ![i] = "idle"]
      \/ \E j \in Target : j + 1 = i /\ c.live /\ pc' = [pc EXCEPT ![i] = "idle", ![j] = res]
  BY SMTT(30) DEF Reply, Target, HEAD
<1>2. pc'[i] = "idle"
  BY <1>1 DEF TypeOK, Target
<1>3. ASSUME NEW j \in Target, j # i
      PROVE  pc'[j] = pc[j] \/ (j + 1 = i /\ c.live /\ pc'[j] = res /\ LiveCallOf(j, c)
                                /\ \A d \in inbox'[i] : ~d.live)
  BY Zenon, <1>1, <1>3 DEF TypeOK, Target
<1>4. ASSUME NEW j \in Target PROVE HandlerVer(j)'
  <2>1. CASE j = i
    BY SMTT(30), <1>2, <2>1 DEF HandlerVer, TypeOK
  <2>2. CASE j # i
    <3>1. HandlerVer(j)
      BY ZenonT(40) DEF CommitInv
    <3> QED BY SMTT(30), <1>3, <2>2, <3>1 DEF HandlerVer, LiveCallOf, TypeOK
  <2> QED BY SMTT(30), <2>1, <2>2
<1>5. ASSUME NEW j \in Target \ {HEAD} PROVE Remembered(j)'
  BY Zenon DEF Remembered, CommitInv
<1>6. ASSUME NEW j \in Target \ {TAIL} PROVE Link(j)'
  <2>1. j + 1 \in Target /\ j \in Target /\ Link(j) /\ j # TAIL /\ j # j + 1
    BY SMTT(30), SuccType DEF CommitInv, Target
  <2>2. CASE j + 1 = i
    <3>1. CommitVer'[j] = CommitVer[j] /\ ver'[j] = ver[j]
      BY SMTT(30), <2>1, <2>2
    <3>2. CommitVer'[j] <= CommitVer'[i] /\ (pc[j] = "acked" => ver[j] <= CommitVer'[i])
      BY SMTT(30), <2>1, <2>2, <3>1 DEF Link, TypeOK
    <3>3. CASE pc'[j] = pc[j]
      BY SMTT(30), <1>2, <2>1, <2>2, <3>1, <3>2, <3>3 DEF Link, LiveCallOf
    <3>4. CASE pc'[j] # pc[j]
      BY SMTT(30), <1>2, <1>3, <2>1, <2>2, <3>1, <3>2, <3>4 DEF Link, LiveCallOf
    <3> QED BY SMTT(30), <3>3, <3>4
  <2>3. CASE j = i
    <3>1. \A d \in inbox[i + 1] : ~d.live
      BY SMTT(30), <2>1, <2>3 DEF Link, LiveCallOf
    <3>2. ~(pc[i + 1] # "idle" /\ call[i + 1].live)
      BY SMTT(30), <2>1, <2>3 DEF Link, LiveCallOf
    <3>3. pc'[i + 1] = pc[i + 1] /\ call'[i + 1] = call[i + 1] /\ CommitVer'[i + 1] = CommitVer[i + 1]
      BY SMTT(30), <1>3, <2>1, <2>3 DEF Target
    <3> QED BY SMTT(30), <1>2, <2>1, <2>3, <3>1, <3>2, <3>3 DEF Link
  <2>4. CASE j # i /\ j + 1 # i
    <3>1. pc'[j] = pc[j]
      BY Zenon, <1>3, <2>1, <2>4
    <3>2. pc'[j + 1] = pc[j + 1] \/ ((j + 1) + 1 = i /\ pc'[j + 1] = res /\ pc[j + 1] = "forwarding")
      BY Zenon, <1>3, <2>1, <2>4 DEF LiveCallOf
    <3> QED BY SMTT(30), <2>1, <2>4, <3>1, <3>2 DEF Link, LiveCallOf
  <2> QED BY Zenon, <2>2, <2>3, <2>4
<1> QED BY Zenon, <1>4, <1>5, <1>6 DEF CommitInv

(* What Link says of the call a handler answers.                           *)
LEMMA CalledBy ==
  ASSUME CommitInv, NEW i \in Target, NEW j \in Target, j + 1 = i
  PROVE  Link(j) /\ j \in Target \ {TAIL} /\ i # HEAD
BY SMTT(30), ConstantsOK DEF CommitInv, Target, TAIL, HEAD

LEMMA CachedCommit ==
  ASSUME TypeOK, TypeOK', CommitInv, NEW i \in Target, NEW c \in inbox[i], Cached(i, c)
  PROVE  CommitInv'
<1>1. /\ pc[i] = "idle"
      /\ inbox' = [inbox EXCEPT ![i] = @ \ {c}]
      /\ UNCHANGED <<UpdateVer, CommitVer, okKeys, call, ver>>
  BY Zenon DEF Cached, Take, metaVars, idemVars, lockVars
<1>2. c \in Call /\ \A j \in Target : inbox'[j] \subseteq inbox[j]
  BY SMTT(30), <1>1 DEF TypeOK
<1>3. ASSUME NEW j \in Target, j + 1 = i, c.live
      PROVE  LiveCallOf(j, c) /\ \A d \in inbox'[i] : ~d.live
  BY SMTT(30), <1>1, <1>3, CalledBy DEF Link, TypeOK
<1>4. HandlerVer(i) /\ (i # TAIL => CommitVer[i] <= CommitVer[i + 1]) /\ (i # HEAD => Remembered(i))
  BY Zenon DEF CommitInv, Link
<1>5. CommitVer[i] <= UpdateVer[i] /\ CommitVer[i] <= CommitVer[i] /\ (i # HEAD => Remembered(i)')
  BY <1>1, <1>4 DEF HandlerVer, TypeOK, Remembered
<1>6. CASE idempotencyKey(c.req) \in okKeys[i] /\ ReturnOk(i, c, CommitVer[i], TRUE)
  <2>1. CASE i = HEAD
    <3>1. Reply(i, c, "failed")
      BY SMTT(30), <1>6, <2>1 DEF ReturnOk, Reply
    <3> QED BY Zenon, <1>1, <1>2, <1>3, <1>4, <1>5, <3>1, ReplyCommit
  <2>2. CASE i # HEAD
    <3>1. c.req.UpdateVer <= CommitVer[i]
      BY Zenon, <1>4, <1>6, <2>2 DEF Remembered, idempotencyKey
    <3>2. Reply(i, c, "acked")
      BY Zenon, <1>6 DEF ReturnOk
    <3> QED BY Zenon, <1>1, <1>2, <1>3, <1>4, <1>5, <3>1, <3>2, ReplyCommit
  <2> QED BY SMTT(30), <2>1, <2>2
<1>7. CASE ReturnErr(i, c)
  <2>1. Reply(i, c, "failed")
    BY SMTT(30), <1>7 DEF ReturnErr
  <2> QED BY Zenon, <1>1, <1>2, <1>3, <1>4, <1>5, <2>1, ReplyCommit
<1> QED BY Zenon, <1>6, <1>7 DEF Cached

LEMMA PrepareFailsCommit ==
  ASSUME TypeOK, TypeOK', CommitInv, NEW i \in Target, NEW c \in inbox[i], PrepareFails(i, c)
  PROVE  CommitInv'
<1>1. /\ pc[i] = "idle"
      /\ inbox' = [inbox EXCEPT ![i] = @ \ {c}]
      /\ UNCHANGED <<UpdateVer, CommitVer, okKeys, call, ver>>
  BY SMTT(30) DEF PrepareFails, Fresh, Take, rememberErr, metaVars, lockVars
<1>2. c \in Call /\ \A j \in Target : inbox'[j] \subseteq inbox[j]
  BY Zenon, <1>1 DEF TypeOK
<1>3. ASSUME NEW j \in Target, j + 1 = i, c.live
      PROVE  LiveCallOf(j, c) /\ \A d \in inbox'[i] : ~d.live
  BY Zenon, <1>1, <1>3, CalledBy DEF Link, TypeOK
<1>4. HandlerVer(i) /\ (i # TAIL => CommitVer[i] <= CommitVer[i + 1]) /\ (i # HEAD => Remembered(i))
  BY Zenon DEF CommitInv, Link
<1>5. CommitVer[i] <= UpdateVer[i] /\ CommitVer[i] <= CommitVer[i] /\ (i # HEAD => Remembered(i)')
  BY <1>1, <1>4 DEF HandlerVer, TypeOK, Remembered
<1>6. Reply(i, c, "failed")
  BY SMTT(30) DEF PrepareFails, ReturnErr
<1> QED BY Zenon, <1>1, <1>2, <1>3, <1>4, <1>5, <1>6, ReplyCommit

LEMMA ForwardFailsCommit ==
  ASSUME TypeOK, TypeOK', CommitInv, NEW i \in Target, ForwardFails(i)
  PROVE  CommitInv'
<1>1. /\ pc[i] = "failed"
      /\ \A j \in Target \ {i} : call'[j] = call[j] /\ ver'[j] = ver[j]
      /\ UNCHANGED <<UpdateVer, CommitVer, okKeys, inbox>>
  BY SMTT(30) DEF ForwardFails, Release, Hold, rememberErr, metaVars, TypeOK
<1>2. ASSUME NEW j \in Target, j + 1 = i, call[i].live
      PROVE  LiveCallOf(j, call[i]) /\ \A d \in inbox'[i] : ~d.live
  BY SMTT(30), <1>1, <1>2, CalledBy DEF Link
<1>3. HandlerVer(i) /\ (i # TAIL => CommitVer[i] <= CommitVer[i + 1]) /\ (i # HEAD => Remembered(i))
  BY SMTT(30) DEF CommitInv, Link
<1>4. CommitVer[i] <= UpdateVer[i] /\ CommitVer[i] <= CommitVer[i] /\ (i # HEAD => Remembered(i)')
  BY <1>1, <1>3 DEF HandlerVer, TypeOK, Remembered
<1>5. Reply(i, call[i], "failed") /\ call[i] \in Call
  BY SMTT(30) DEF ForwardFails, ReturnErr, TypeOK
<1> QED BY SMTT(30), <1>1, <1>2, <1>3, <1>4, <1>5, ReplyCommit

LEMMA WriteCommitCommit ==
  ASSUME TypeOK, TypeOK', CommitInv, NEW i \in Target, writeCommit(i)
  PROVE  CommitInv'
<1>1. /\ pc[i] = "acked"
      /\ \A j \in Target \ {i} : /\ call'[j] = call[j] /\ ver'[j] = ver[j]
                                 /\ CommitVer'[j] = CommitVer[j] /\ okKeys'[j] = okKeys[j]
      /\ UNCHANGED <<UpdateVer, inbox>>
      /\ CommitVer'[i] = Max(CommitVer[i], ver[i])
      /\ okKeys'[i] = okKeys[i] \cup {call[i].req}
  BY SMTT(30) DEF writeCommit, Release, Hold, rememberOk, idempotencyKey, TypeOK
<1>2. ASSUME NEW j \in Target, j + 1 = i, call[i].live
      PROVE  LiveCallOf(j, call[i]) /\ \A d \in inbox'[i] : ~d.live
  BY SMTT(30), <1>1, <1>2, CalledBy DEF Link
<1>3. /\ CommitVer[i] \in Nat /\ UpdateVer[i] \in Nat /\ ver[i] \in Nat
      /\ call[i] \in Call /\ call[i].req.UpdateVer \in Nat
  BY SMTT(30) DEF TypeOK, Call, ReplicaWrite
<1>4. CommitVer[i] <= UpdateVer[i] /\ ver[i] = UpdateVer[i] /\ call[i].req.UpdateVer <= ver[i]
  BY Zenon, <1>1 DEF CommitInv, HandlerVer
<1>5. CommitVer[i] <= CommitVer'[i] /\ CommitVer'[i] <= UpdateVer[i] /\ ver[i] <= CommitVer'[i]
  BY SMTT(30), <1>1, <1>3, <1>4 DEF Max
<1>6. i # TAIL => CommitVer'[i] <= CommitVer[i + 1]
  <2>1. i # TAIL => Link(i)
    BY SMTT(30) DEF CommitInv
  <2> QED BY Zenon, <1>1, <2>1 DEF Link, Max
<1>7. i # HEAD => Remembered(i)'
  <2> SUFFICES ASSUME i # HEAD, NEW k \in okKeys'[i] PROVE k.UpdateVer <= CommitVer'[i]
    BY SMTT(30) DEF Remembered
  <2>1. CASE k = call[i].req
    BY SMTT(30), <1>1, <1>3, <1>4, <1>5, <2>1 DEF Max
  <2>2. CASE k \in okKeys[i]
    <3>1. k.UpdateVer <= CommitVer[i] /\ k.UpdateVer \in Nat
      BY SMTT(30), <2>2 DEF CommitInv, Remembered, TypeOK, ReplicaWrite
    <3> QED BY SMTT(30), <1>1, <1>3, <3>1 DEF Max
  <2> QED BY Zenon, <1>1, <2>1, <2>2
<1>8. Reply(i, call[i], "acked") /\ call[i].req.UpdateVer <= CommitVer'[i]
  BY <1>1, <1>3, <1>4 DEF writeCommit, ReturnOk, Max
<1> QED BY SMTT(30), <1>1, <1>2, <1>3, <1>5, <1>6, <1>7, <1>8, ReplyCommit

LEMMA NextTransportCommit ==
  ASSUME TypeOK, CommitInv, NEW i \in Target \ {TAIL}, NextTransport(i)
  PROVE  CommitInv'
<1> DEFINE f == forwardReplica(i, call[i], ver[i])
<1>1. /\ pc[i] = "failed"
      /\ pc' = [pc EXCEPT ![i] = "forwarding"]
      /\ inbox' = [inbox EXCEPT ![i + 1] = @ \cup {f}]
      /\ UNCHANGED <<UpdateVer, CommitVer, okKeys, call, ver>>
  BY SMTT(30) DEF NextTransport, metaVars, idemVars
<1>2. f \in Call /\ f.req.UpdateVer = ver[i]
  BY SMTT(30), ForwardType DEF TypeOK
<1> HIDE DEF f
<1>3. ASSUME NEW j \in Target PROVE HandlerVer(j)'
  BY SMTT(30), <1>1 DEF HandlerVer, CommitInv, TypeOK
<1>4. ASSUME NEW j \in Target \ {HEAD} PROVE Remembered(j)'
  BY Zenon, <1>1 DEF Remembered, CommitInv
<1>5. ASSUME NEW j \in Target \ {TAIL} PROVE Link(j)'
  <2>1. j + 1 \in Target /\ j \in Target /\ Link(j) /\ j # j + 1 /\ i # i + 1 /\ (j + 1 = i + 1 => j = i)
    BY SMTT(30), SuccType, ConstantsOK DEF CommitInv, Target
  <2>2. CASE j = i
    <3>1. \A d \in inbox[i + 1] : ~d.live
      BY SMTT(30), <1>1, <2>1, <2>2 DEF Link, LiveCallOf
    <3>2. ~(pc[i + 1] # "idle" /\ call[i + 1].live)
      BY Zenon, <1>1, <2>1, <2>2 DEF Link, LiveCallOf
    <3>3. pc'[i] = "forwarding" /\ pc'[i + 1] = pc[i + 1] /\ inbox'[i + 1] = inbox[i + 1] \cup {f}
      BY SMTT(30), <1>1, <2>1, <2>2 DEF TypeOK
    <3> QED BY SMTT(30), <1>1, <1>2, <2>1, <2>2, <3>1, <3>2, <3>3 DEF Link, LiveCallOf
  <2>3. CASE j # i
    <3>1. pc'[j] = pc[j] /\ inbox'[j + 1] = inbox[j + 1]
      BY Zenon, <1>1, <2>1, <2>3 DEF TypeOK
    <3>2. pc'[j + 1] # "idle" => pc[j + 1] # "idle"
      BY Zenon, <1>1, <2>1 DEF TypeOK
    <3> QED BY Zenon, <1>1, <2>1, <3>1, <3>2 DEF Link, LiveCallOf
  <2> QED BY Zenon, <2>2, <2>3
<1> QED BY Zenon, <1>3, <1>4, <1>5 DEF CommitInv

LEMMA AttemptFailsCommit ==
  ASSUME TypeOK, CommitInv, NEW i \in Target \ {TAIL}, AttemptFails(i)
  PROVE  CommitInv'
<1>1. /\ pc[i] = "forwarding"
      /\ pc' = [pc EXCEPT ![i] = "failed"]
      /\ inbox' = [inbox EXCEPT ![i + 1] = {[c EXCEPT !.live = FALSE] : c \in @}]
      /\ call' = [call EXCEPT ![i + 1].live = FALSE]
      /\ UNCHANGED <<UpdateVer, CommitVer, okKeys, ver>>
  BY Zenon DEF AttemptFails, metaVars, idemVars
<1>2. i + 1 \in Target
  BY Zenon, SuccType
<1>3. call'[i + 1].live = FALSE /\ call'[i + 1].req = call[i + 1].req
      /\ \A j \in Target \ {i + 1} : call'[j] = call[j]
  BY Zenon, <1>1, <1>2, OrphanType DEF TypeOK
<1>4. \A d \in inbox'[i + 1] : ~d.live
  <2> SUFFICES ASSUME NEW d \in inbox'[i + 1] PROVE ~d.live
    OBVIOUS
  <2>1. inbox'[i + 1] = {[c EXCEPT !.live = FALSE] : c \in inbox[i + 1]}
    BY Zenon, <1>1, <1>2 DEF TypeOK
  <2>2. PICK c \in inbox[i + 1] : d = [c EXCEPT !.live = FALSE]
    BY SMTT(30), <2>1
  <2>3. c \in Call
    BY Zenon, <1>2 DEF TypeOK
  <2> QED BY Zenon, <2>2, <2>3, OrphanType
<1>5. ASSUME NEW j \in Target PROVE HandlerVer(j)'
  BY <1>1, <1>3 DEF HandlerVer, CommitInv, TypeOK
<1>6. ASSUME NEW j \in Target \ {HEAD} PROVE Remembered(j)'
  BY Zenon, <1>1 DEF Remembered, CommitInv
<1>7. ASSUME NEW j \in Target \ {TAIL} PROVE Link(j)'
  <2>1. j + 1 \in Target /\ j \in Target /\ Link(j) /\ j # j + 1 /\ i # i + 1 /\ (j + 1 = i + 1 => j = i)
    BY SuccType, ConstantsOK DEF CommitInv, Target
  <2>2. CASE j = i
    BY Zenon, <1>1, <1>3, <1>4, <2>1, <2>2 DEF Link, TypeOK
  <2>3. CASE j # i
    <3>1. pc'[j] = pc[j] /\ inbox'[j + 1] = inbox[j + 1] /\ call'[j + 1] = call[j + 1]
      BY Zenon, <1>1, <1>3, <2>1, <2>3 DEF TypeOK
    <3>2. pc'[j + 1] # "idle" => pc[j + 1] # "idle"
      BY SMTT(30), <1>1, <2>1 DEF TypeOK
    <3> QED BY Zenon, <1>1, <2>1, <3>1, <3>2 DEF Link, LiveCallOf
  <2> QED BY Zenon, <2>2, <2>3
<1> QED BY Zenon, <1>5, <1>6, <1>7 DEF CommitInv

LEMMA LoseRequestCommit ==
  ASSUME TypeOK, CommitInv, NEW i \in Target \ {TAIL}, LoseRequest(i)
  PROVE  CommitInv'
<1>1. UNCHANGED <<UpdateVer, CommitVer, okKeys, call, ver, pc>>
      /\ \A j \in Target : inbox'[j] \subseteq inbox[j]
  <2>1. PICK c \in inbox[i + 1] : inbox' = [inbox EXCEPT ![i + 1] = @ \ {c}]
    BY Zenon DEF LoseRequest
  <2> QED BY Zenon, <2>1 DEF LoseRequest, metaVars, idemVars, lockVars, TypeOK
<1>2. ASSUME NEW j \in Target \ {TAIL} PROVE Link(j)'
  <2>1. j + 1 \in Target /\ Link(j)
    BY SMTT(30), SuccType DEF CommitInv
  <2> QED BY Zenon, <1>1, <2>1 DEF Link, LiveCallOf
<1> QED BY Zenon, <1>1, <1>2 DEF CommitInv, HandlerVer, Remembered

(* Clients, repairs and epochs touch HEAD's inbox only.                    *)
LEMMA EnterCommit ==
  ASSUME TypeOK, CommitInv, (\E v \in Value : putChunk(v)) \/ repairChunk \/ raiseChainVer
  PROVE  CommitInv'
<1>1. UNCHANGED <<UpdateVer, CommitVer, okKeys, call, ver, pc>>
      /\ \A j \in Target \ {HEAD} : inbox'[j] = inbox[j]
  BY ZenonT(40) DEF putChunk, repairChunk, raiseChainVer, Enter, metaVars, idemVars, lockVars, TypeOK
<1>2. ASSUME NEW j \in Target \ {TAIL} PROVE Link(j)'
  <2>1. j + 1 \in Target \ {HEAD} /\ Link(j)
    BY Zenon, SuccType DEF CommitInv
  <2> QED BY Zenon, <1>1, <2>1 DEF Link, LiveCallOf
<1> QED BY Zenon, <1>1, <1>2 DEF CommitInv, HandlerVer, Remembered

LEMMA NextCommit == TypeOK /\ TypeOK' /\ CommitInv /\ [WriteNext]_vars => CommitInv'
<1> SUFFICES ASSUME TypeOK, TypeOK', CommitInv, [WriteNext]_vars PROVE CommitInv'
  BY Zenon
<1>1. CASE UNCHANGED vars
  BY <1>1 DEF vars, metaVars, idemVars, lockVars, CommitInv, HandlerVer, Remembered, Link, LiveCallOf
<1>2. CASE WriteNext
  BY Zenon, <1>2, EnterCommit, CachedCommit, PrepareFailsCommit, StoreDataCommit, SkipPrepareCommit,
     SetPendingCommit, WriteCommitCommit, LoseRequestCommit, AttemptFailsCommit,
     NextTransportCommit, ForwardFailsCommit
  DEF WriteNext, Arrive, Proceed, ForwardReturns
<1> QED BY Zenon, <1>1, <1>2

(* The invariant that explains CommitOrder holds in every reachable state. *)
THEOREM WritesCommitInv == WriteSpec => []CommitInv
BY InitType, NextType, InitCommit, NextCommit, PTL DEF WriteSpec

(* Whatever requests are lost, retried, orphaned or answered from          *)
(* idemState, a target's committed version never exceeds its successor's.  *)
THEOREM WritesKeepCommitOrder == WriteSpec => []CommitOrder
<1>1. CommitInv => CommitOrder
  BY Zenon DEF CommitInv, CommitOrder, Link
<1> QED BY <1>1, WritesCommitInv, PTL

(* No target's update version falls below what it has committed.           *)
THEOREM WritesKeepCommitBounded == WriteSpec => []CommitBounded
<1>1. CommitInv => CommitBounded
  BY Zenon DEF CommitInv, CommitBounded, HandlerVer
<1> QED BY <1>1, WritesCommitInv, PTL

(* No write takes a committed version back or commits one above the update *)
(* version: writeCommit is the only step that touches CommitVer, and the   *)
(* version it was given is still the target's own when it runs.            *)
THEOREM WritesKeepCommitMonotone == WriteSpec => CommitMonotone
<1>1. TypeOK /\ TypeOK' /\ CommitInv' /\ [WriteNext]_vars =>
        [\A i \in Target : CommitVer'[i] \in CommitVer[i]..UpdateVer'[i]]_vars
  <2> SUFFICES ASSUME TypeOK, TypeOK', CommitInv', WriteNext, NEW i \in Target
               PROVE  CommitVer'[i] \in CommitVer[i]..UpdateVer'[i]
    BY SMTT(30) DEF vars
  <2>1. CommitVer[i] \in Nat /\ CommitVer'[i] \in Nat /\ UpdateVer'[i] \in Nat
        /\ CommitVer'[i] <= UpdateVer'[i]
    BY Zenon DEF TypeOK, CommitInv, HandlerVer
  <2>2. CommitVer' = CommitVer \/ \E j \in Target : writeCommit(j)
    BY Zenon DEF WriteNext, Arrive, Proceed, ForwardReturns, putChunk, repairChunk, raiseChainVer,
           Cached, PrepareFails, StoreData, SkipPrepare, SetPending, LoseRequest,
           AttemptFails, NextTransport, ForwardFails, metaVars
  <2>3. CommitVer[i] <= CommitVer'[i]
    <3>1. ASSUME NEW j \in Target, writeCommit(j) PROVE CommitVer[i] <= CommitVer'[i]
      <4>1. CommitVer'[i] = IF i = j THEN Max(CommitVer[i], ver[i]) ELSE CommitVer[i]
        BY Zenon, <3>1 DEF writeCommit, TypeOK
      <4>2. ver[i] \in Nat
        BY Zenon DEF TypeOK
      <4> QED BY <2>1, <4>1, <4>2 DEF Max
    <3> QED BY <2>1, <2>2, <3>1
  <2> QED BY <2>1, <2>3
<1> QED BY <1>1, WritesTypeCorrect, WritesCommitInv, PTL DEF WriteSpec, CommitMonotone

---------------------------------------------------------------------------
(* Acknowledged puts.  The request HEAD's handler sends, as every follower *)
(* should get it.                                                          *)
Follower == Target \ {HEAD}
Key == forwardReplica(HEAD, call[HEAD], ver[HEAD]).req
Busy == pc[HEAD] # "idle"
Proper(c) == c.req = Key /\ c.data = call[HEAD].data

(* HEAD numbers its puts one after the other, and holds what it works on.  *)
HeadInv ==
  /\ \A c \in inbox[HEAD] : c.req.UpdateVer = 0 /\ c.data \in Value
  /\ Busy => /\ call[HEAD].req.UpdateVer = 0 /\ call[HEAD].data \in Value
             /\ chunks[HEAD] = call[HEAD].data /\ ver[HEAD] # 0
  /\ pc[HEAD] = "stored" => ver[HEAD] = UpdateVer[HEAD] + 1

(* Nothing a follower has seen is newer than HEAD.                         *)
NotAhead(i) ==
  /\ UpdateVer[i] <= UpdateVer[HEAD]
  /\ pc[i] # "idle" => ver[i] # 0 /\ ver[i] <= UpdateVer[HEAD]
  /\ \A c \in inbox[i] : c.req.UpdateVer # 0 /\ c.req.UpdateVer <= UpdateVer[HEAD]
  /\ \A k \in okKeys[i] \cup errKeys[i] : k.UpdateVer <= UpdateVer[HEAD]

(* A request is remembered as a success or as a failure, never both.       *)
Once(i) ==
  /\ okKeys[i] \cap errKeys[i] = {}
  /\ pc[i] # "idle" => call[i].req \notin okKeys[i] \cup errKeys[i]
  /\ pc[i] = "stored" => chunks[i] = call[i].data

(* What i waits for is the request it would send again.                    *)
SentBy(i) ==
  /\ \A c \in inbox[i + 1] : c.live => c.req = forwardReplica(i, call[i], ver[i]).req
  /\ pc[i + 1] # "idle" /\ call[i + 1].live =>
       call[i + 1].req = forwardReplica(i, call[i], ver[i]).req

(* A success with HEAD's request means a success at everyone behind.       *)
OkBehind(i) == \A k \in Target : i < k => Key \in okKeys[k]
Success(i) ==
  \/ i # HEAD /\ Key \in okKeys[i]
  \/ pc[i] = "acked" /\ (i = HEAD \/ call[i].req = Key)
  => OkBehind(i)

(* A follower has HEAD's version with HEAD's payload only ...              *)
Good(i) ==
  /\ UpdateVer[i] = ver[HEAD] /\ pc[i] # "stored" => chunks[i] = call[HEAD].data
  /\ CommitVer[i] < ver[HEAD] =>
       /\ \A c \in inbox[i] : c.req.UpdateVer = ver[HEAD] => Proper(c)
       /\ pc[i] = "stored" /\ ver[i] = ver[HEAD] => Proper(call[i])
       /\ UpdateVer[i] = ver[HEAD] /\ pc[i] # "stored" =>
            Key \in okKeys[i] \cup errKeys[i] \/ (pc[i] # "idle" /\ Proper(call[i]))

(* ... unless someone before it remembers that HEAD's request failed.      *)
Stopped(i) == \E j \in Follower : j < i /\ Key \in errKeys[j]

NumberInv == HeadInv /\ \A i \in Follower : NotAhead(i) /\ Once(i)
WireInv == \A i \in Target \ {TAIL} : SentBy(i)
PutInv ==
  Busy => (\A i \in Target : Success(i)) /\ (\A i \in Follower : Good(i) \/ Stopped(i))
AckedInv == AckedEverywhere /\ \A a \in acks : ~a.cached => a.data \in Value
AckInv == NumberInv /\ WireInv /\ PutInv /\ AckedInv

Before == TypeOK /\ TypeOK' /\ CommitInv /\ CommitInv' /\ AckInv

---------------------------------------------------------------------------
LEMMA HeadTarget == HEAD \in Target /\ \A i \in Target : i \in Nat /\ i >= HEAD
BY ConstantsOK DEF Target, HEAD

LEMMA VersionTypes ==
  ASSUME TypeOK, NEW i \in Target
  PROVE  /\ UpdateVer[i] \in Nat /\ CommitVer[i] \in Nat /\ ver[i] \in Nat
         /\ \A c \in inbox[i] : c \in Call /\ c.req \in ReplicaWrite /\ c.req.UpdateVer \in Nat
         /\ call[i] \in Call /\ call[i].req \in ReplicaWrite /\ call[i].req.UpdateVer \in Nat
         /\ \A k \in okKeys[i] \cup errKeys[i] : k \in ReplicaWrite /\ k.UpdateVer \in Nat
<1>1. UpdateVer[i] \in Nat /\ CommitVer[i] \in Nat /\ ver[i] \in Nat
  BY Zenon DEF TypeOK
<1>2. \A c \in Call : c.req \in ReplicaWrite
  BY Zenon DEF Call
<1>3. \A k \in ReplicaWrite : k.UpdateVer \in Nat
  BY Zenon DEF ReplicaWrite
<1>4. inbox[i] \subseteq Call /\ call[i] \in Call /\ okKeys[i] \cup errKeys[i] \subseteq ReplicaWrite
  BY Zenon DEF TypeOK
<1> QED BY Zenon, <1>1, <1>2, <1>3, <1>4

(* The request a target forwards carries its version, and is HEAD's        *)
(* request where the target handles HEAD's request under HEAD's version.   *)
LEMMA ForwardKey ==
  ASSUME NEW i, NEW c \in Call, NEW v \in Nat
  PROVE  /\ forwardReplica(i, c, v).req.UpdateVer = v
         /\ forwardReplica(i, c, v).req.CommitVer = v
         /\ forwardReplica(i, c, v).data = c.data
         /\ forwardReplica(i, c, v).live
<1>1. c.req \in ReplicaWrite
  BY Zenon DEF Call
<1>2. /\ forwardReplica(i, c, v).req = [c.req EXCEPT !.UpdateVer = v, !.CommitVer = v]
      /\ forwardReplica(i, c, v).data = c.data /\ forwardReplica(i, c, v).live
  BY Zenon DEF forwardReplica
<1>3. /\ [c.req EXCEPT !.UpdateVer = v, !.CommitVer = v].UpdateVer = v
      /\ [c.req EXCEPT !.UpdateVer = v, !.CommitVer = v].CommitVer = v
  BY Zenon, <1>1 DEF ReplicaWrite
<1> QED BY Zenon, <1>2, <1>3

LEMMA SameForward ==
  ASSUME NEW i, NEW c \in Call, NEW v \in Nat, c.req.UpdateVer = v, c.req.CommitVer = v
  PROVE  forwardReplica(i, c, v).req = c.req
<1>1. c.req \in ReplicaWrite
  BY Zenon DEF Call
<1>2. [c.req EXCEPT !.UpdateVer = v, !.CommitVer = v] = c.req
  BY Zenon, <1>1 DEF ReplicaWrite
<1> QED BY Zenon, <1>2 DEF forwardReplica

LEMMA KeyVersion ==
  ASSUME TypeOK
  PROVE  Key.UpdateVer = ver[HEAD] /\ Key.CommitVer = ver[HEAD]
<1>1. call[HEAD] \in Call /\ ver[HEAD] \in Nat
  BY Zenon, HeadTarget, VersionTypes
<1> QED BY Zenon, <1>1, ForwardKey DEF Key

(* A target that nothing happens to, but that its forward may return.      *)
Rests(j) ==
  /\ UpdateVer'[j] = UpdateVer[j] /\ CommitVer'[j] = CommitVer[j] /\ chunks'[j] = chunks[j]
  /\ okKeys'[j] = okKeys[j] /\ errKeys'[j] = errKeys[j] /\ ver'[j] = ver[j]
  /\ pc'[j] = pc[j] \/ (pc[j] = "forwarding" /\ pc'[j] \in {"acked", "failed"})
  /\ call'[j].req = call[j].req /\ call'[j].data = call[j].data /\ (call'[j].live => call[j].live)

(* Nothing reaches it.                                                     *)
NoMail(j) == \A c \in inbox'[j] :
               \E e \in inbox[j] : c.req = e.req /\ c.data = e.data /\ (c.live => e.live)

LEMMA HeadRests ==
  ASSUME Before, Rests(HEAD), NoMail(HEAD)
  PROVE  HeadInv' /\ (Busy' => Busy) /\ Key' = Key /\ ver'[HEAD] = ver[HEAD]
         /\ call'[HEAD].data = call[HEAD].data
<1>1. HeadInv
  BY Zenon DEF Before, AckInv, NumberInv
<1>2. HeadInv' /\ (Busy' => Busy)
  BY <1>1 DEF HeadInv, Busy, Rests, NoMail
<1>3. Key' = Key
  BY Zenon DEF Key, forwardReplica, Rests
<1> QED BY Zenon, <1>2, <1>3 DEF Rests

LEMMA RestsNumbers ==
  ASSUME Before, NEW j \in Follower, Rests(j), NoMail(j), UpdateVer[HEAD] <= UpdateVer'[HEAD]
  PROVE  NotAhead(j)' /\ Once(j)'
<1>1. NotAhead(j) /\ Once(j) /\ j \in Target
  BY Zenon DEF Before, AckInv, NumberInv, Follower
<1>2. UpdateVer[HEAD] \in Nat /\ UpdateVer'[HEAD] \in Nat
  BY Zenon, HeadTarget DEF Before, TypeOK
<1>3. /\ UpdateVer[j] \in Nat /\ ver[j] \in Nat
      /\ \A c \in inbox[j] : c.req.UpdateVer \in Nat
      /\ \A k \in okKeys[j] \cup errKeys[j] : k.UpdateVer \in Nat
  BY Zenon, <1>1, VersionTypes DEF Before
<1>4. NotAhead(j)'
  BY <1>1, <1>2, <1>3 DEF NotAhead, Rests, NoMail
<1>5. Once(j)'
  BY Zenon, <1>1 DEF Once, Rests
<1> QED BY Zenon, <1>4, <1>5

(* A follower that rests, or only gets HEAD's proper request, is as good   *)
(* as before.                                                              *)
LEMMA RestsGood ==
  ASSUME Before, NEW j \in Follower, Rests(j), Key' = Key, ver'[HEAD] = ver[HEAD],
         call'[HEAD].data = call[HEAD].data, Good(j),
         \A c \in inbox'[j] :
           \/ \E e \in inbox[j] : c.req = e.req /\ c.data = e.data
           \/ c.req.UpdateVer # ver[HEAD] \/ Proper(c) \/ CommitVer[j] >= ver[HEAD]
  PROVE  Good(j)'
<1>1. CommitVer[j] \in Nat /\ ver[HEAD] \in Nat
  BY Zenon, HeadTarget DEF Before, TypeOK, Follower
<1>2. \A c : Proper(c)' <=> c.req = Key /\ c.data = call[HEAD].data
  BY Zenon DEF Proper
<1>3. (UpdateVer[j] = ver[HEAD] /\ pc[j] # "stored" => chunks[j] = call[HEAD].data)'
  BY Zenon DEF Good, Rests
<1>4. ASSUME CommitVer[j] < ver[HEAD], NEW c \in inbox'[j], c.req.UpdateVer = ver[HEAD]
      PROVE  c.req = Key /\ c.data = call[HEAD].data
  BY <1>1, <1>4 DEF Good, Proper
<1>5. ASSUME CommitVer[j] < ver[HEAD], pc'[j] = "stored", ver'[j] = ver[HEAD]
      PROVE  call'[j].req = Key /\ call'[j].data = call[HEAD].data
  BY Zenon, <1>5 DEF Good, Proper, Rests
<1>6. ASSUME CommitVer[j] < ver[HEAD], UpdateVer'[j] = ver[HEAD], pc'[j] # "stored"
      PROVE  Key \in okKeys'[j] \cup errKeys'[j]
             \/ (pc'[j] # "idle" /\ call'[j].req = Key /\ call'[j].data = call[HEAD].data)
  BY Zenon, <1>6 DEF Good, Proper, Rests
<1> QED BY <1>3, <1>4, <1>5, <1>6 DEF Good, Proper, Rests

LEMMA StoppedStays ==
  ASSUME NEW j \in Target, Stopped(j), Key' = Key,
         \A i \in Target : errKeys[i] \subseteq errKeys'[i]
  PROVE  Stopped(j)'
BY Zenon DEF Stopped, Follower

LEMMA RestsSent ==
  ASSUME NEW j \in Target \ {TAIL}, SentBy(j), call'[j].req = call[j].req, ver'[j] = ver[j],
         NoMail(j + 1),
         pc'[j + 1] # "idle" /\ call'[j + 1].live =>
           \/ pc[j + 1] # "idle" /\ call[j + 1].live /\ call'[j + 1].req = call[j + 1].req
           \/ \E e \in inbox[j + 1] : e.live /\ e.req = call'[j + 1].req
  PROVE  SentBy(j)'
<1> DEFINE f == forwardReplica(j, call[j], ver[j]).req
<1>1. forwardReplica(j, call'[j], ver'[j]).req = f
  BY Zenon DEF forwardReplica
<1>2. /\ \A c \in inbox[j + 1] : c.live => c.req = f
      /\ pc[j + 1] # "idle" /\ call[j + 1].live => call[j + 1].req = f
  BY Zenon DEF SentBy
<1> HIDE DEF f
<1>3. ASSUME NEW c \in inbox'[j + 1], c.live PROVE c.req = f
  <2>1. PICK e \in inbox[j + 1] : c.req = e.req /\ (c.live => e.live)
    BY Zenon DEF NoMail
  <2> QED BY Zenon, <1>2, <1>3, <2>1
<1>4. pc'[j + 1] # "idle" /\ call'[j + 1].live => call'[j + 1].req = f
  BY Zenon, <1>2
<1> QED BY Zenon, <1>1, <1>3, <1>4 DEF SentBy

(* No request of a target that does not wait is live.                      *)
LEMMA NotWaiting ==
  ASSUME CommitInv, NEW j \in Target \ {TAIL}, pc[j] # "forwarding"
  PROVE  (\A c \in inbox[j + 1] : ~c.live) /\ ~(pc[j + 1] # "idle" /\ call[j + 1].live)
BY Zenon DEF CommitInv, Link, LiveCallOf

LEMMA NotSent ==
  ASSUME CommitInv', NEW j \in Target \ {TAIL}, pc'[j] # "forwarding"
  PROVE  SentBy(j)'
BY Zenon DEF CommitInv, Link, LiveCallOf, SentBy

LEMMA RestsSuccess ==
  ASSUME NEW j \in Target, Rests(j), Success(j), Key' = Key,
         \A k \in Target : okKeys[k] \subseteq okKeys'[k],
         pc'[j] = "acked" => pc[j] = "acked" \/ OkBehind(j)'
  PROVE  Success(j)'
<1>1. OkBehind(j) => OkBehind(j)'
  BY Zenon DEF OkBehind
<1> QED BY Zenon, <1>1 DEF Success, Rests

LEMMA HeadVersion ==
  ASSUME TypeOK, CommitInv, NumberInv, Busy
  PROVE  /\ UpdateVer[HEAD] <= ver[HEAD]
         /\ pc[HEAD] # "stored" => UpdateVer[HEAD] = ver[HEAD]
<1>1. HandlerVer(HEAD) /\ HeadInv /\ UpdateVer[HEAD] \in Nat
  BY Zenon, HeadTarget DEF CommitInv, NumberInv, TypeOK
<1>2. pc[HEAD] \in Control
  BY Zenon, HeadTarget DEF TypeOK
<1> QED BY <1>1, <1>2 DEF HandlerVer, HeadInv, Busy, Control

(* A follower that handles HEAD's request does so under HEAD's version.    *)
LEMMA KeyForwarded ==
  ASSUME TypeOK, CommitInv, NumberInv, Busy,
         NEW j \in Follower, pc[j] # "idle", call[j].req = Key
  PROVE  ver[j] = ver[HEAD] /\ forwardReplica(j, call[j], ver[j]).req = Key
<1>1. j \in Target /\ NotAhead(j) /\ HandlerVer(j)
  BY Zenon DEF Follower, NumberInv, CommitInv
<1>2. call[j].req.UpdateVer = ver[HEAD] /\ call[j].req.CommitVer = ver[HEAD]
  BY Zenon, KeyVersion
<1>3. /\ ver[j] \in Nat /\ ver[HEAD] \in Nat /\ UpdateVer[HEAD] \in Nat /\ call[j] \in Call
  BY Zenon, <1>1, HeadTarget, VersionTypes
<1>4. ver[j] = ver[HEAD]
  BY <1>1, <1>2, <1>3, HeadVersion DEF NotAhead, HandlerVer
<1>5. forwardReplica(j, call[j], ver[j]).req = call[j].req
  BY <1>2, <1>3, <1>4, SameForward
<1> QED BY Zenon, <1>4, <1>5

(* Acknowledged puts stay where they are.                                  *)
Safe(j) ==
  /\ CommitVer[j] <= CommitVer'[j]
  /\ \/ pc'[j] = "stored"
     \/ UpdateVer'[j] > CommitVer[j]
     \/ UpdateVer'[j] = UpdateVer[j] /\ chunks'[j] = chunks[j] /\ pc[j] # "stored"

LEMMA AckedStays ==
  ASSUME Before, \A j \in Target : Safe(j), \A a \in acks' : a \in acks \/ a.cached
  PROVE  AckedInv'
<1>0. \A a \in acks' : ~a.cached => a.data \in Value
  BY Zenon DEF Before, AckInv, AckedInv
<1> SUFFICES ASSUME NEW a \in acks', ~a.cached, NEW j \in Target
             PROVE  /\ CommitVer'[j] >= a.ver
                    /\ UpdateVer'[j] = a.ver /\ pc'[j] # "stored" => chunks'[j] = a.data
  BY Zenon, <1>0 DEF AckedInv, AckedEverywhere
<1>1. /\ CommitVer[j] >= a.ver
      /\ UpdateVer[j] = a.ver /\ pc[j] # "stored" => chunks[j] = a.data
  BY Zenon DEF Before, AckInv, AckedInv, AckedEverywhere
<1>2. CommitVer[j] \in Nat /\ CommitVer'[j] \in Nat /\ a.ver \in Nat /\ UpdateVer'[j] \in Nat
  <2>1. a \in Ack
    BY Zenon DEF Before, TypeOK
  <2>2. a.ver \in Nat
    BY Zenon, <2>1 DEF Ack
  <2> QED BY Zenon, <2>2 DEF Before, TypeOK
<1> QED BY <1>1, <1>2 DEF Safe

LEMMA RestsSafe ==
  ASSUME Before, NEW j \in Target, Rests(j)
  PROVE  Safe(j)
BY DEF Rests, Safe, Before, TypeOK

---------------------------------------------------------------------------
(* A step that leaves every target as it is, but that forwards may return  *)
(* without success and requests may be lost or orphaned.                   *)
LEMMA AllRest ==
  ASSUME Before, \A j \in Target : Rests(j) /\ NoMail(j) /\ (pc'[j] = "acked" => pc[j] = "acked"),
         acks' = acks
  PROVE  AckInv'
<1>1. /\ HeadInv' /\ (Busy' => Busy) /\ Key' = Key /\ ver'[HEAD] = ver[HEAD]
      /\ call'[HEAD].data = call[HEAD].data
  BY Zenon, HeadTarget, HeadRests
<1>2. UpdateVer[HEAD] <= UpdateVer'[HEAD]
  BY HeadTarget DEF Rests, Before, TypeOK
<1>3. NumberInv'
  BY Zenon, <1>1, <1>2, RestsNumbers DEF NumberInv, Follower
<1>4. WireInv'
  <2> SUFFICES ASSUME NEW j \in Target \ {TAIL} PROVE SentBy(j)'
    BY Zenon DEF WireInv
  <2>1. j + 1 \in Target /\ j \in Target /\ SentBy(j)
    BY Zenon, SuccType DEF Before, AckInv, WireInv
  <2>2. pc'[j + 1] # "idle" /\ call'[j + 1].live =>
          pc[j + 1] # "idle" /\ call[j + 1].live /\ call'[j + 1].req = call[j + 1].req
    BY Zenon, <2>1 DEF Rests
  <2> QED BY Zenon, <2>1, <2>2, RestsSent DEF Rests
<1>5. PutInv'
  <2> SUFFICES ASSUME Busy' PROVE (\A i \in Target : Success(i)') /\ (\A i \in Follower : (Good(i) \/ Stopped(i))')
    BY Zenon DEF PutInv
  <2>1. (\A i \in Target : Success(i)) /\ (\A i \in Follower : Good(i) \/ Stopped(i))
    BY Zenon, <1>1 DEF Before, AckInv, PutInv
  <2>2. \A k \in Target : okKeys[k] \subseteq okKeys'[k] /\ errKeys[k] \subseteq errKeys'[k]
    BY Zenon DEF Rests
  <2>3. ASSUME NEW i \in Target PROVE Success(i)'
    BY Zenon, <1>1, <2>1, <2>2, RestsSuccess
  <2>4. ASSUME NEW i \in Follower PROVE Good(i)' \/ Stopped(i)'
    <3>0. i \in Target
      BY Zenon DEF Follower
    <3>1. CASE Good(i)
      <4>1. \A c \in inbox'[i] : \E e \in inbox[i] : c.req = e.req /\ c.data = e.data
        BY Zenon, <3>0 DEF NoMail
      <4> QED BY Zenon, <1>1, <3>0, <3>1, <4>1, RestsGood
    <3>2. CASE Stopped(i)
      BY Zenon, <1>1, <2>2, <3>0, <3>2, StoppedStays
    <3> QED BY Zenon, <2>1, <3>1, <3>2
  <2> QED BY Zenon, <2>3, <2>4
<1>6. AckedInv'
  BY Zenon, RestsSafe, AckedStays
<1> QED BY Zenon, <1>3, <1>4, <1>5, <1>6 DEF AckInv
=============================================================================
