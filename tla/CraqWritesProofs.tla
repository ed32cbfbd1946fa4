-------------------------- MODULE CraqWritesProofs --------------------------
(***************************************************************************)
(* What Craq's writes are for those who use them.  An acknowledged put is  *)
(* committed at every target, and a read returns no older version: every   *)
(* step of a write keeps AckInv, the invariant of module CraqProofs.  And, *)
(* when no request outlives its call, the writes implement CommittedChunk. *)
(***************************************************************************)
EXTENDS CraqReaders, CraqRefinement, CraqProofs

---------------------------------------------------------------------------
(* Acknowledged puts.                                                      *)

LEMMA LoseRequestAck ==
  ASSUME Before, NEW i \in Target \ {TAIL}, LoseRequest(i)
  PROVE  AckInv'
<1>1. PICK c \in inbox[i + 1] : inbox' = [inbox EXCEPT ![i + 1] = @ \ {c}]
  BY Zenon DEF LoseRequest
<1>2. \A j \in Target : inbox'[j] \subseteq inbox[j]
  BY Zenon, <1>1 DEF Before, TypeOK
<1>3. UNCHANGED <<UpdateVer, CommitVer, chunks, okKeys, errKeys, pc, call, ver, acks>>
  BY Zenon DEF LoseRequest, metaVars, idemVars, lockVars
<1>4. \A j \in Target : NoMail(j)
  BY Zenon, <1>2 DEF NoMail
<1>5. \A j \in Target : Rests(j) /\ (pc'[j] = "acked" => pc[j] = "acked")
  BY Zenon, <1>3 DEF Rests
<1> QED BY Zenon, <1>3, <1>4, <1>5, AllRest

LEMMA AttemptFailsAck ==
  ASSUME Before, NEW i \in Target \ {TAIL}, AttemptFails(i)
  PROVE  AckInv'
<1>1. /\ pc[i] = "forwarding"
      /\ pc' = [pc EXCEPT ![i] = "failed"]
      /\ inbox' = [inbox EXCEPT ![i + 1] = {[c EXCEPT !.live = FALSE] : c \in @}]
      /\ call' = [call EXCEPT ![i + 1].live = FALSE]
      /\ UNCHANGED <<UpdateVer, CommitVer, chunks, okKeys, errKeys, ver, acks>>
  BY Zenon DEF AttemptFails, metaVars, idemVars
<1>2. i + 1 \in Target /\ i \in Target
  BY Zenon, SuccType
<1>3. ASSUME NEW j \in Target
      PROVE  call'[j].req = call[j].req /\ call'[j].data = call[j].data /\ (call'[j].live => call[j].live)
  <2>1. call'[j] = IF j = i + 1 THEN [call[j] EXCEPT !.live = FALSE] ELSE call[j]
    BY Zenon, <1>1, <1>2 DEF Before, TypeOK
  <2>2. call[j] \in Call
    BY Zenon DEF Before, TypeOK
  <2>3. /\ [call[j] EXCEPT !.live = FALSE].req = call[j].req
        /\ [call[j] EXCEPT !.live = FALSE].data = call[j].data
        /\ ~[call[j] EXCEPT !.live = FALSE].live
    BY Zenon, <2>2 DEF Call
  <2> QED BY Zenon, <2>1, <2>3
<1>4. ASSUME NEW j \in Target PROVE NoMail(j)
  <2>1. CASE j = i + 1
    <3>1. inbox'[j] = {[c EXCEPT !.live = FALSE] : c \in inbox[j]}
      BY Zenon, <1>1, <1>2, <2>1 DEF Before, TypeOK
    <3>2. ASSUME NEW e \in inbox[j]
          PROVE  /\ [e EXCEPT !.live = FALSE].req = e.req /\ [e EXCEPT !.live = FALSE].data = e.data
                 /\ ~[e EXCEPT !.live = FALSE].live
      <4>1. e \in Call
        BY Zenon DEF Before, TypeOK
      <4> QED BY Zenon, <4>1 DEF Call
    <3> QED BY Zenon, <3>1, <3>2 DEF NoMail
  <2>2. CASE j # i + 1
    <3>1. inbox'[j] = inbox[j]
      BY <1>1, <1>2, <2>2 DEF Before, TypeOK
    <3> QED BY Zenon, <3>1 DEF NoMail
  <2> QED BY Zenon, <2>1, <2>2
<1>5. \A j \in Target : pc'[j] = pc[j] \/ (pc[j] = "forwarding" /\ pc'[j] = "failed")
  BY Zenon, <1>1, <1>2 DEF Before, TypeOK
<1>6. \A j \in Target : Rests(j) /\ (pc'[j] = "acked" => pc[j] = "acked")
  BY Zenon, <1>1, <1>3, <1>5 DEF Rests
<1> QED BY Zenon, <1>1, <1>4, <1>6, AllRest

(* Clients and repairs put requests without a version into HEAD's inbox;   *)
(* a repair stores a peer's copy only where HEAD has none.                 *)
LEMMA EnterAck ==
  ASSUME Before, (\E v \in Value : putChunk(v)) \/ repairChunk \/ raiseChainVer
  PROVE  AckInv'
<1>1. UNCHANGED <<UpdateVer, CommitVer, okKeys, errKeys, pc, call, ver, acks>>
  BY Zenon DEF putChunk, repairChunk, raiseChainVer, metaVars, idemVars, lockVars
<1>2. \A j \in Follower : inbox'[j] = inbox[j] /\ chunks'[j] = chunks[j]
  BY Zenon DEF putChunk, repairChunk, raiseChainVer, Enter, Follower, Before, TypeOK
<1>3. chunks'[HEAD] = chunks[HEAD] \/ chunks[HEAD] = Absent
  <2>1. CASE repairChunk
    BY Zenon, <2>1 DEF repairChunk
  <2> QED BY Zenon, <2>1 DEF putChunk, raiseChainVer
<1>4. \A c \in inbox'[HEAD] : c \in inbox[HEAD] \/ (c.req.UpdateVer = 0 /\ c.data \in Value)
  <2>1. ASSUME NEW s \in {"prepare", "remove"}, NEW b \in BOOLEAN, NEW d \in Value, Enter(headReq(s, b), d)
        PROVE  \A c \in inbox'[HEAD] : c \in inbox[HEAD] \/ (c.req.UpdateVer = 0 /\ c.data \in Value)
    <3>1. inbox'[HEAD] = inbox[HEAD] \cup {[req |-> headReq(s, b), data |-> d, live |-> TRUE]}
      BY Zenon, <2>1, HeadTarget DEF Enter, Before, TypeOK
    <3>2. headReq(s, b).UpdateVer = 0
      BY Zenon DEF headReq
    <3> QED BY <3>1, <3>2
  <2>2. inbox' = inbox \/ \E b \in BOOLEAN, d \in Value : Enter(headReq("prepare", b), d)
    BY Zenon DEF putChunk, repairChunk, raiseChainVer
  <2> QED BY Zenon, <2>1, <2>2
<1>5. HeadInv /\ (Busy => call[HEAD].data \in Value /\ chunks[HEAD] = call[HEAD].data)
  BY Zenon DEF Before, AckInv, NumberInv, HeadInv
<1>6. HeadInv' /\ Busy' = Busy /\ Key' = Key
  <2>1. HeadInv'
    BY Zenon, <1>1, <1>3, <1>4, <1>5, ConstantsOK DEF HeadInv, Busy
  <2>2. Busy' = Busy /\ Key' = Key
    BY Zenon, <1>1 DEF Busy, Key, forwardReplica
  <2> QED BY Zenon, <2>1, <2>2
<1>7. \A j \in Follower : Rests(j) /\ NoMail(j)
  BY Zenon, <1>1, <1>2 DEF Rests, NoMail
<1>8. NumberInv'
  <2>1. UpdateVer[HEAD] <= UpdateVer'[HEAD]
    BY <1>1, HeadTarget DEF Before, TypeOK
  <2> QED BY Zenon, <1>6, <1>7, <2>1, RestsNumbers DEF NumberInv
<1>9. WireInv'
  <2> SUFFICES ASSUME NEW j \in Target \ {TAIL} PROVE SentBy(j)'
    BY Zenon DEF WireInv
  <2>1. j + 1 \in Follower /\ SentBy(j)
    BY Zenon, SuccType DEF Before, AckInv, WireInv, Follower
  <2> QED BY Zenon, <1>1, <1>7, <2>1, RestsSent
<1>10. PutInv'
  <2> SUFFICES ASSUME Busy PROVE (\A i \in Target : Success(i)') /\ (\A i \in Follower : (Good(i) \/ Stopped(i))')
    BY Zenon, <1>6 DEF PutInv
  <2>1. (\A i \in Target : Success(i)) /\ (\A i \in Follower : Good(i) \/ Stopped(i))
    BY Zenon DEF Before, AckInv, PutInv
  <2>2. ASSUME NEW i \in Target PROVE Success(i)'
    BY Zenon, <1>1, <1>6, <2>1 DEF Success, OkBehind
  <2>3. ASSUME NEW i \in Follower PROVE Good(i)' \/ Stopped(i)'
    <3>0. i \in Target /\ ver'[HEAD] = ver[HEAD] /\ call'[HEAD].data = call[HEAD].data
      BY Zenon, <1>1 DEF Follower
    <3>1. CASE Good(i)
      <4>1. \A c \in inbox'[i] : \E e \in inbox[i] : c.req = e.req /\ c.data = e.data
        BY Zenon, <1>2
      <4> QED BY Zenon, <1>6, <1>7, <3>0, <3>1, <4>1, RestsGood
    <3>2. CASE Stopped(i)
      <4>1. \A k \in Target : errKeys[k] \subseteq errKeys'[k]
        BY Zenon, <1>1
      <4> QED BY Zenon, <1>6, <3>0, <3>2, <4>1, StoppedStays
    <3> QED BY Zenon, <2>1, <3>1, <3>2
  <2> QED BY Zenon, <2>2, <2>3
<1>11. AckedInv'
  <2>0. \A a \in acks : ~a.cached => a.data \in Value
    BY Zenon DEF Before, AckInv, AckedInv
  <2> SUFFICES ASSUME NEW a \in acks, ~a.cached, NEW j \in Target
               PROVE  /\ CommitVer[j] >= a.ver
                      /\ UpdateVer[j] = a.ver /\ pc[j] # "stored" => chunks'[j] = a.data
    BY Zenon, <1>1, <2>0 DEF AckedInv, AckedEverywhere
  <2>1. /\ CommitVer[j] >= a.ver
        /\ UpdateVer[j] = a.ver /\ pc[j] # "stored" => chunks[j] = a.data
    BY Zenon DEF Before, AckInv, AckedInv, AckedEverywhere
  <2> QED BY Zenon, <1>2, <1>3, <2>0, <2>1, ConstantsOK DEF Follower
<1> QED BY Zenon, <1>8, <1>9, <1>10, <1>11 DEF AckInv

---------------------------------------------------------------------------
(* A handler that returns.                                                 *)
LEMMA ReturnAck ==
  ASSUME Before, NEW i \in Target, NEW c, NEW res \in {"acked", "failed"}, Reply(i, c, res),
         pc[i] \in {"idle", "failed", "acked"},
         c \in inbox[i] \/ (pc[i] # "idle" /\ c = call[i]),
         UNCHANGED <<UpdateVer, chunks>>, CommitVer[i] <= CommitVer'[i],
         \A j \in Target : inbox'[j] \subseteq inbox[j],
         \A j \in Target \ {i} :
           /\ CommitVer'[j] = CommitVer[j] /\ okKeys'[j] = okKeys[j] /\ errKeys'[j] = errKeys[j]
           /\ call'[j] = call[j] /\ ver'[j] = ver[j],
         okKeys[i] \subseteq okKeys'[i], errKeys[i] \subseteq errKeys'[i],
         okKeys'[i] \cup errKeys'[i] \subseteq okKeys[i] \cup errKeys[i] \cup {c.req},
         i # HEAD => okKeys'[i] \cap errKeys'[i] = {},
         pc[i] # "idle" => c = call[i] /\ c.req \in okKeys'[i] \cup errKeys'[i],
         okKeys'[i] # okKeys[i] => pc[i] = "acked" /\ okKeys'[i] = okKeys[i] \cup {c.req},
         res = "acked" /\ i # HEAD => c.req \in okKeys'[i]
  PROVE  NumberInv' /\ WireInv' /\ PutInv' /\ \A j \in Target : Safe(j)
<1>0. /\ NumberInv /\ WireInv /\ PutInv /\ TypeOK /\ CommitInv /\ CommitInv'
      /\ i \in Nat /\ i \in Target
  BY Zenon, HeadTarget DEF Before, AckInv
<1>1. /\ pc'[i] = "idle"
      /\ \A j \in Target \ {i} :
           pc'[j] = pc[j] \/ (j + 1 = i /\ i # HEAD /\ c.live /\ pc'[j] = res)
  <2>1. i # HEAD => i - 1 \in Target /\ i - 1 # i /\ (i - 1) + 1 = i
    BY ConstantsOK DEF Target, HEAD
  <2> QED BY <1>0, <2>1 DEF Reply, TypeOK
<1>2. ASSUME NEW j \in Target, j + 1 = i, c.live
      PROVE  pc[j] = "forwarding" /\ c.req = forwardReplica(j, call[j], ver[j]).req /\ j \in Target \ {TAIL}
  <2>1. j \in Target \ {TAIL} /\ Link(j)
    BY Zenon, <1>0, <1>2, CalledBy
  <2>2. SentBy(j)
    BY Zenon, <1>0, <2>1 DEF WireInv
  <2> QED BY <1>2, <2>1, <2>2 DEF Link, LiveCallOf, SentBy
<1>3. ASSUME NEW j \in Target, j # i PROVE Rests(j)
  <2>1. pc'[j] = pc[j] \/ (pc[j] = "forwarding" /\ pc'[j] \in {"acked", "failed"})
    BY Zenon, <1>1, <1>2, <1>3
  <2> QED BY Zenon, <1>3, <2>1 DEF Rests
<1>4. \A j \in Target : NoMail(j)
  BY Zenon DEF NoMail
<1>5. UpdateVer[HEAD] <= UpdateVer'[HEAD] /\ UpdateVer[HEAD] \in Nat
  BY HeadTarget DEF Before, TypeOK
<1>6. i = HEAD => HeadInv' /\ ~Busy'
  BY Zenon, <1>0, <1>1 DEF NumberInv, HeadInv, Busy
<1>7. i # HEAD => /\ HeadInv' /\ (Busy' => Busy) /\ Key' = Key /\ ver'[HEAD] = ver[HEAD]
                  /\ call'[HEAD].data = call[HEAD].data
  BY Zenon, <1>3, <1>4, HeadTarget, HeadRests
<1>8. NumberInv'
  <2>1. ASSUME i # HEAD PROVE NotAhead(i)' /\ Once(i)'
    <3>1. NotAhead(i) /\ Once(i) /\ HandlerVer(i) /\ i \in Follower
      BY Zenon, <1>0, <2>1 DEF NumberInv, CommitInv, Follower
    <3>2. c.req.UpdateVer <= UpdateVer[HEAD]
      <4>1. call[i].req.UpdateVer \in Nat /\ ver[i] \in Nat
        BY Zenon, <1>0, VersionTypes
      <4> QED BY <1>5, <3>1, <4>1 DEF NotAhead, HandlerVer
    <3>3. NotAhead(i)'
      BY Zenon, <1>1, <1>5, <2>1, <3>1, <3>2 DEF NotAhead
    <3>4. Once(i)'
      BY Zenon, <1>1, <2>1 DEF Once
    <3> QED BY Zenon, <3>3, <3>4
  <2>2. ASSUME NEW j \in Follower PROVE NotAhead(j)' /\ Once(j)'
    <3>1. j \in Target /\ j # HEAD
      BY Zenon DEF Follower
    <3>2. CASE j = i
      BY Zenon, <2>1, <3>1, <3>2
    <3>3. CASE j # i
      BY Zenon, <1>3, <1>4, <1>5, <3>1, <3>3, RestsNumbers
    <3> QED BY Zenon, <3>2, <3>3
  <2> QED BY Zenon, <1>6, <1>7, <2>2 DEF NumberInv
<1>9. WireInv'
  <2> SUFFICES ASSUME NEW j \in Target \ {TAIL} PROVE SentBy(j)'
    BY Zenon DEF WireInv
  <2>1. j + 1 \in Target /\ j \in Target /\ SentBy(j)
    BY Zenon, <1>0, SuccType DEF WireInv
  <2>2. CASE j = i
    <3>1. pc'[j] # "forwarding"
      BY Zenon, <1>1, <2>2
    <3> QED BY Zenon, <1>0, <3>1, NotSent
  <2>3. CASE j # i
    <3>1. pc'[j + 1] # "idle" /\ call'[j + 1].live =>
            pc[j + 1] # "idle" /\ call[j + 1].live /\ call'[j + 1].req = call[j + 1].req
      BY Zenon, <1>1, <1>3, <2>1 DEF Rests
    <3>2. call'[j].req = call[j].req /\ ver'[j] = ver[j]
      BY Zenon, <2>1, <2>3
    <3> QED BY Zenon, <1>4, <2>1, <3>1, <3>2, RestsSent
  <2> QED BY Zenon, <2>2, <2>3
<1>10. ASSUME i # HEAD, Busy' PROVE (\A j \in Target : Success(j)') /\ (\A j \in Follower : Good(j)' \/ Stopped(j)')
  <2>1. (\A j \in Target : Success(j)) /\ (\A j \in Follower : Good(j) \/ Stopped(j)) /\ Busy
    BY Zenon, <1>0, <1>7, <1>10 DEF PutInv
  <2>2. \A k \in Target : okKeys[k] \subseteq okKeys'[k] /\ errKeys[k] \subseteq errKeys'[k]
    OBVIOUS
  <2>3. i \in Follower /\ Key' = Key
    BY Zenon, <1>7, <1>10 DEF Follower
  <2>4. Key \in okKeys'[i] => OkBehind(i)'
    <3>1. Success(i)
      BY Zenon, <2>1
    <3>2. Key \in okKeys'[i] => OkBehind(i)
      BY <1>10, <3>1 DEF Success
    <3> QED BY Zenon, <2>2, <2>3, <3>2 DEF OkBehind
  <2>5. Success(i)'
    BY Zenon, <1>1, <2>3, <2>4 DEF Success
  <2>6. ASSUME NEW j \in Target, j # i PROVE Success(j)'
    <3>1. Rests(j) /\ Success(j)
      BY Zenon, <1>3, <2>1, <2>6
    <3>2. CASE pc'[j] = "acked" => pc[j] = "acked"
      BY Zenon, <2>2, <2>3, <3>1, <3>2, RestsSuccess
    <3>3. CASE pc'[j] = "acked" /\ pc[j] # "acked" /\ ~(j = HEAD \/ call[j].req = Key)
      <4>1. call'[j].req = call[j].req /\ okKeys'[j] = okKeys[j]
        BY Zenon, <2>6
      <4>2. OkBehind(j) => OkBehind(j)'
        BY Zenon, <2>2, <2>3 DEF OkBehind
      <4> QED BY Zenon, <2>3, <3>1, <3>3, <4>1, <4>2 DEF Success
    <3>4. CASE pc'[j] = "acked" /\ pc[j] # "acked" /\ (j = HEAD \/ call[j].req = Key)
      <4>1. j + 1 = i /\ c.live /\ res = "acked" /\ pc[j] = "forwarding"
        BY Zenon, <1>1, <1>2, <2>6, <3>4
      <4>2. c.req = forwardReplica(j, call[j], ver[j]).req
        BY Zenon, <1>2, <4>1
      <4>3. c.req = Key
        <5>1. CASE j = HEAD
          BY Zenon, <4>2, <5>1 DEF Key
        <5>2. CASE j # HEAD
          <6>1. j \in Follower /\ call[j].req = Key /\ pc[j] # "idle"
            BY Zenon, <3>4, <4>1, <5>2 DEF Follower
          <6> QED BY Zenon, <1>0, <2>1, <4>2, <6>1, KeyForwarded
        <5> QED BY Zenon, <5>1, <5>2
      <4>4. Key \in okKeys'[i] /\ OkBehind(i)'
        BY Zenon, <1>10, <2>4, <4>1, <4>3
      <4>5. OkBehind(j)'
        <5>1. \A k \in Target : j < k => k = i \/ i < k
          BY <1>0, <4>1, HeadTarget
        <5> QED BY Zenon, <2>3, <4>4, <5>1 DEF OkBehind
      <4> QED BY Zenon, <2>2, <2>3, <3>1, <4>5, RestsSuccess
    <3> QED BY Zenon, <3>2, <3>3, <3>4
  <2>7. ASSUME NEW j \in Follower PROVE Good(j)' \/ Stopped(j)'
    <3>0. j \in Target /\ CommitVer[j] \in Nat /\ CommitVer'[j] \in Nat /\ ver[HEAD] \in Nat
          /\ ver'[HEAD] = ver[HEAD] /\ call'[HEAD].data = call[HEAD].data
      BY Zenon, <1>7, <1>10, HeadTarget DEF Follower, Before, TypeOK
    <3>1. CASE Stopped(j)
      BY Zenon, <2>2, <2>3, <3>0, <3>1, StoppedStays
    <3>2. CASE Good(j) /\ j # i
      <4>1. \A y \in inbox'[j] : \E e \in inbox[j] : y.req = e.req /\ y.data = e.data
        BY Zenon, <3>0
      <4>2. Rests(j)
        BY Zenon, <1>3, <3>0, <3>2
      <4> QED BY Zenon, <2>3, <3>0, <3>2, <4>1, <4>2, RestsGood
    <3>3. CASE Good(j) /\ j = i
      <4>1. \A y : Proper(y)' <=> y.req = Key /\ y.data = call[HEAD].data
        BY Zenon, <2>3, <3>0 DEF Proper
      <4>2. UpdateVer[i] = ver[HEAD] => chunks[i] = call[HEAD].data
        BY Zenon, <3>3 DEF Good
      <4>3. CommitVer'[i] < ver[HEAD] => CommitVer[i] < ver[HEAD]
        BY <3>0, <3>3
      <4>4. ASSUME CommitVer[i] < ver[HEAD]
            PROVE  /\ \A y \in inbox'[i] : y.req.UpdateVer = ver[HEAD] => y.req = Key /\ y.data = call[HEAD].data
                   /\ UpdateVer[i] = ver[HEAD] => Key \in okKeys'[i] \cup errKeys'[i]
        BY Zenon, <3>3, <4>4 DEF Good, Proper
      <4>5. Good(i)'
        BY Zenon, <1>1, <2>3, <3>0, <4>1, <4>2, <4>3, <4>4 DEF Good
      <4> QED BY Zenon, <3>3, <4>5
    <3> QED BY Zenon, <2>1, <3>1, <3>2, <3>3
  <2> QED BY Zenon, <2>5, <2>6, <2>7
<1>11. PutInv'
  BY Zenon, <1>6, <1>10 DEF PutInv
<1>12. \A j \in Target : Safe(j)
  <2>1. Safe(i)
    BY Zenon DEF Safe
  <2>2. ASSUME NEW j \in Target, j # i PROVE Safe(j)
    BY Zenon, <1>3, <2>2, RestsSafe
  <2> QED BY Zenon, <2>1, <2>2
<1> QED BY Zenon, <1>8, <1>9, <1>11, <1>12

LEMMA CachedAck ==
  ASSUME Before, NEW i \in Target, NEW c \in inbox[i], Cached(i, c)
  PROVE  AckInv'
<1>1. /\ pc[i] = "idle" /\ inbox' = [inbox EXCEPT ![i] = @ \ {c}]
      /\ UNCHANGED <<UpdateVer, CommitVer, chunks, okKeys, errKeys, call, ver>>
  BY Zenon DEF Cached, Take, metaVars, idemVars, lockVars
<1>2. \A j \in Target : inbox'[j] \subseteq inbox[j]
  BY Zenon, <1>1 DEF Before, TypeOK
<1>3. PICK res \in {"acked", "failed"} :
        /\ Reply(i, c, res) /\ (res = "acked" => c.req \in okKeys[i])
        /\ \A a \in acks' : a \in acks \/ a.cached
  <2>1. CASE c.req \in okKeys[i] /\ ReturnOk(i, c, CommitVer[i], TRUE)
    <3>1. Reply(i, c, "acked")
      BY Zenon, <2>1 DEF ReturnOk
    <3>2. \A a \in acks' : a \in acks \/ a.cached
      <4> DEFINE n == [data |-> c.data, ver |-> CommitVer[i], cached |-> TRUE]
      <4>1. n.cached = TRUE
        OBVIOUS
      <4>2. acks' = acks \/ acks' = acks \cup {n}
        BY Zenon, <2>1 DEF ReturnOk, HeadOk
      <4> HIDE DEF n
      <4> QED BY Zenon, <4>1, <4>2
    <3> QED BY Zenon, <2>1, <3>1, <3>2
  <2>2. CASE ReturnErr(i, c)
    BY Zenon, <2>2 DEF ReturnErr
  <2> QED BY Zenon, <2>1, <2>2 DEF Cached, idempotencyKey
<1>4. CommitVer[i] <= CommitVer'[i]
  BY <1>1 DEF Before, TypeOK
<1>5. i # HEAD => okKeys[i] \cap errKeys[i] = {}
  BY Zenon DEF Before, AckInv, NumberInv, Once, Follower
<1>6. NumberInv' /\ WireInv' /\ PutInv' /\ \A j \in Target : Safe(j)
  BY Zenon, <1>1, <1>2, <1>3, <1>4, <1>5, ReturnAck
<1>7. AckedInv'
  BY Zenon, <1>3, <1>6, AckedStays
<1> QED BY Zenon, <1>6, <1>7 DEF AckInv

LEMMA PrepareFailsAck ==
  ASSUME Before, NEW i \in Target, NEW c \in inbox[i], PrepareFails(i, c)
  PROVE  AckInv'
<1>1. /\ pc[i] = "idle" /\ inbox' = [inbox EXCEPT ![i] = @ \ {c}] /\ c.req \notin okKeys[i]
      /\ errKeys' = [errKeys EXCEPT ![i] = @ \cup {c.req}] /\ Reply(i, c, "failed")
      /\ UNCHANGED <<UpdateVer, CommitVer, chunks, okKeys, call, ver, acks>>
  BY Zenon DEF PrepareFails, Fresh, Take, ReturnErr, rememberErr, idempotencyKey, metaVars, lockVars
<1>2. \A j \in Target : inbox'[j] \subseteq inbox[j]
  BY Zenon, <1>1 DEF Before, TypeOK
<1>3. errKeys'[i] = errKeys[i] \cup {c.req} /\ \A j \in Target \ {i} : errKeys'[j] = errKeys[j]
  BY Zenon, <1>1 DEF Before, TypeOK
<1>4. CommitVer[i] <= CommitVer'[i]
  BY <1>1 DEF Before, TypeOK
<1>5. i # HEAD => okKeys'[i] \cap errKeys'[i] = {}
  BY Zenon, <1>1, <1>3 DEF Before, AckInv, NumberInv, Once, Follower
<1>6. NumberInv' /\ WireInv' /\ PutInv' /\ \A j \in Target : Safe(j)
  BY Zenon, <1>1, <1>2, <1>3, <1>4, <1>5, ReturnAck
<1>7. AckedInv'
  BY Zenon, <1>1, <1>6, AckedStays
<1> QED BY Zenon, <1>6, <1>7 DEF AckInv

LEMMA ForwardFailsAck ==
  ASSUME Before, NEW i \in Target, ForwardFails(i)
  PROVE  AckInv'
<1> DEFINE c == call[i]
<1>1. /\ pc[i] = "failed" /\ Reply(i, c, "failed")
      /\ errKeys' = [errKeys EXCEPT ![i] = @ \cup {c.req}]
      /\ call' = [call EXCEPT ![i] = NoCall] /\ ver' = [ver EXCEPT ![i] = 0]
      /\ UNCHANGED <<UpdateVer, CommitVer, chunks, okKeys, inbox, acks>>
  BY Zenon DEF ForwardFails, ReturnErr, rememberErr, idempotencyKey, metaVars, Release, Hold
<1>2. \A j \in Target : inbox'[j] \subseteq inbox[j]
  BY Zenon, <1>1 DEF Before, TypeOK
<1>3. /\ errKeys'[i] = errKeys[i] \cup {c.req}
      /\ \A j \in Target \ {i} : errKeys'[j] = errKeys[j] /\ call'[j] = call[j] /\ ver'[j] = ver[j]
  BY Zenon, <1>1 DEF Before, TypeOK
<1>4. CommitVer[i] <= CommitVer'[i]
  BY <1>1 DEF Before, TypeOK
<1>5. i # HEAD => okKeys'[i] \cap errKeys'[i] = {}
  BY Zenon, <1>1, <1>3 DEF Before, AckInv, NumberInv, Once, Follower
<1>6. NumberInv' /\ WireInv' /\ PutInv' /\ \A j \in Target : Safe(j)
  BY Zenon, <1>1, <1>2, <1>3, <1>4, <1>5, ReturnAck
<1>7. AckedInv'
  BY Zenon, <1>1, <1>6, AckedStays
<1> QED BY Zenon, <1>6, <1>7 DEF AckInv

(* What HEAD is about to acknowledge is everywhere.                        *)
LEMMA CommitEverywhere ==
  ASSUME TypeOK, CommitInv, AckInv, pc[HEAD] = "acked", NEW j \in Target, j # HEAD
  PROVE  /\ CommitVer[j] >= ver[HEAD]
         /\ UpdateVer[j] = ver[HEAD] /\ pc[j] # "stored" => chunks[j] = call[HEAD].data
<1>1. Busy /\ Success(HEAD) /\ j \in Follower /\ (Good(j) \/ Stopped(j)) /\ Remembered(j) /\ NumberInv
  BY Zenon, HeadTarget DEF Busy, AckInv, PutInv, Follower, CommitInv
<1>2. OkBehind(HEAD)
  BY Zenon, <1>1 DEF Success
<1>3. \A k \in Follower : Key \in okKeys[k]
  BY <1>2, HeadTarget DEF OkBehind, Follower, HEAD
<1>4. CommitVer[j] >= ver[HEAD]
  <2>1. Key.UpdateVer <= CommitVer[j]
    BY Zenon, <1>1, <1>3 DEF Remembered
  <2> QED BY Zenon, <2>1, KeyVersion, HeadTarget, VersionTypes
<1>5. ~Stopped(j)
  BY Zenon, <1>1, <1>3 DEF Stopped, NumberInv, Once
<1> QED BY Zenon, <1>1, <1>4, <1>5 DEF Good

LEMMA WriteCommitAck ==
  ASSUME Before, NEW i \in Target, writeCommit(i)
  PROVE  AckInv'
<1> DEFINE c == call[i]
<1>1. /\ pc[i] = "acked" /\ Reply(i, c, "acked") /\ ReturnOk(i, c, ver[i], FALSE)
      /\ okKeys' = [okKeys EXCEPT ![i] = @ \cup {c.req}]
      /\ CommitVer' = [CommitVer EXCEPT ![i] = Max(@, ver[i])]
      /\ call' = [call EXCEPT ![i] = NoCall] /\ ver' = [ver EXCEPT ![i] = 0]
      /\ UNCHANGED <<UpdateVer, chunks, errKeys, inbox>>
  BY Zenon DEF writeCommit, ReturnOk, rememberOk, idempotencyKey, Release, Hold
<1>2. \A j \in Target : inbox'[j] \subseteq inbox[j]
  BY Zenon, <1>1 DEF Before, TypeOK
<1>3. /\ okKeys'[i] = okKeys[i] \cup {c.req} /\ CommitVer'[i] = Max(CommitVer[i], ver[i])
      /\ \A j \in Target \ {i} : /\ okKeys'[j] = okKeys[j] /\ call'[j] = call[j] /\ ver'[j] = ver[j]
                                 /\ CommitVer'[j] = CommitVer[j]
  BY <1>1 DEF Before, TypeOK
<1>4. CommitVer[i] <= CommitVer'[i] /\ ver[i] <= CommitVer'[i]
  BY <1>3 DEF Before, TypeOK, Max
<1>5. i # HEAD => okKeys'[i] \cap errKeys'[i] = {}
  BY Zenon, <1>1, <1>3 DEF Before, AckInv, NumberInv, Once, Follower
<1>6. NumberInv' /\ WireInv' /\ PutInv' /\ \A j \in Target : Safe(j)
  BY <1>1, <1>2, <1>3, <1>4, <1>5, ReturnAck
<1>7. CASE \A a \in acks' : a \in acks \/ a.cached
  <2>1. AckedInv'
    BY Zenon, <1>6, <1>7, AckedStays
  <2> QED BY Zenon, <1>6, <2>1 DEF AckInv
<1>8. CASE i = HEAD /\ acks' = acks \cup {[data |-> c.data, ver |-> ver[i], cached |-> FALSE]}
  <2> DEFINE n == [data |-> c.data, ver |-> ver[i], cached |-> FALSE]
  <2>1. HeadInv /\ Busy /\ chunks[HEAD] = c.data /\ c.data \in Value
    BY Zenon, <1>1, <1>8 DEF Before, AckInv, NumberInv, HeadInv, Busy
  <2>2. ASSUME NEW j \in Target
        PROVE  /\ CommitVer'[j] >= n.ver
               /\ UpdateVer'[j] = n.ver /\ pc'[j] # "stored" => chunks'[j] = n.data
    <3>1. CASE j = HEAD
      BY Zenon, <1>1, <1>4, <1>8, <2>1, <3>1 DEF Before, TypeOK
    <3>2. CASE j # HEAD
      <4>1. /\ CommitVer[j] >= ver[HEAD]
            /\ UpdateVer[j] = ver[HEAD] /\ pc[j] # "stored" => chunks[j] = call[HEAD].data
        BY Zenon, <1>1, <1>8, <3>2, CommitEverywhere DEF Before
      <4>2. pc'[j] = "stored" \/ pc[j] # "stored"
        BY <1>1, <1>8, <3>2, HeadTarget DEF Reply, Before, TypeOK
      <4> QED BY Zenon, <1>1, <1>3, <1>8, <3>2, <4>1, <4>2
    <3> QED BY Zenon, <3>1, <3>2
  <2>3. ASSUME NEW a \in acks, ~a.cached, NEW j \in Target
        PROVE  /\ CommitVer'[j] >= a.ver
               /\ UpdateVer'[j] = a.ver /\ pc'[j] # "stored" => chunks'[j] = a.data
    <3>1. /\ CommitVer[j] >= a.ver
          /\ UpdateVer[j] = a.ver /\ pc[j] # "stored" => chunks[j] = a.data
      BY Zenon, <2>3 DEF Before, AckInv, AckedInv, AckedEverywhere
    <3>2. CommitVer[j] \in Nat /\ CommitVer'[j] \in Nat /\ a.ver \in Nat /\ UpdateVer'[j] \in Nat
      <4>1. a \in Ack
        BY Zenon DEF Before, TypeOK
      <4>2. a.ver \in Nat
        BY Zenon, <4>1 DEF Ack
      <4> QED BY Zenon, <4>2 DEF Before, TypeOK
    <3>3. Safe(j)
      BY Zenon, <1>6
    <3> QED BY <3>1, <3>2, <3>3 DEF Safe
  <2>4. \A a \in acks : ~a.cached => a.data \in Value
    BY Zenon DEF Before, AckInv, AckedInv
  <2>5. acks' = acks \cup {n} /\ n.data = c.data
    BY Zenon, <1>8
  <2> HIDE DEF n
  <2>6. AckedEverywhere'
    BY Zenon, <2>2, <2>3, <2>5 DEF AckedEverywhere
  <2>7. AckedInv'
    BY Zenon, <2>1, <2>4, <2>5, <2>6 DEF AckedInv
  <2> QED BY Zenon, <1>6, <2>7 DEF AckInv
<1> QED
  <2>1. \/ acks' = acks
        \/ i = HEAD /\ acks' = acks \cup {[data |-> c.data, ver |-> ver[i], cached |-> FALSE]}
    BY Zenon, <1>1 DEF ReturnOk, HeadOk
  <2> QED BY Zenon, <1>7, <1>8, <2>1

---------------------------------------------------------------------------
(* A handler that sends its request on.                                    *)
Onward(i, c) ==
  \/ pc[i] \in {"stored", "failed"} /\ c = call[i] /\ ver'[i] = ver[i]
  \/ /\ pc[i] = "idle" /\ i # HEAD /\ c \in inbox[i] /\ c.req \notin okKeys[i] \cup errKeys[i]
     /\ ver'[i] = UpdateVer[i] /\ c.req.UpdateVer <= CommitVer[i]

LEMMA ForwardAck ==
  ASSUME Before, NEW i \in Target, NEW c \in Call, Onward(i, c),
         pc' = [pc EXCEPT ![i] = IF i = TAIL THEN "acked" ELSE "forwarding"],
         call'[i] = c, UpdateVer'[i] = ver'[i], UNCHANGED <<CommitVer, chunks, okKeys, errKeys, acks>>,
         \A j \in Target \ {i} : UpdateVer'[j] = UpdateVer[j] /\ call'[j] = call[j] /\ ver'[j] = ver[j],
         inbox'[i] \subseteq inbox[i],
         \A j \in Target \ {i, i + 1} : inbox'[j] = inbox[j],
         i # TAIL => inbox'[i + 1] = inbox[i + 1] \cup {forwardReplica(i, c, ver'[i])}
  PROVE  AckInv'
<1> DEFINE f == forwardReplica(i, c, ver'[i])
           v == ver'[i]
<1>0. /\ NumberInv /\ WireInv /\ PutInv /\ TypeOK /\ TypeOK' /\ CommitInv /\ CommitInv'
      /\ i \in Nat /\ v \in Nat /\ HandlerVer(i) /\ UpdateVer[i] \in Nat /\ CommitVer[i] \in Nat
      /\ HEAD \in Target /\ UpdateVer[HEAD] \in Nat /\ pc[i] \in Control
  BY Zenon, HeadTarget DEF Before, AckInv, CommitInv, TypeOK
<1>1. /\ pc'[i] # "idle" /\ pc'[i] # "stored" /\ (pc'[i] = "acked" => i = TAIL)
      /\ \A j \in Target \ {i} : pc'[j] = pc[j]
  BY Zenon, <1>0 DEF TypeOK
<1>2. \A j \in Target : j # i => Rests(j)
  BY Zenon, <1>1 DEF Rests
<1>3. \A j \in Target : j # i + 1 => NoMail(j)
  <2>1. \A j \in Target : j # i + 1 => inbox'[j] \subseteq inbox[j]
    OBVIOUS
  <2> QED BY Zenon, <2>1 DEF NoMail
<1>4. i # TAIL => i + 1 \in Follower /\ i + 1 \in Target /\ i + 1 # i
  BY <1>0, SuccType DEF Follower
<1>5. f.req.UpdateVer = v /\ f.data = c.data /\ f.live
  <2>1. ver'[i] \in Nat
    BY Zenon, <1>0
  <2>2. f.req.UpdateVer = v
    BY Zenon, <2>1 DEF forwardReplica, Call, ReplicaWrite
  <2>3. f.data = c.data
    BY Zenon DEF forwardReplica
  <2>4. f.live
    BY Zenon DEF forwardReplica
  <2> QED BY Zenon, <2>2, <2>3, <2>4
<1>6. pc[i] \in {"stored", "failed"} => pc[i] # "idle"
  OBVIOUS
<1>7. i = HEAD => /\ HeadInv' /\ Busy /\ Key' = Key /\ ver'[HEAD] = ver[HEAD]
                  /\ call'[HEAD].data = call[HEAD].data /\ UpdateVer[HEAD] <= UpdateVer'[HEAD]
                  /\ v # 0 /\ v <= UpdateVer'[HEAD]
  <2> SUFFICES ASSUME i = HEAD
               PROVE  /\ HeadInv' /\ Busy /\ Key' = Key /\ ver'[HEAD] = ver[HEAD]
                      /\ call'[HEAD].data = call[HEAD].data /\ UpdateVer[HEAD] <= UpdateVer'[HEAD]
                      /\ v # 0 /\ v <= UpdateVer'[HEAD]
    OBVIOUS
  <2>1. pc[HEAD] \in {"stored", "failed"} /\ call'[HEAD] = call[HEAD] /\ ver'[HEAD] = ver[HEAD]
        /\ HeadInv /\ Busy
    BY Zenon, <1>0 DEF Onward, NumberInv, Busy
  <2>2. Key' = Key
    BY Zenon, <2>1 DEF Key
  <2>3. UpdateVer[HEAD] <= ver[HEAD]
    BY Zenon, <1>0, <2>1, HeadVersion
  <2>4. HeadInv'
    BY Zenon, <1>1, <2>1 DEF HeadInv, Busy
  <2> QED BY <1>0, <2>1, <2>2, <2>3, <2>4 DEF HeadInv
<1>8. i # HEAD => /\ HeadInv' /\ (Busy' => Busy) /\ Key' = Key /\ ver'[HEAD] = ver[HEAD]
                  /\ call'[HEAD].data = call[HEAD].data /\ UpdateVer[HEAD] <= UpdateVer'[HEAD]
                  /\ v # 0 /\ v <= UpdateVer'[HEAD]
  <2> SUFFICES ASSUME i # HEAD
               PROVE  /\ HeadInv' /\ (Busy' => Busy) /\ Key' = Key /\ ver'[HEAD] = ver[HEAD]
                      /\ call'[HEAD].data = call[HEAD].data /\ UpdateVer[HEAD] <= UpdateVer'[HEAD]
                      /\ v # 0 /\ v <= UpdateVer'[HEAD]
    OBVIOUS
  <2>1. Rests(HEAD) /\ NoMail(HEAD)
    <3>1. HEAD # i + 1
      BY <1>0, HeadTarget DEF HEAD
    <3> QED BY Zenon, <1>0, <1>2, <1>3, <3>1
  <2>2. NotAhead(i) /\ UpdateVer'[HEAD] = UpdateVer[HEAD]
    BY Zenon, <1>0 DEF NumberInv, Follower
  <2>3. v # 0 /\ v <= UpdateVer[HEAD]
    <3>1. CASE pc[i] # "idle"
      BY Zenon, <2>2, <3>1 DEF NotAhead, Onward
    <3>2. CASE pc[i] = "idle"
      <4>1. c.req.UpdateVer \in Nat
        BY Zenon, <1>0, <3>2, VersionTypes DEF Onward
      <4> QED BY <1>0, <2>2, <3>2, <4>1 DEF NotAhead, Onward, HandlerVer
    <3> QED BY Zenon, <3>1, <3>2
  <2> QED BY <1>0, <2>1, <2>2, <2>3, HeadRests
<1>9. /\ HeadInv' /\ (Busy' => Busy) /\ Key' = Key /\ ver'[HEAD] = ver[HEAD]
      /\ call'[HEAD].data = call[HEAD].data /\ UpdateVer[HEAD] <= UpdateVer'[HEAD]
      /\ v # 0 /\ v <= UpdateVer'[HEAD]
  BY Zenon, <1>7, <1>8
<1>10. NumberInv'
  <2> SUFFICES ASSUME NEW j \in Follower PROVE NotAhead(j)' /\ Once(j)'
    BY Zenon, <1>9 DEF NumberInv
  <2>0. j \in Target /\ NotAhead(j) /\ Once(j)
    BY Zenon, <1>0 DEF Follower, NumberInv
  <2>00. /\ \A e \in inbox[j] : e.req.UpdateVer \in Nat
         /\ \A k \in okKeys[j] \cup errKeys[j] : k.UpdateVer \in Nat
         /\ UpdateVer[j] \in Nat /\ ver[j] \in Nat /\ UpdateVer'[HEAD] \in Nat
    BY Zenon, <1>0, <2>0, VersionTypes DEF TypeOK
  <2>1. CASE j = i
    <3>1. NotAhead(j)'
      BY <1>0, <1>9, <2>0, <2>00, <2>1 DEF NotAhead
    <3>2. c.req \notin okKeys[i] \cup errKeys[i]
      BY Zenon, <2>0, <2>1 DEF Once, Onward
    <3>3. Once(j)'
      BY Zenon, <1>1, <2>0, <2>1, <3>2 DEF Once
    <3> QED BY Zenon, <3>1, <3>3
  <2>2. CASE j = i + 1
    <3>1. j # i /\ i # TAIL
      BY <1>0, <2>0, <2>2 DEF Target, TAIL
    <3>2. \A e \in inbox'[j] : e \in inbox[j] \/ e.req.UpdateVer = v
      BY Zenon, <1>5, <2>2, <3>1
    <3>3. Rests(j)
      BY Zenon, <1>2, <2>0, <3>1
    <3>4. NotAhead(j)'
      BY <1>0, <1>9, <2>0, <2>00, <3>2, <3>3 DEF NotAhead, Rests
    <3>5. Once(j)'
      BY Zenon, <2>0, <3>3 DEF Once, Rests
    <3> QED BY Zenon, <3>4, <3>5
  <2>3. CASE j # i /\ j # i + 1
    BY Zenon, <1>2, <1>3, <1>9, <2>0, <2>3, RestsNumbers
  <2> QED BY Zenon, <2>1, <2>2, <2>3
<1>11. WireInv'
  <2> SUFFICES ASSUME NEW j \in Target \ {TAIL} PROVE SentBy(j)'
    BY Zenon DEF WireInv
  <2>0. j + 1 \in Target /\ j \in Target /\ SentBy(j) /\ j \in Nat
    BY Zenon, <1>0, SuccType, HeadTarget DEF WireInv
  <2>1. CASE j = i
    <3>1. pc[i] # "forwarding"
      BY Zenon DEF Onward
    <3>2. (\A e \in inbox[i + 1] : ~e.live) /\ ~(pc[i + 1] # "idle" /\ call[i + 1].live)
      BY Zenon, <1>0, <2>1, <3>1, NotWaiting
    <3>3. \A e \in inbox'[i + 1] : e.live => e = f
      BY Zenon, <2>1, <3>2
    <3>4. ~(pc'[i + 1] # "idle" /\ call'[i + 1].live)
      <4>1. pc'[i + 1] = pc[i + 1] /\ call'[i + 1] = call[i + 1]
        BY Zenon, <1>1, <1>4, <2>1
      <4> QED BY Zenon, <3>2, <4>1
    <3>5. f = forwardReplica(i, call'[i], ver'[i])
      OBVIOUS
    <3> HIDE DEF f
    <3> QED BY Zenon, <2>1, <3>3, <3>4, <3>5 DEF SentBy
  <2>2. CASE j # i
    <3>1. NoMail(j + 1)
      BY <1>0, <1>3, <2>0, <2>2
    <3>2. pc'[j + 1] # "idle" /\ call'[j + 1].live =>
            \/ pc[j + 1] # "idle" /\ call[j + 1].live /\ call'[j + 1].req = call[j + 1].req
            \/ \E e \in inbox[j + 1] : e.live /\ e.req = call'[j + 1].req
      <4>1. CASE j + 1 = i
        BY Zenon, <2>0, <4>1 DEF Onward
      <4>2. CASE j + 1 # i
        BY Zenon, <1>1, <2>0, <4>2
      <4> QED BY Zenon, <4>1, <4>2
    <3>3. call'[j].req = call[j].req /\ ver'[j] = ver[j]
      BY Zenon, <2>0, <2>2
    <3> QED BY Zenon, <2>0, <3>1, <3>2, <3>3, RestsSent
  <2> QED BY Zenon, <2>1, <2>2
<1>12. ASSUME Busy' PROVE (\A j \in Target : Success(j)') /\ (\A j \in Follower : Good(j)' \/ Stopped(j)')
  <2>1. (\A j \in Target : Success(j)) /\ (\A j \in Follower : Good(j) \/ Stopped(j)) /\ Busy
    BY Zenon, <1>0, <1>9, <1>12 DEF PutInv
  <2>2. \A k \in Target : okKeys[k] \subseteq okKeys'[k] /\ errKeys[k] \subseteq errKeys'[k]
    OBVIOUS
  <2>3. ASSUME NEW j \in Target PROVE Success(j)'
    <3>1. CASE j # i
      <4>1. Rests(j) /\ Success(j) /\ pc'[j] = pc[j]
        BY Zenon, <1>1, <1>2, <2>1, <3>1
      <4> QED BY Zenon, <1>9, <2>2, <4>1, RestsSuccess
    <3>2. CASE j = i
      <4>1. Success(i)
        BY Zenon, <2>1
      <4>2. OkBehind(i) => OkBehind(i)'
        BY Zenon, <1>9 DEF OkBehind
      <4>3. pc'[i] = "acked" => OkBehind(i)'
        BY <1>1, HeadTarget DEF OkBehind, Target, TAIL
      <4> QED BY Zenon, <1>9, <3>2, <4>1, <4>2, <4>3 DEF Success
    <3> QED BY Zenon, <3>1, <3>2
  <2>4. ver[HEAD] \in Nat
    BY Zenon, <1>0 DEF TypeOK
  <2>5. ASSUME i # HEAD, Good(i), v = ver[HEAD], CommitVer[i] < ver[HEAD]
        PROVE  (pc[i] # "idle" /\ Proper(call[i]) /\ c = call[i]) \/ Key \in errKeys[i]
    <3>1. Key \notin okKeys[i]
      <4>1. Remembered(i)
        BY Zenon, <1>0, <2>5 DEF CommitInv
      <4> QED BY <1>0, <2>4, <2>5, <4>1, KeyVersion DEF Remembered
    <3>2. CASE pc[i] = "stored"
      BY Zenon, <2>5, <3>2 DEF Good, Onward
    <3>3. CASE pc[i] # "stored"
      BY Zenon, <1>0, <2>5, <3>1, <3>3 DEF Good, Onward, HandlerVer
    <3> QED BY Zenon, <3>2, <3>3
  <2>6. ASSUME i # HEAD, Good(i) PROVE Good(i)'
    <3>0. Once(i) /\ i \in Follower
      BY Zenon, <1>0, <2>6 DEF NumberInv, Follower
    <3>1. \A y : Proper(y)' <=> y.req = Key /\ y.data = call[HEAD].data
      BY Zenon, <1>9 DEF Proper
    <3>2. v = ver[HEAD] => chunks[i] = call[HEAD].data
      <4>1. CASE pc[i] = "stored"
        BY Zenon, <1>0, <2>6, <3>0, <4>1 DEF Good, Onward, HandlerVer, Once, Proper
      <4>2. CASE pc[i] # "stored"
        BY Zenon, <1>0, <2>6, <4>2 DEF Good, Onward, HandlerVer
      <4> QED BY Zenon, <4>1, <4>2
    <3>3. ASSUME CommitVer[i] < ver[HEAD], NEW y \in inbox'[i], y.req.UpdateVer = ver[HEAD]
          PROVE  y.req = Key /\ y.data = call[HEAD].data
      BY Zenon, <2>6, <3>3 DEF Good, Proper
    <3>4. ASSUME CommitVer[i] < ver[HEAD], v = ver[HEAD]
          PROVE  Key \in okKeys[i] \cup errKeys[i] \/ (c.req = Key /\ c.data = call[HEAD].data)
      BY Zenon, <2>5, <2>6, <3>4 DEF Proper
    <3> QED BY Zenon, <1>1, <1>9, <3>1, <3>2, <3>3, <3>4 DEF Good
  <2>7. ASSUME i # TAIL, Good(i + 1), ~Stopped(i + 1) PROVE Good(i + 1)'
    <3>0. i + 1 \in Follower /\ Rests(i + 1)
      BY Zenon, <1>2, <1>4, <2>7
    <3>1. ASSUME v = ver[HEAD], CommitVer[i + 1] < ver[HEAD] PROVE Proper(f)
      <4>1. CASE i = HEAD
        <5>1. c = call[HEAD] /\ v = ver[HEAD]
          BY Zenon, <4>1 DEF Onward
        <5>2. f.req = Key
          BY Zenon, <4>1, <5>1 DEF Key
        <5> QED BY Zenon, <1>5, <5>1, <5>2 DEF Proper
      <4>2. CASE i # HEAD
        <5>1. i \in Follower /\ Link(i)
          BY Zenon, <1>0, <2>7, <4>2 DEF Follower, CommitInv
        <5>2. Key \notin errKeys[i] /\ ~Stopped(i)
          <6>1. \A j \in Nat : j < i => j < i + 1
            BY <1>0
          <6>2. i < i + 1
            BY <1>0
          <6> QED BY Zenon, <2>7, <5>1, <6>1, <6>2, HeadTarget DEF Stopped, Follower
        <5>3. Good(i)
          BY Zenon, <2>1, <5>1, <5>2
        <5>4. CommitVer[i] < ver[HEAD]
          <6>1. CommitVer[i + 1] \in Nat
            BY Zenon, <1>0, <1>4, <2>7 DEF TypeOK
          <6> QED BY <1>0, <2>4, <3>1, <5>1, <6>1 DEF Link
        <5>5. pc[i] # "idle" /\ Proper(call[i]) /\ c = call[i]
          BY Zenon, <2>5, <3>1, <4>2, <5>2, <5>3, <5>4
        <5>6. v = ver[i]
          BY Zenon, <5>5 DEF Onward
        <5>7. forwardReplica(i, call[i], ver[i]).req = Key
          BY Zenon, <1>0, <2>1, <5>1, <5>5, KeyForwarded DEF Proper
        <5> QED BY Zenon, <1>5, <5>5, <5>6, <5>7 DEF Proper
      <4> QED BY Zenon, <4>1, <4>2
    <3>2. \A y \in inbox'[i + 1] :
            \/ \E e \in inbox[i + 1] : y.req = e.req /\ y.data = e.data
            \/ y.req.UpdateVer # ver[HEAD] \/ Proper(y) \/ CommitVer[i + 1] >= ver[HEAD]
      <4>1. CommitVer[i + 1] \in Nat
        BY Zenon, <1>0, <1>4, <2>7 DEF TypeOK
      <4>2. f.req.UpdateVer # ver[HEAD] \/ Proper(f) \/ CommitVer[i + 1] >= ver[HEAD]
        BY <1>5, <2>4, <3>1, <4>1
      <4>3. inbox'[i + 1] = inbox[i + 1] \cup {f}
        BY Zenon, <2>7
      <4> HIDE DEF f
      <4> QED BY Zenon, <4>2, <4>3
    <3> QED BY Zenon, <1>9, <2>7, <3>0, <3>2, RestsGood
  <2>8. ASSUME NEW j \in Follower PROVE Good(j)' \/ Stopped(j)'
    <3>0. j \in Target /\ j # HEAD
      BY Zenon DEF Follower
    <3>1. CASE Stopped(j)
      BY Zenon, <1>9, <2>2, <3>0, <3>1, StoppedStays
    <3>2. CASE Good(j) /\ ~Stopped(j) /\ j = i
      BY Zenon, <2>6, <3>0, <3>2
    <3>3. CASE Good(j) /\ ~Stopped(j) /\ j = i + 1
      <4>1. i # TAIL
        BY <1>0, <3>0, <3>3 DEF Target, TAIL
      <4> QED BY Zenon, <2>7, <3>3, <4>1
    <3>4. CASE Good(j) /\ j # i /\ j # i + 1
      <4>1. \A y \in inbox'[j] : \E e \in inbox[j] : y.req = e.req /\ y.data = e.data
        BY Zenon, <1>3, <3>0, <3>4 DEF NoMail
      <4>2. Rests(j)
        BY Zenon, <1>2, <3>0, <3>4
      <4> QED BY Zenon, <1>9, <3>4, <4>1, <4>2, RestsGood
    <3> QED BY Zenon, <2>1, <3>1, <3>2, <3>3, <3>4
  <2> QED BY Zenon, <2>3, <2>8
<1>13. AckedInv'
  <2>1. Safe(i)
    BY <1>0 DEF Safe, Onward, HandlerVer
  <2>2. \A j \in Target : Safe(j)
    BY Zenon, <1>2, <2>1, RestsSafe
  <2> QED BY Zenon, <2>2, AckedStays
<1> QED BY Zenon, <1>10, <1>11, <1>12, <1>13 DEF AckInv, PutInv

LEMMA SetPendingAck ==
  ASSUME Before, NEW i \in Target, SetPending(i)
  PROVE  AckInv'
<1>1. /\ pc[i] = "stored" /\ Forward(i, call[i], ver[i], inbox)
      /\ UpdateVer' = [UpdateVer EXCEPT ![i] = ver[i]]
      /\ UNCHANGED <<CommitVer, chunks, okKeys, errKeys, acks, call, ver>>
  BY Zenon DEF SetPending, idemVars, lockVars
<1>2. TypeOK /\ call[i] \in Call
  BY Zenon DEF Before, TypeOK
<1>3. /\ pc' = [pc EXCEPT ![i] = IF i = TAIL THEN "acked" ELSE "forwarding"]
      /\ inbox' = IF i = TAIL THEN inbox
                  ELSE [inbox EXCEPT ![i + 1] = @ \cup {forwardReplica(i, call[i], ver[i])}]
  BY Zenon, <1>1 DEF Forward
<1>4. i # TAIL => i + 1 \in Target /\ i + 1 # i
  BY SuccType DEF Target
<1>5. /\ inbox'[i] \subseteq inbox[i]
      /\ \A j \in Target \ {i, i + 1} : inbox'[j] = inbox[j]
      /\ i # TAIL => inbox'[i + 1] = inbox[i + 1] \cup {forwardReplica(i, call[i], ver[i])}
  BY Zenon, <1>2, <1>3, <1>4 DEF TypeOK
<1>6. UpdateVer'[i] = ver[i] /\ \A j \in Target \ {i} : UpdateVer'[j] = UpdateVer[j]
  BY Zenon, <1>1, <1>2 DEF TypeOK
<1>7. Onward(i, call[i]) /\ ver'[i] = ver[i] /\ call'[i] = call[i]
  BY Zenon, <1>1 DEF Onward
<1> QED BY Zenon, <1>1, <1>2, <1>3, <1>5, <1>6, <1>7, ForwardAck

LEMMA NextTransportAck ==
  ASSUME Before, NEW i \in Target \ {TAIL}, NextTransport(i)
  PROVE  AckInv'
<1>1. /\ pc[i] = "failed" /\ pc' = [pc EXCEPT ![i] = "forwarding"]
      /\ inbox' = [inbox EXCEPT ![i + 1] = @ \cup {forwardReplica(i, call[i], ver[i])}]
      /\ UNCHANGED <<UpdateVer, CommitVer, chunks, okKeys, errKeys, acks, call, ver>>
  BY Zenon DEF NextTransport, metaVars, idemVars
<1>2. TypeOK /\ call[i] \in Call /\ HandlerVer(i)
  BY Zenon DEF Before, TypeOK, CommitInv
<1>3. i + 1 \in Target /\ i + 1 # i
  BY SuccType DEF Target
<1>4. /\ inbox'[i] \subseteq inbox[i]
      /\ \A j \in Target \ {i, i + 1} : inbox'[j] = inbox[j]
      /\ inbox'[i + 1] = inbox[i + 1] \cup {forwardReplica(i, call[i], ver[i])}
  BY Zenon, <1>1, <1>2, <1>3 DEF TypeOK
<1>5. UpdateVer'[i] = ver[i]
  BY Zenon, <1>1, <1>2 DEF HandlerVer
<1>6. Onward(i, call[i]) /\ ver'[i] = ver[i] /\ call'[i] = call[i]
  BY Zenon, <1>1 DEF Onward
<1>7. pc' = [pc EXCEPT ![i] = IF i = TAIL THEN "acked" ELSE "forwarding"]
  BY Zenon, <1>1
<1> QED BY Zenon, <1>1, <1>2, <1>4, <1>5, <1>6, <1>7, ForwardAck

(* HEAD numbers its requests itself, so the early return of writePrepare   *)
(* is taken by followers only.                                             *)
LEMMA SkipPrepareAck ==
  ASSUME Before, NEW i \in Target, NEW c \in inbox[i], SkipPrepare(i, c)
  PROVE  AckInv'
<1>1. /\ pc[i] = "idle" /\ c.req \notin okKeys[i] \cup errKeys[i]
      /\ CommitVer[i] >= updateVerOf(i, c)
      /\ Forward(i, c, UpdateVer[i], [inbox EXCEPT ![i] = @ \ {c}])
      /\ call' = [call EXCEPT ![i] = c] /\ ver' = [ver EXCEPT ![i] = UpdateVer[i]]
      /\ UNCHANGED <<UpdateVer, CommitVer, chunks, okKeys, errKeys, acks>>
  BY Zenon DEF SkipPrepare, Fresh, Take, Hold, idempotencyKey, metaVars, idemVars
<1>2. /\ TypeOK /\ c \in Call /\ HandlerVer(i) /\ c.req.UpdateVer \in Nat
      /\ UpdateVer[i] \in Nat /\ CommitVer[i] \in Nat
  BY Zenon, VersionTypes DEF Before, CommitInv
<1>3. i # HEAD
  <2>1. i = HEAD => c.req.UpdateVer = 0
    BY Zenon DEF Before, AckInv, NumberInv, HeadInv
  <2> QED BY <1>1, <1>2, <2>1 DEF updateVerOf, HandlerVer
<1>4. c.req.UpdateVer <= CommitVer[i]
  BY <1>1, <1>2 DEF updateVerOf
<1>5. /\ pc' = [pc EXCEPT ![i] = IF i = TAIL THEN "acked" ELSE "forwarding"]
      /\ inbox' = IF i = TAIL THEN [inbox EXCEPT ![i] = @ \ {c}]
                  ELSE [[inbox EXCEPT ![i] = @ \ {c}]
                          EXCEPT ![i + 1] = @ \cup {forwardReplica(i, c, UpdateVer[i])}]
  BY Zenon, <1>1 DEF Forward
<1>6. i # TAIL => i + 1 \in Target /\ i + 1 # i
  BY SuccType DEF Target
<1>7. /\ inbox'[i] \subseteq inbox[i]
      /\ \A j \in Target \ {i, i + 1} : inbox'[j] = inbox[j]
      /\ i # TAIL => inbox'[i + 1] = inbox[i + 1] \cup {forwardReplica(i, c, UpdateVer[i])}
  BY Zenon, <1>2, <1>5, <1>6 DEF TypeOK
<1>8. /\ call'[i] = c /\ ver'[i] = UpdateVer[i]
      /\ \A j \in Target \ {i} : call'[j] = call[j] /\ ver'[j] = ver[j]
  BY Zenon, <1>1, <1>2 DEF TypeOK
<1>9. Onward(i, c)
  BY Zenon, <1>1, <1>3, <1>4, <1>8 DEF Onward
<1> QED BY Zenon, <1>1, <1>2, <1>5, <1>7, <1>8, <1>9, ForwardAck

---------------------------------------------------------------------------
(* A handler that stores the payload: HEAD under a version nobody has seen *)
(* yet, a follower under the version it was sent.                          *)
LEMMA StoreDataAck ==
  ASSUME Before, NEW i \in Target, NEW c \in inbox[i], StoreData(i, c)
  PROVE  AckInv'
<1> DEFINE v == updateVerOf(i, c)
<1>1. /\ pc[i] = "idle" /\ c.req \notin okKeys[i] \cup errKeys[i] /\ CommitVer[i] < v
      /\ inbox' = [inbox EXCEPT ![i] = @ \ {c}] /\ chunks' = [chunks EXCEPT ![i] = c.data]
      /\ call' = [call EXCEPT ![i] = c] /\ ver' = [ver EXCEPT ![i] = v]
      /\ pc' = [pc EXCEPT ![i] = "stored"]
      /\ UNCHANGED <<UpdateVer, CommitVer, okKeys, errKeys, acks>>
  BY Zenon DEF StoreData, Fresh, Take, Hold, idempotencyKey, metaVars, idemVars
<1>2. /\ NumberInv /\ WireInv /\ PutInv /\ TypeOK /\ TypeOK' /\ CommitInv /\ CommitInv'
      /\ HEAD \in Target /\ UpdateVer[HEAD] \in Nat
  BY Zenon, HeadTarget DEF Before, AckInv, TypeOK
<1>3. /\ inbox'[i] \subseteq inbox[i] /\ chunks'[i] = c.data /\ call'[i] = c /\ ver'[i] = v
      /\ pc'[i] = "stored"
      /\ \A j \in Target \ {i} : /\ inbox'[j] = inbox[j] /\ chunks'[j] = chunks[j]
                                 /\ call'[j] = call[j] /\ ver'[j] = ver[j] /\ pc'[j] = pc[j]
  BY Zenon, <1>1, <1>2 DEF TypeOK
<1>4. \A j \in Target : j # i => Rests(j)
  BY <1>1, <1>3 DEF Rests
<1>5. \A j \in Target : NoMail(j)
  <2>1. \A j \in Target : inbox'[j] \subseteq inbox[j]
    BY Zenon, <1>3
  <2> QED BY Zenon, <2>1 DEF NoMail
<1>6. i = HEAD => HeadInv' /\ v = UpdateVer[HEAD] + 1
  <2>1. i = HEAD => HeadInv /\ c.req.UpdateVer = 0 /\ c.data \in Value
    BY Zenon, <1>2 DEF NumberInv, HeadInv
  <2>2. i = HEAD => v = UpdateVer[HEAD] + 1
    BY Zenon, <2>1 DEF updateVerOf
  <2> HIDE DEF v
  <2> QED BY <1>1, <1>2, <1>3, <2>1, <2>2 DEF HeadInv, Busy
<1>7. i # HEAD => /\ HeadInv' /\ (Busy' => Busy) /\ Key' = Key /\ ver'[HEAD] = ver[HEAD]
                  /\ call'[HEAD].data = call[HEAD].data
                  /\ v = c.req.UpdateVer /\ v # 0 /\ v <= UpdateVer[HEAD]
  <2>1. i # HEAD => c.req.UpdateVer # 0 /\ c.req.UpdateVer <= UpdateVer[HEAD]
    BY Zenon, <1>2 DEF NumberInv, Follower, NotAhead
  <2>2. i # HEAD => v = c.req.UpdateVer
    BY Zenon, <2>1 DEF updateVerOf
  <2>3. i # HEAD => Rests(HEAD) /\ NoMail(HEAD)
    BY Zenon, <1>2, <1>4, <1>5
  <2> HIDE DEF v
  <2> QED BY Zenon, <2>1, <2>2, <2>3, HeadRests
<1> HIDE DEF v
<1>8. NumberInv'
  <2> SUFFICES ASSUME NEW j \in Follower PROVE NotAhead(j)' /\ Once(j)'
    BY Zenon, <1>6, <1>7 DEF NumberInv
  <2>0. j \in Target /\ NotAhead(j) /\ Once(j)
    BY Zenon, <1>2 DEF Follower, NumberInv
  <2>1. CASE j = i
    <3>1. i # HEAD
      BY Zenon, <2>1 DEF Follower
    <3>2. NotAhead(j)'
      BY <1>1, <1>3, <1>7, <2>0, <2>1, <3>1 DEF NotAhead
    <3>3. Once(j)'
      BY <1>1, <1>3, <2>0, <2>1 DEF Once
    <3> QED BY Zenon, <3>2, <3>3
  <2>2. CASE j # i
    <3>1. UpdateVer[HEAD] <= UpdateVer'[HEAD]
      BY <1>1, <1>2
    <3> QED BY Zenon, <1>4, <1>5, <2>0, <2>2, <3>1, RestsNumbers
  <2> QED BY Zenon, <2>1, <2>2
<1>9. WireInv'
  <2> SUFFICES ASSUME NEW j \in Target \ {TAIL} PROVE SentBy(j)'
    BY Zenon DEF WireInv
  <2>0. j + 1 \in Target /\ j \in Target /\ SentBy(j)
    BY Zenon, <1>2, SuccType DEF WireInv
  <2>1. CASE j = i
    <3>1. pc'[j] # "forwarding"
      BY Zenon, <1>3, <2>1
    <3> QED BY Zenon, <1>2, <3>1, NotSent
  <2>2. CASE j # i
    <3>1. pc'[j + 1] # "idle" /\ call'[j + 1].live =>
            \/ pc[j + 1] # "idle" /\ call[j + 1].live /\ call'[j + 1].req = call[j + 1].req
            \/ \E e \in inbox[j + 1] : e.live /\ e.req = call'[j + 1].req
      <4>1. CASE j + 1 = i
        BY Zenon, <1>3, <2>0, <4>1
      <4>2. CASE j + 1 # i
        BY Zenon, <1>3, <2>0, <4>2
      <4> QED BY Zenon, <4>1, <4>2
    <3>2. call'[j].req = call[j].req /\ ver'[j] = ver[j]
      BY Zenon, <1>3, <2>0, <2>2
    <3> QED BY Zenon, <1>5, <2>0, <3>1, <3>2, RestsSent
  <2> QED BY Zenon, <2>1, <2>2
<1>10. AckedInv'
  <2>1. Safe(i)
    BY <1>1, <1>2, <1>3 DEF Safe, TypeOK
  <2>2. \A j \in Target : Safe(j)
    BY Zenon, <1>4, <2>1, RestsSafe
  <2> QED BY Zenon, <1>1, <2>2, AckedStays
<1>11. CASE i = HEAD
  <2>1. ver'[HEAD] = UpdateVer[HEAD] + 1
    BY Zenon, <1>3, <1>6, <1>11
  <2>2. Key'.UpdateVer = UpdateVer[HEAD] + 1
    <3>1. (Key.UpdateVer = ver[HEAD])'
      <4>1. call'[HEAD] \in Call /\ ver'[HEAD] \in Nat
        BY Zenon, <1>2 DEF TypeOK
      <4> QED BY Zenon, <4>1, ForwardKey DEF Key
    <3> QED BY Zenon, <2>1, <3>1
  <2>3. ASSUME NEW j \in Follower
        PROVE  /\ j \in Target /\ j # i /\ NotAhead(j) /\ HandlerVer(j)
               /\ UpdateVer[j] \in Nat /\ ver[j] \in Nat /\ call[j].req.UpdateVer \in Nat
               /\ \A e \in inbox[j] : e.req.UpdateVer \in Nat
               /\ \A k \in okKeys[j] \cup errKeys[j] : k.UpdateVer \in Nat
    BY Zenon, <1>2, <1>11, VersionTypes DEF Follower, NumberInv, CommitInv
  <2>4. ASSUME NEW j \in Target PROVE Success(j)'
    <3>1. CASE j = HEAD
      BY Zenon, <1>3, <1>11, <3>1 DEF Success
    <3>2. CASE j # HEAD
      <4>0. j \in Follower
        BY Zenon, <3>2 DEF Follower
      <4>1. Key' \notin okKeys'[j]
        BY <1>1, <1>2, <2>2, <2>3, <4>0 DEF NotAhead
      <4>2. pc[j] # "idle" => call[j].req # Key'
        BY <1>2, <2>2, <2>3, <4>0 DEF NotAhead, HandlerVer
      <4>3. pc'[j] = pc[j] /\ call'[j] = call[j]
        BY Zenon, <1>3, <2>3, <4>0
      <4> QED BY Zenon, <3>2, <4>1, <4>2, <4>3 DEF Success
    <3> QED BY Zenon, <3>1, <3>2
  <2>5. ASSUME NEW j \in Follower PROVE Good(j)'
    <3>1. UpdateVer[j] # ver'[HEAD] /\ \A e \in inbox[j] : e.req.UpdateVer # ver'[HEAD]
      BY <1>2, <2>1, <2>3, <2>5 DEF NotAhead
    <3>2. pc[j] # "idle" => ver[j] # ver'[HEAD]
      BY <1>2, <2>1, <2>3, <2>5 DEF NotAhead
    <3>3. pc'[j] = pc[j] /\ ver'[j] = ver[j] /\ inbox'[j] = inbox[j]
      BY Zenon, <1>3, <2>3, <2>5
    <3> QED BY Zenon, <1>1, <3>1, <3>2, <3>3 DEF Good
  <2> QED BY Zenon, <1>8, <1>9, <1>10, <2>4, <2>5 DEF AckInv, PutInv
<1>12. CASE i # HEAD
  <2>0. /\ Key' = Key /\ (Busy' => Busy) /\ ver'[HEAD] = ver[HEAD]
        /\ call'[HEAD].data = call[HEAD].data
    BY Zenon, <1>7, <1>12
  <2> SUFFICES ASSUME Busy'
               PROVE  (\A j \in Target : Success(j)') /\ (\A j \in Follower : Good(j)' \/ Stopped(j)')
    BY Zenon, <1>8, <1>9, <1>10 DEF AckInv, PutInv
  <2>1. (\A j \in Target : Success(j)) /\ (\A j \in Follower : Good(j) \/ Stopped(j))
    BY Zenon, <1>2, <2>0 DEF PutInv
  <2>2. \A k \in Target : okKeys[k] \subseteq okKeys'[k] /\ errKeys[k] \subseteq errKeys'[k]
    BY Zenon, <1>1
  <2>3. ASSUME NEW j \in Target PROVE Success(j)'
    <3>1. CASE j # i
      <4>1. Rests(j) /\ Success(j) /\ pc'[j] = pc[j]
        BY Zenon, <1>3, <1>4, <2>1, <3>1
      <4> QED BY Zenon, <2>0, <2>2, <4>1, RestsSuccess
    <3>2. CASE j = i
      <4>1. Success(i)
        BY Zenon, <2>1
      <4>2. OkBehind(i) => OkBehind(i)'
        BY Zenon, <1>1, <2>0 DEF OkBehind
      <4> QED BY Zenon, <1>1, <1>3, <1>12, <2>0, <3>2, <4>1, <4>2 DEF Success
    <3> QED BY Zenon, <3>1, <3>2
  <2>4. ASSUME NEW j \in Follower PROVE Good(j)' \/ Stopped(j)'
    <3>0. j \in Target
      BY Zenon DEF Follower
    <3>1. CASE Stopped(j)
      BY Zenon, <2>0, <2>2, <3>0, <3>1, StoppedStays
    <3>2. CASE Good(j) /\ j # i
      <4>1. \A y \in inbox'[j] : \E e \in inbox[j] : y.req = e.req /\ y.data = e.data
        BY Zenon, <1>5, <3>0 DEF NoMail
      <4>2. Rests(j)
        BY Zenon, <1>4, <3>0, <3>2
      <4> QED BY Zenon, <2>0, <3>2, <4>1, <4>2, RestsGood
    <3>3. CASE Good(j) /\ j = i
      <4>1. \A y : Proper(y)' <=> y.req = Key /\ y.data = call[HEAD].data
        BY Zenon, <2>0 DEF Proper
      <4>2. ASSUME CommitVer[i] < ver[HEAD], NEW y \in inbox[i], y.req.UpdateVer = ver[HEAD]
            PROVE  y.req = Key /\ y.data = call[HEAD].data
        BY Zenon, <3>3, <4>2 DEF Good, Proper
      <4>3. v = c.req.UpdateVer
        BY Zenon, <1>7, <1>12
      <4> QED BY <1>1, <1>3, <2>0, <3>3, <4>1, <4>2, <4>3 DEF Good
    <3> QED BY Zenon, <2>1, <3>1, <3>2, <3>3
  <2> QED BY Zenon, <2>3, <2>4
<1> QED BY Zenon, <1>11, <1>12

---------------------------------------------------------------------------
LEMMA InitAck == Init => AckInv
<1> SUFFICES ASSUME Init PROVE AckInv
  OBVIOUS
<1>0. HEAD \in Target
  BY Zenon, HeadTarget
<1>1. NumberInv
  BY <1>0 DEF Init, NumberInv, HeadInv, Busy, Follower, NotAhead, Once
<1>2. WireInv
  BY Zenon, SuccType DEF Init, WireInv, SentBy
<1>3. PutInv
  BY Zenon, <1>0 DEF Init, PutInv, Busy
<1>4. AckedInv
  BY Zenon DEF Init, AckedInv, AckedEverywhere
<1> QED BY Zenon, <1>1, <1>2, <1>3, <1>4 DEF AckInv

LEMMA NextAck ==
  TypeOK /\ TypeOK' /\ CommitInv /\ CommitInv' /\ AckInv /\ [WriteNext]_vars => AckInv'
<1> SUFFICES ASSUME Before, [WriteNext]_vars PROVE AckInv'
  BY Zenon DEF Before
<1>1. CASE UNCHANGED vars
  <2>1. UNCHANGED <<UpdateVer, CommitVer, chunks, okKeys, errKeys, pc, call, ver, inbox, acks>>
    BY Zenon, <1>1 DEF vars, metaVars, idemVars, lockVars
  <2>2. \A j \in Target : Rests(j) /\ NoMail(j)
    BY Zenon, <2>1 DEF Rests, NoMail
  <2> QED BY Zenon, <2>1, <2>2, AllRest
<1>2. CASE WriteNext
  <2>1. CASE (\E v \in Value : putChunk(v)) \/ repairChunk \/ raiseChainVer
    BY Zenon, <2>1, EnterAck
  <2>2. ASSUME NEW i \in Target, Arrive(i) \/ Proceed(i) PROVE AckInv'
    BY Zenon, <2>2, CachedAck, PrepareFailsAck, StoreDataAck, SkipPrepareAck, SetPendingAck, WriteCommitAck
    DEF Arrive, Proceed
  <2>3. ASSUME NEW i \in Target \ {TAIL}, LoseRequest(i) \/ ForwardReturns(i) PROVE AckInv'
    BY Zenon, <2>3, LoseRequestAck, AttemptFailsAck, NextTransportAck, ForwardFailsAck DEF ForwardReturns
  <2> QED BY Zenon, <1>2, <2>1, <2>2, <2>3 DEF WriteNext
<1> QED BY Zenon, <1>1, <1>2

(* Requests that are lost, sent again, or answered from the memory of      *)
(* idempotency keys never leave a follower with HEAD's version but another *)
(* payload, unless a failure was recorded for it (replica.go).             *)
THEOREM WritesAckInv == WriteSpec => []AckInv
<1>1. Init => AckInv
  BY Zenon, InitAck
<1>2. TypeOK /\ TypeOK' /\ CommitInv /\ CommitInv' /\ AckInv /\ [WriteNext]_vars => AckInv'
  BY Zenon, NextAck
<1> QED BY <1>1, <1>2, WritesTypeCorrect, WritesCommitInv, PTL DEF WriteSpec

(* When HEAD acknowledges a put that it did not answer from its memory,    *)
(* every target has committed that version, or a later one.                *)
THEOREM WritesKeepAcked == WriteSpec => []AckedEverywhere
<1>1. AckInv => AckedEverywhere
  BY Zenon DEF AckInv, AckedInv
<1> QED BY <1>1, WritesAckInv, PTL

---------------------------------------------------------------------------
(* Readers change nothing the writers look at.                             *)
LEMMA ReadersWrite == RSpec => WriteSpec
<1>1. RInit => Init
  BY Zenon DEF RInit
<1>2. [RNext]_rvars => [WriteNext]_vars
  BY Zenon DEF RNext, rvars, CheckMeta, ReadChunk
<1> QED BY <1>1, <1>2, PTL DEF RSpec, WriteSpec

(* A read of any target returns a version at least as new as every put     *)
(* that was acknowledged before it.                                        *)
THEOREM ReadersSeeAcks == RSpec => ReadsSeeAcks
<1>1. TypeOK /\ CommitInv /\ AckedEverywhere =>
        (\A i \in Target : \A a \in acks : ~a.cached => DataVer(i) >= a.ver)
  <2> SUFFICES ASSUME TypeOK, CommitInv, AckedEverywhere, NEW i \in Target, NEW a \in acks, ~a.cached
               PROVE  DataVer(i) >= a.ver
    OBVIOUS
  <2>1. CommitVer[i] >= a.ver
    BY Zenon DEF AckedEverywhere
  <2>2. a.ver \in Nat
    <3>1. a \in Ack
      BY Zenon DEF TypeOK
    <3> QED BY Zenon, <3>1 DEF Ack
  <2>3. /\ CommitVer[i] <= UpdateVer[i]
        /\ pc[i] = "stored" => CommitVer[i] < ver[i]
    BY Zenon DEF CommitInv, HandlerVer
  <2>4. CommitVer[i] \in Nat /\ UpdateVer[i] \in Nat /\ ver[i] \in Nat
    BY Zenon DEF TypeOK
  <2> QED BY <2>1, <2>2, <2>3, <2>4 DEF DataVer
<1>2. TypeOK /\ CommitInv /\ AckedEverywhere =>
        [\A i \in Target : ReadChunk(i) => \A a \in acks : ~a.cached => DataVer(i) >= a.ver]_rvars
  BY Zenon, <1>1
<1> QED
  BY <1>2, ReadersWrite, WritesTypeCorrect, WritesCommitInv, WritesKeepAcked, PTL DEF ReadsSeeAcks

---------------------------------------------------------------------------
(* The refinement.                                                         *)

(* The inductive invariant.                                                *)
Known == TypeOK /\ CommitInv /\ ChainInv /\ ~Orphans

LEMMA Predecessor ==
  ASSUME NEW i \in Target \ {HEAD}
  PROVE  i - 1 \in Target \ {TAIL} /\ i - 1 < i /\ (i - 1) + 1 = i
BY ConstantsOK DEF Target, HEAD, TAIL

(* A request that has arrived, or is handled, behind HEAD is the only one, *)
(* and the predecessor waits for it.                                       *)
LEMMA Arrived ==
  ASSUME Known, NEW i \in Target \ {HEAD}, NEW c \in inbox[i]
  PROVE  /\ pc[i - 1] = "forwarding" /\ HeldVer(i - 1) = UpdateVer[i - 1]
         /\ c.req.UpdateVer = ver[i - 1] /\ ver[i - 1] = UpdateVer[i - 1]
         /\ c.data = chunks[i - 1] /\ c.data \in Value /\ c.live
         /\ inbox[i] = {c} /\ pc[i] = "idle"
<1>1. i - 1 \in Target \ {TAIL} /\ i - 1 \in Target /\ i - 1 < i /\ (i - 1) + 1 = i
  BY Zenon, Predecessor
<1>2. Waiting(i - 1, i) /\ Sent(i) /\ Link(i - 1) /\ HandlerVer(i - 1) /\ Payload(i - 1)
  BY Zenon, <1>1 DEF Known, ChainInv, CommitInv
<1>3. pc[i - 1] = "forwarding" /\ c.live /\ c.data = chunks[i - 1]
  BY Zenon, <1>2 DEF Waiting, Sent
<1>4. \A d \in inbox[i] : d.live
  BY Zenon, <1>2 DEF Sent
<1>5. c.req.UpdateVer = ver[i - 1] /\ (\A d \in inbox[i] : d = c)
  BY Zenon, <1>1, <1>2, <1>3, <1>4 DEF Link, LiveCallOf
<1>6. pc[i] = "idle"
  <2> SUFFICES ASSUME pc[i] # "idle" PROVE FALSE
    OBVIOUS
  <2>1. call[i].live
    BY Zenon, <1>2 DEF Waiting
  <2> QED BY Zenon, <1>1, <1>2, <1>3, <2>1 DEF Link
<1>7. ver[i - 1] = UpdateVer[i - 1] /\ HeldVer(i - 1) = UpdateVer[i - 1] /\ chunks[i - 1] \in Value
  BY Zenon, <1>2, <1>3 DEF HandlerVer, HeldVer, Payload
<1> QED BY Zenon, <1>3, <1>5, <1>6, <1>7

LEMMA AtWork ==
  ASSUME Known, NEW i \in Target \ {HEAD}, pc[i] # "idle"
  PROVE  /\ pc[i - 1] = "forwarding" /\ call[i].live
         /\ call[i].req.UpdateVer = ver[i - 1] /\ inbox[i] = {}
<1>1. i - 1 \in Target \ {TAIL} /\ i - 1 \in Target /\ i - 1 < i /\ (i - 1) + 1 = i
  BY Zenon, Predecessor
<1>2. Waiting(i - 1, i) /\ Link(i - 1)
  BY Zenon, <1>1 DEF Known, ChainInv, CommitInv
<1>3. pc[i - 1] = "forwarding" /\ call[i].live
  BY Zenon, <1>2 DEF Waiting
<1>4. call[i].req.UpdateVer = ver[i - 1]
  BY Zenon, <1>1, <1>2, <1>3 DEF Link, LiveCallOf
<1> QED BY Zenon, <1>3, <1>4, Arrived

(* Nothing goes on behind a target that does not wait.                     *)
LEMMA NothingBehind ==
  ASSUME Known, NEW i \in Target, NEW j \in Target, i < j, pc[i] # "forwarding"
  PROVE  pc[j] = "idle" /\ inbox[j] = {}
BY Zenon DEF Known, ChainInv, Waiting

(* Versions and their order are numbers.                                   *)
LEMMA Numbers ==
  ASSUME TypeOK, NEW i \in Target
  PROVE  /\ UpdateVer[i] \in Nat /\ CommitVer[i] \in Nat /\ ver[i] \in Nat
         /\ HeldVer(i) \in Nat /\ i \in Nat
         /\ \A k \in okKeys[i] : k.UpdateVer \in Nat
         /\ \A c \in inbox[i] : c \in Call /\ c.req.UpdateVer \in Nat
<1>1. UpdateVer[i] \in Nat /\ CommitVer[i] \in Nat /\ ver[i] \in Nat /\ i \in Nat
  BY ConstantsOK DEF TypeOK, Target
<1>2. HeldVer(i) \in Nat
  BY Zenon, <1>1 DEF HeldVer
<1>3. \A k \in okKeys[i] : k.UpdateVer \in Nat
  BY DEF TypeOK, ReplicaWrite
<1>4. \A c \in inbox[i] : c \in Call /\ c.req.UpdateVer \in Nat
  BY DEF TypeOK, ReplicaWrite, Call
<1> QED BY Zenon, <1>1, <1>2, <1>3, <1>4

---------------------------------------------------------------------------
(* A handler that returns, and possibly wakes its predecessor.             *)
LEMMA ReturnChain ==
  ASSUME Known, TypeOK', NEW i \in Target, NEW c, NEW res \in {"acked", "failed"},
         Reply(i, c, res), pc[i] \notin {"stored", "forwarding"},
         UNCHANGED <<chunks, UpdateVer>>,
         \A j \in Target : CommitVer[j] <= CommitVer'[j],
         \A j \in Target \ {i} : /\ call'[j] = call[j] /\ ver'[j] = ver[j]
                                 /\ inbox'[j] = inbox[j] /\ okKeys'[j] = okKeys[j],
         inbox'[i] \subseteq inbox[i], i # HEAD => inbox'[i] = {},
         i # HEAD => \A j \in Target : i < j => \A k \in okKeys'[i] : k.UpdateVer <= CommitVer'[j],
         i # HEAD /\ c.live => pc[i - 1] = "forwarding",
         i # HEAD /\ c.live /\ res = "acked" =>
           \A j \in Target : i <= j => ver[i - 1] <= CommitVer'[j]
  PROVE  ChainInv'
<1>1. /\ pc'[i] = "idle"
      /\ \A j \in Target \ {i} :
           pc'[j] = pc[j] \/ (i # HEAD /\ c.live /\ j = i - 1 /\ pc[j] = "forwarding" /\ pc'[j] = res)
  BY Predecessor DEF Reply, Known, TypeOK
<1>2. \A j \in Target : /\ HeldVer(j)' = HeldVer(j) /\ HeldVer(j) \in Nat /\ j \in Nat
                        /\ UpdateVer[j] \in Nat /\ CommitVer[j] \in Nat /\ CommitVer'[j] \in Nat
  BY <1>1, Numbers DEF Known, HeldVer, TypeOK
<1>3. ASSUME NEW j \in Target PROVE Payload(j)'
  <2>1. Payload(j)
    BY Zenon DEF Known, ChainInv
  <2>2. CASE j = i
    BY Zenon, <1>1, <1>2, <2>1, <2>2 DEF Payload
  <2>3. CASE j # i
    BY Zenon, <1>1, <1>2, <2>1, <2>3 DEF Payload
  <2> QED BY Zenon, <2>2, <2>3
<1>4. ASSUME NEW j \in Target PROVE Sent(j)'
  <2>1. Sent(j) /\ inbox'[j] \subseteq inbox[j]
    BY Zenon DEF Known, ChainInv
  <2> QED BY Zenon, <2>1 DEF Sent
<1>5. ASSUME NEW k \in Target, NEW j \in Target, k < j PROVE Waiting(k, j)'
  <2>1. Waiting(k, j)
    BY Zenon, <1>5 DEF Known, ChainInv
  <2>2. CASE i < j
    <3>1. pc[j] = "idle" /\ inbox[j] = {}
      BY Zenon, <2>2, NothingBehind
    <3> QED BY Zenon, <1>1, <1>2, <2>2, <3>1 DEF Waiting
  <2>3. CASE i = j
    BY <1>1, <1>2, <1>5, <2>3 DEF Waiting, HEAD, Target
  <2>4. CASE j < i
    <3>1. pc'[k] = pc[k] /\ k # i /\ j # i
      BY <1>1, <1>2, <1>5, <2>4
    <3>2. pc[j] = "idle" => pc'[j] = "idle"
      BY Zenon, <1>1, <3>1
    <3> QED BY Zenon, <2>1, <3>1, <3>2 DEF Waiting
  <2> QED BY <1>2, <2>2, <2>3, <2>4
<1>6. ASSUME NEW k \in Target, NEW j \in Target, k < j PROVE Ordered(k, j)'
  BY <1>2, <1>6 DEF Known, ChainInv, Ordered
<1>7. ASSUME NEW k \in Target, NEW j \in Target, k < j PROVE Behind(k, j)'
  <2>1. Behind(k, j) /\ CommitVer[j] <= CommitVer'[j]
    BY Zenon, <1>7 DEF Known, ChainInv
  <2>2. k # HEAD => \A y \in okKeys'[k] : y.UpdateVer <= CommitVer'[j]
    <3>1. CASE k = i
      BY Zenon, <1>7, <3>1
    <3>2. CASE k # i
      BY <1>2, <2>1, <3>2, Numbers DEF Behind, Known
    <3> QED BY Zenon, <3>1, <3>2
  <2>3. pc'[k] = "acked" => ver'[k] <= CommitVer'[j]
    <3>1. CASE pc'[k] = pc[k] /\ k # i
      BY <1>2, <2>1, <3>1, Numbers DEF Behind, Known
    <3>2. CASE i # HEAD /\ c.live /\ k = i - 1 /\ pc'[k] = res
      <4>1. i <= j /\ k # i
        BY <1>2, <1>7, <3>2
      <4> QED BY Zenon, <3>2, <4>1
    <3>3. CASE k = i
      BY Zenon, <1>1, <3>3
    <3> QED BY Zenon, <1>1, <3>1, <3>2, <3>3
  <2> QED BY Zenon, <2>2, <2>3 DEF Behind
<1> QED BY Zenon, <1>3, <1>4, <1>5, <1>6, <1>7 DEF ChainInv

(* A target that forwards what it has stored, or, at TAIL, goes on.        *)
LEMMA ForwardChain ==
  ASSUME Known, TypeOK', NEW i \in Target, NEW c \in Call, NEW v \in Nat, NEW box,
         Forward(i, c, v, box), pc[i] # "forwarding",
         \A k \in Target : k < i => pc[k] = "forwarding",
         box \in [Target -> SUBSET Call], box[i] \subseteq inbox[i],
         \A j \in Target \ {i} : box[j] = inbox[j],
         i # HEAD => c.live /\ box[i] = {},
         c.data = chunks[i], chunks[i] \in Value,
         call'[i] = c, ver'[i] = v, UpdateVer'[i] = v, v = HeldVer(i),
         UNCHANGED <<chunks, CommitVer, okKeys>>,
         \A j \in Target \ {i} : call'[j] = call[j] /\ ver'[j] = ver[j] /\ UpdateVer'[j] = UpdateVer[j]
  PROVE  ChainInv'
<1>0. \A j \in Target : j \in Nat /\ HeldVer(j) \in Nat /\ UpdateVer[j] \in Nat
  BY Zenon, Numbers DEF Known
<1>1. /\ pc'[i] = IF i = TAIL THEN "acked" ELSE "forwarding"
      /\ \A j \in Target \ {i} : pc'[j] = pc[j]
  BY DEF Forward, Known, TypeOK
<1>2. \A j \in Target : HeldVer(j)' = HeldVer(j)
  BY <1>1 DEF HeldVer
<1>3. ASSUME NEW j \in Target, i < j PROVE pc[j] = "idle" /\ inbox[j] = {}
  BY Zenon, <1>3, NothingBehind
<1>4. /\ inbox'[i] = box[i]
      /\ \A j \in Target \ {i} : \/ inbox'[j] = inbox[j]
                                 \/ i # TAIL /\ j = i + 1 /\ inbox'[j] = {forwardReplica(i, c, v)}
  <2>1. CASE i = TAIL
    BY <2>1 DEF Forward
  <2>2. CASE i # TAIL
    <3>1. i + 1 \in Target /\ i < i + 1 /\ box[i + 1] = inbox[i + 1] /\ i + 1 # i
      BY <2>2, <1>0, SuccType
    <3>2. inbox[i + 1] = {}
      BY Zenon, <1>3, <3>1
    <3> QED BY <2>2, <3>1, <3>2 DEF Forward
  <2> QED BY Zenon, <2>1, <2>2
<1>5. ASSUME NEW j \in Target PROVE Payload(j)'
  <2>1. Payload(j)
    BY Zenon DEF Known, ChainInv
  <2>2. CASE j = i
    BY Zenon, <1>1, <1>2, <2>1, <2>2 DEF Payload
  <2>3. CASE j # i
    BY SMTT(30), <1>1, <1>2, <2>1, <2>3 DEF Payload
  <2> QED BY Zenon, <2>2, <2>3
<1>6. ASSUME NEW j \in Target PROVE Sent(j)'
  <2>1. Sent(j)
    BY Zenon DEF Known, ChainInv
  <2>2. CASE inbox'[j] \subseteq inbox[j]
    BY Zenon, <2>1, <2>2 DEF Sent
  <2>3. CASE i # TAIL /\ j = i + 1 /\ inbox'[j] = {forwardReplica(i, c, v)}
    <3>1. forwardReplica(i, c, v).live /\ forwardReplica(i, c, v).data = c.data
      BY Zenon DEF forwardReplica
    <3>2. j # HEAD /\ j - 1 = i
      BY <1>0, <2>3, SuccType
    <3> QED BY <2>3, <3>1, <3>2 DEF Sent
  <2> QED BY Zenon, <1>4, <2>2, <2>3
<1>7. ASSUME NEW k \in Target, NEW j \in Target, k < j PROVE Waiting(k, j)'
  <2>1. Waiting(k, j)
    BY Zenon, <1>7 DEF Known, ChainInv
  <2>2. CASE i < j
    <3>1. pc'[j] = "idle" /\ inbox[j] = {}
      BY <1>0, <1>1, <1>3, <2>2
    <3>2. inbox'[j] # {} => k <= i /\ i # TAIL
      BY <1>0, <1>4, <1>7, <2>2, <3>1
    <3>3. k <= i /\ i # TAIL => pc'[k] = "forwarding"
      BY <1>0, <1>1
    <3> QED BY Zenon, <3>1, <3>2, <3>3 DEF Waiting
  <2>3. CASE i = j
    <3>1. pc'[k] = "forwarding" /\ i # HEAD
      BY <1>0, <1>1, <1>7, <2>3 DEF HEAD, Target
    <3> QED BY Zenon, <2>3, <3>1 DEF Waiting
  <2>4. CASE j < i
    <3>1. k # i /\ j # i /\ inbox'[j] = inbox[j] /\ pc'[k] = pc[k] /\ pc'[j] = pc[j]
      BY SMTT(30), <1>0, <1>1, <1>4, <1>7, <2>4
    <3> QED BY Zenon, <2>1, <3>1 DEF Waiting
  <2> QED BY <1>0, <2>2, <2>3, <2>4
<1>8. ASSUME NEW k \in Target, NEW j \in Target, k < j PROVE Ordered(k, j)'
  <2>1. Ordered(k, j)
    BY Zenon, <1>8 DEF Known, ChainInv
  <2>2. UpdateVer'[j] <= UpdateVer'[k]
    <3>1. CASE i = k
      <4>1. UpdateVer'[j] = HeldVer(j) /\ UpdateVer'[k] = HeldVer(k)
        BY <1>0, <1>3, <1>8, <3>1 DEF HeldVer
      <4> QED BY Zenon, <2>1, <4>1 DEF Ordered
    <3>2. CASE i = j
      <4>1. UpdateVer'[j] = HeldVer(j) /\ UpdateVer'[k] = HeldVer(k)
        BY SMTT(30), <1>0, <1>8, <3>2 DEF HeldVer
      <4> QED BY Zenon, <2>1, <4>1 DEF Ordered
    <3>3. CASE i # k /\ i # j
      BY Zenon, <2>1, <3>3 DEF Ordered
    <3> QED BY Zenon, <3>1, <3>2, <3>3
  <2> QED BY <1>2, <2>1, <2>2 DEF Ordered
<1>9. ASSUME NEW k \in Target, NEW j \in Target, k < j PROVE Behind(k, j)'
  <2>1. Behind(k, j)
    BY Zenon, <1>9 DEF Known, ChainInv
  <2>2. k = i => pc'[k] # "acked"
    BY <1>0, <1>1, <1>9 DEF TAIL, Target
  <2> QED BY SMTT(30), <1>1, <2>1, <2>2 DEF Behind
<1> QED BY Zenon, <1>5, <1>6, <1>7, <1>8, <1>9 DEF ChainInv

LEMMA StoreDataChain ==
  ASSUME Known, TypeOK', NEW i \in Target, NEW c \in inbox[i], StoreData(i, c)
  PROVE  ChainInv'
<1>0. /\ \A j \in Target : j \in Nat /\ HeldVer(j) \in Nat /\ UpdateVer[j] \in Nat
      /\ c.req.UpdateVer \in Nat /\ updateVerOf(i, c) \in Nat
  BY SMTT(30), Numbers DEF Known, updateVerOf
<1>1. /\ pc[i] = "idle" /\ pc'[i] = "stored" /\ call'[i] = c /\ ver'[i] = updateVerOf(i, c)
      /\ chunks'[i] = c.data /\ inbox'[i] = inbox[i] \ {c}
      /\ \A j \in Target \ {i} : /\ pc'[j] = pc[j] /\ call'[j] = call[j] /\ ver'[j] = ver[j]
                                 /\ inbox'[j] = inbox[j] /\ chunks'[j] = chunks[j]
      /\ UNCHANGED <<UpdateVer, CommitVer, okKeys>>
  BY DEF StoreData, Fresh, Take, Hold, Known, TypeOK, metaVars, idemVars
<1>2. HeldVer(i)' = updateVerOf(i, c) /\ HeldVer(i) = UpdateVer[i]
      /\ \A j \in Target \ {i} : HeldVer(j)' = HeldVer(j)
  BY Zenon, <1>1 DEF HeldVer
<1>3. ASSUME NEW j \in Target, i < j PROVE pc[j] = "idle" /\ inbox[j] = {}
  BY Zenon, <1>1, <1>3, NothingBehind
(* The new version is above every other, or that of the predecessor.      *)
<1>4. i = HEAD => HeldVer(i)' = UpdateVer[i] + 1 /\ c.data \in Value
  BY Zenon, <1>2 DEF Known, ChainInv, Sent, updateVerOf
<1>5. i # HEAD => /\ i - 1 \in Target /\ i - 1 < i /\ c.data = chunks[i - 1] /\ c.data \in Value
                  /\ HeldVer(i)' = HeldVer(i - 1) /\ HeldVer(i) <= HeldVer(i - 1) /\ c.live
                  /\ HeldVer(i) = HeldVer(i - 1) => chunks[i] = chunks[i - 1]
                  /\ HeldVer(i - 1) # 0 /\ inbox[i] = {c}
  <2> SUFFICES ASSUME i # HEAD
               PROVE  /\ i - 1 \in Target /\ i - 1 < i /\ c.data = chunks[i - 1] /\ c.data \in Value
                      /\ HeldVer(i)' = HeldVer(i - 1) /\ HeldVer(i) <= HeldVer(i - 1) /\ c.live
                      /\ HeldVer(i) = HeldVer(i - 1) => chunks[i] = chunks[i - 1]
                      /\ HeldVer(i - 1) # 0 /\ inbox[i] = {c}
    OBVIOUS
  <2>1. i - 1 \in Target /\ i - 1 < i
    BY Zenon, Predecessor
  <2>2. /\ c.data = chunks[i - 1] /\ c.data \in Value /\ inbox[i] = {c} /\ c.live
        /\ c.req.UpdateVer = HeldVer(i - 1)
    BY Zenon, Arrived
  <2>3. Ordered(i - 1, i) /\ Payload(i - 1)
    BY Zenon, <2>1 DEF Known, ChainInv
  <2>4. HeldVer(i - 1) # 0
    BY Zenon, <2>2, <2>3, ConstantsOK DEF Payload
  <2> QED BY Zenon, <1>2, <2>1, <2>2, <2>3, <2>4 DEF Ordered, updateVerOf
<1>6. UpdateVer[i] <= HeldVer(i)' /\ HeldVer(i)' # 0 /\ c.data \in Value
  BY <1>0, <1>2, <1>4, <1>5
<1>7. ASSUME NEW j \in Target PROVE Payload(j)'
  <2>1. Payload(j)
    BY Zenon DEF Known, ChainInv
  <2>2. CASE j = i
    BY SMTT(30), <1>1, <1>2, <1>6, <2>2, ConstantsOK DEF Payload
  <2>3. CASE j # i
    BY Zenon, <1>1, <1>2, <2>1, <2>3 DEF Payload
  <2> QED BY Zenon, <2>2, <2>3
<1>8. ASSUME NEW j \in Target PROVE Sent(j)'
  <2>1. Sent(j) /\ inbox'[j] \subseteq inbox[j]
    BY Zenon, <1>1 DEF Known, ChainInv
  <2>2. CASE j # HEAD /\ j - 1 = i
    <3>1. inbox'[j] = {}
      BY <1>0, <1>3, <2>1, <2>2
    <3> QED BY Zenon, <2>2, <3>1 DEF Sent
  <2>3. CASE j # HEAD /\ j - 1 # i
    <3>1. chunks'[j - 1] = chunks[j - 1]
      BY Zenon, <1>1, <2>3, Predecessor
    <3> QED BY Zenon, <2>1, <2>3, <3>1 DEF Sent
  <2>4. CASE j = HEAD
    BY Zenon, <2>1, <2>4 DEF Sent
  <2> QED BY Zenon, <2>2, <2>3, <2>4
<1>9. ASSUME NEW k \in Target, NEW j \in Target, k < j PROVE Waiting(k, j)'
  <2>1. Waiting(k, j)
    BY Zenon, <1>9 DEF Known, ChainInv
  <2>2. CASE i < j
    BY SMTT(30), <1>0, <1>1, <1>3, <2>2 DEF Waiting
  <2>3. CASE i = j
    <3>1. i # HEAD /\ k # i
      BY <1>0, <1>9, <2>3 DEF HEAD, Target
    <3>2. inbox[i] # {} /\ c.live
      BY Zenon, <1>5, <3>1
    <3> QED BY Zenon, <1>1, <2>1, <2>3, <3>1, <3>2 DEF Waiting
  <2>4. CASE j < i
    <3>1. k # i /\ j # i
      BY <1>0, <1>9, <2>4
    <3> QED BY Zenon, <1>1, <2>1, <3>1 DEF Waiting
  <2> QED BY <1>0, <2>2, <2>3, <2>4
<1>10. ASSUME NEW k \in Target, NEW j \in Target, k < j PROVE Ordered(k, j)'
  <2>1. Ordered(k, j)
    BY Zenon, <1>10 DEF Known, ChainInv
  <2>2. CASE i = k
    <3>1. HeldVer(j)' = HeldVer(j) /\ HeldVer(j) <= HeldVer(i) /\ chunks'[j] = chunks[j]
          /\ (HeldVer(j) = HeldVer(i) => chunks[j] = chunks[i])
      BY SMTT(30), <1>0, <1>1, <1>2, <1>10, <2>1, <2>2 DEF Ordered
    <3>2. HeldVer(j)' <= HeldVer(i)'
      BY SMTT(30), <1>0, <1>2, <1>6, <3>1
    <3>3. HeldVer(j)' = HeldVer(i)' => chunks'[j] = chunks'[i]
      <4>1. CASE i = HEAD
        BY SMTT(30), <1>0, <1>2, <1>4, <3>1, <4>1
      <4>2. CASE i # HEAD
        BY SMTT(30), <1>0, <1>1, <1>5, <3>1, <4>2
      <4> QED BY Zenon, <4>1, <4>2
    <3> QED BY SMTT(30), <1>1, <2>1, <2>2, <3>2, <3>3 DEF Ordered
  <2>3. CASE i = j
    <3>1. i # HEAD /\ HeldVer(k)' = HeldVer(k) /\ chunks'[k] = chunks[k]
      BY <1>0, <1>1, <1>2, <1>10, <2>3 DEF HEAD, Target
    <3>2. k = i - 1 \/ k < i - 1
      BY SMTT(30), <1>0, <1>10, <2>3
    <3>3. HeldVer(i - 1) <= HeldVer(k) /\ (HeldVer(i - 1) = HeldVer(k) => chunks[i - 1] = chunks[k])
      BY SMTT(30), <1>0, <1>5, <3>1, <3>2 DEF Known, ChainInv, Ordered
    <3> QED BY <1>1, <1>5, <2>1, <2>3, <3>1, <3>3 DEF Ordered
  <2>4. CASE i # k /\ i # j
    BY <1>1, <1>2, <2>1, <2>4 DEF Ordered
  <2> QED BY Zenon, <2>2, <2>3, <2>4
<1>11. ASSUME NEW k \in Target, NEW j \in Target, k < j PROVE Behind(k, j)'
  BY Zenon, <1>1, <1>11 DEF Known, ChainInv, Behind
<1> QED BY Zenon, <1>7, <1>8, <1>9, <1>10, <1>11 DEF ChainInv

(* HEAD lacks the chunk only while nobody has it, so that a repair finds   *)
(* nothing to fetch from a peer.                                           *)
LEMMA NothingToFetch ==
  ASSUME Known, repairChunk
  PROVE  chunks' = chunks
<1> SUFFICES ASSUME NEW j \in Target \ {HEAD}, chunks[HEAD] = Absent, chunks[j] \in Value
             PROVE  FALSE
  BY Zenon DEF repairChunk
<1>0. HEAD \in Target /\ HEAD < j
  BY ConstantsOK DEF HEAD, Target
<1>1. Payload(HEAD) /\ Payload(j) /\ Ordered(HEAD, j)
  BY Zenon, <1>0 DEF Known, ChainInv
<1>2. HeldVer(j) = 0
  BY <1>0, <1>1, Numbers DEF Payload, Ordered, Known
<1> QED BY Zenon, <1>1, <1>2, ConstantsOK DEF Payload

(* Requests that enter at HEAD, and steps of the wire.                     *)
LEMMA EnterChain ==
  ASSUME Known, TypeOK',
         (\E v \in Value : putChunk(v)) \/ repairChunk \/ raiseChainVer
  PROVE  ChainInv'
<1>0. HEAD \in Target /\ \A j \in Target : j \in Nat /\ HEAD <= j
  BY ConstantsOK DEF HEAD, Target
<1>1. UNCHANGED <<pc, call, ver, UpdateVer, CommitVer, okKeys>>
  BY Zenon DEF putChunk, repairChunk, raiseChainVer, metaVars, idemVars, lockVars
<1>2. chunks' = chunks
  BY NothingToFetch, Zenon DEF putChunk, raiseChainVer
<1>3. /\ \A j \in Target \ {HEAD} : inbox'[j] = inbox[j]
      /\ \A c \in inbox'[HEAD] \ inbox[HEAD] : c.req.UpdateVer = 0 /\ c.data \in Value
  <2>1. ASSUME NEW d \in Value, NEW s \in BOOLEAN, Enter(headReq("prepare", s), d)
        PROVE  /\ \A j \in Target \ {HEAD} : inbox'[j] = inbox[j]
               /\ \A c \in inbox'[HEAD] \ inbox[HEAD] : c.req.UpdateVer = 0 /\ c.data \in Value
    BY <1>0, <2>1 DEF Enter, headReq, Known, TypeOK
  <2>2. CASE inbox' = inbox
    BY Zenon, <2>2
  <2>3. inbox' = inbox \/ \E d \in Value, s \in BOOLEAN : Enter(headReq("prepare", s), d)
    BY Zenon DEF putChunk, repairChunk, raiseChainVer
  <2> QED BY SMTT(30), <2>1, <2>2, <2>3
<1>4. \A j \in Target : HeldVer(j)' = HeldVer(j)
  BY Zenon, <1>1 DEF HeldVer
<1>5. ASSUME NEW j \in Target PROVE Payload(j)' /\ Sent(j)'
  <2>1. Payload(j) /\ Sent(j)
    BY SMTT(30) DEF Known, ChainInv
  <2>2. Payload(j)'
    BY Zenon, <1>1, <1>2, <1>4, <2>1 DEF Payload
  <2>3. Sent(j)'
    BY Zenon, <1>2, <1>3, <2>1 DEF Sent
  <2> QED BY Zenon, <2>2, <2>3
<1>6. ASSUME NEW k \in Target, NEW j \in Target, k < j
      PROVE  Waiting(k, j)' /\ Ordered(k, j)' /\ Behind(k, j)'
  <2>1. Waiting(k, j) /\ Ordered(k, j) /\ Behind(k, j)
    BY Zenon, <1>6 DEF Known, ChainInv
  <2>2. inbox'[j] = inbox[j]
    BY <1>0, <1>3, <1>6
  <2>3. Waiting(k, j)'
    BY SMTT(30), <1>1, <2>1, <2>2 DEF Waiting
  <2>4. Ordered(k, j)' /\ Behind(k, j)'
    BY Zenon, <1>1, <1>2, <1>4, <2>1 DEF Ordered, Behind
  <2> QED BY Zenon, <2>3, <2>4
<1> QED BY Zenon, <1>5, <1>6 DEF ChainInv

LEMMA WireChain ==
  ASSUME Known, TypeOK', NEW i \in Target \ {TAIL}, LoseRequest(i) \/ AttemptFails(i)
  PROVE  ChainInv'
<1>0. i + 1 \in Target \ {HEAD} /\ i + 1 \in Target /\ i < i + 1 /\ (i + 1) - 1 = i
      /\ \A j \in Target : j \in Nat
  BY SuccType, ConstantsOK DEF Target
<1>1. /\ UNCHANGED <<chunks, ver, UpdateVer, CommitVer, okKeys>>
      /\ \A j \in Target \ {i + 1} : call'[j] = call[j] /\ inbox'[j] = inbox[j]
      /\ \A j \in Target \ {i} : pc'[j] = pc[j]
  BY <1>0 DEF LoseRequest, AttemptFails, metaVars, idemVars, lockVars, Known, TypeOK
<1>2. inbox'[i + 1] \subseteq inbox[i + 1] /\ pc[i] = "forwarding"
      /\ \/ pc'[i] = "forwarding" /\ call' = call
         \/ pc'[i] = "failed" /\ inbox[i + 1] = {} /\ pc[i + 1] = "idle"
  <2>1. CASE LoseRequest(i)
    BY SMTT(30), <1>0, <2>1 DEF LoseRequest, lockVars, Known, TypeOK
  <2>2. CASE AttemptFails(i)
    <3>1. ~Outstanding(i) /\ pc'[i] = "failed" /\ pc[i] = "forwarding"
      BY <2>2, SMTT(30) DEF AttemptFails, Known, TypeOK
    <3>2. \A c \in inbox[i + 1] : c.live
      BY Zenon, <1>0 DEF Known, ChainInv, Sent
    <3>3. inbox[i + 1] = {}
      BY Zenon, <3>1, <3>2 DEF Outstanding
    <3>4. pc[i + 1] = "idle"
      BY <1>0, <3>1, AtWork DEF Outstanding
    <3>5. inbox'[i + 1] = {}
      BY SMTT(30), <1>0, <2>2, <3>3 DEF AttemptFails, Known, TypeOK
    <3> QED BY Zenon, <3>1, <3>3, <3>4, <3>5
  <2> QED BY SMTT(30), <2>1, <2>2
<1>4. \A j \in Target : HeldVer(j)' = HeldVer(j)
  BY Zenon, <1>1, <1>2 DEF HeldVer
<1>5. ASSUME NEW j \in Target PROVE Payload(j)' /\ Sent(j)'
  <2>1. Payload(j) /\ Sent(j)
    BY Zenon DEF Known, ChainInv
  <2>2. pc'[j] # "idle" => pc[j] # "idle" /\ call'[j] = call[j]
    BY Zenon, <1>0, <1>1, <1>2
  <2>3. pc'[j] = "stored" => pc[j] = "stored"
    BY SMTT(30), <1>1, <1>2
  <2>4. Payload(j)'
    BY SMTT(30), <1>1, <1>4, <2>1, <2>2, <2>3 DEF Payload
  <2>5. inbox'[j] \subseteq inbox[j]
    BY SMTT(30), <1>1, <1>2
  <2> QED BY Zenon, <1>1, <2>1, <2>4, <2>5 DEF Sent
<1>6. ASSUME NEW k \in Target, NEW j \in Target, k < j
      PROVE  Waiting(k, j)' /\ Ordered(k, j)' /\ Behind(k, j)'
  <2>1. Waiting(k, j) /\ Ordered(k, j) /\ Behind(k, j)
    BY SMTT(30), <1>6 DEF Known, ChainInv
  <2>2. inbox'[j] \subseteq inbox[j] /\ (pc'[j] = "idle" <=> pc[j] = "idle")
        /\ (pc'[j] # "idle" => call'[j] = call[j])
    BY SMTT(30), <1>0, <1>1, <1>2
  <2>3. k = i /\ pc'[i] = "failed" => inbox'[j] = {} /\ pc'[j] = "idle"
    <3> SUFFICES ASSUME k = i, pc'[i] = "failed" PROVE inbox[j] = {} /\ pc[j] = "idle"
      BY SMTT(30), <2>2
    <3>1. inbox[i + 1] = {} /\ pc[i + 1] = "idle"
      BY SMTT(30), <1>2
    <3>2. CASE j = i + 1
      BY SMTT(30), <3>1, <3>2
    <3>3. CASE i + 1 < j
      BY SMTT(30), <1>0, <3>1, <3>3, NothingBehind
    <3> QED BY SMTT(30), <1>0, <1>6, <3>2, <3>3
  <2>4. Waiting(k, j)'
    BY SMTT(30), <1>1, <1>2, <2>1, <2>2, <2>3 DEF Waiting
  <2>5. Ordered(k, j)'
    BY SMTT(30), <1>1, <1>4, <2>1 DEF Ordered
  <2>6. pc'[k] = "acked" => pc[k] = "acked"
    BY Zenon, <1>1, <1>2
  <2> QED BY Zenon, <1>1, <2>1, <2>4, <2>5, <2>6 DEF Behind
<1> QED BY Zenon, <1>5, <1>6 DEF ChainInv

---------------------------------------------------------------------------
(* The handlers that return.                                               *)
LEMMA RequestReturns ==
  ASSUME Known, TypeOK', NEW i \in Target, NEW c \in inbox[i],
         Cached(i, c) \/ PrepareFails(i, c)
  PROVE  ChainInv'
<1>1. /\ pc[i] = "idle"
      /\ UNCHANGED <<chunks, UpdateVer, CommitVer, call, ver, okKeys>>
      /\ inbox' = [inbox EXCEPT ![i] = @ \ {c}]
  BY ZenonT(40) DEF Cached, PrepareFails, Take, Fresh, rememberErr, metaVars, idemVars, lockVars
<1>2. /\ \A j \in Target : CommitVer[j] <= CommitVer'[j]
      /\ \A j \in Target \ {i} : /\ call'[j] = call[j] /\ ver'[j] = ver[j]
                                 /\ inbox'[j] = inbox[j] /\ okKeys'[j] = okKeys[j]
      /\ inbox'[i] = inbox[i] \ {c}
  BY <1>1, Numbers, SMTT(30) DEF Known, TypeOK
<1>3. i # HEAD => inbox'[i] = {} /\ pc[i - 1] = "forwarding"
  BY Zenon, <1>2, Arrived
<1>4. i # HEAD => \A j \in Target : i < j => \A k \in okKeys'[i] : k.UpdateVer <= CommitVer'[j]
  BY <1>1, Zenon DEF Known, ChainInv, Behind
<1>5. CASE Reply(i, c, "failed")
  BY <1>1, <1>2, <1>3, <1>4, <1>5, ReturnChain, ZenonT(40)
<1>6. CASE Reply(i, c, "acked") /\ c.req \in okKeys[i]
  <2>1. i # HEAD => \A j \in Target : i <= j => ver[i - 1] <= CommitVer'[j]
    <3> SUFFICES ASSUME i # HEAD, NEW j \in Target, i <= j PROVE ver[i - 1] <= CommitVer'[j]
      BY Zenon
    <3>1. c.req.UpdateVer = ver[i - 1]
      BY SMTT(30), Arrived
    <3>2. CASE i = j
      BY SMTT(30), <1>1, <1>6, <3>1, <3>2 DEF Known, CommitInv, Remembered
    <3>3. CASE i < j
      BY Zenon, <1>1, <1>6, <3>1, <3>3 DEF Known, ChainInv, Behind
    <3> QED BY SMTT(30), <3>2, <3>3, Numbers DEF Known
  <2> QED BY <1>1, <1>2, <1>3, <1>4, <1>6, <2>1, ReturnChain, ZenonT(40)
<1> QED BY <1>5, <1>6, Zenon DEF Cached, PrepareFails, ReturnOk, ReturnErr, idempotencyKey

LEMMA HandlerReturns ==
  ASSUME Known, TypeOK', NEW i \in Target, ForwardFails(i) \/ writeCommit(i)
  PROVE  ChainInv'
<1>1. /\ pc[i] \in {"failed", "acked"}
      /\ UNCHANGED <<chunks, UpdateVer, inbox>>
      /\ \A j \in Target \ {i} : /\ call'[j] = call[j] /\ ver'[j] = ver[j]
                                 /\ CommitVer'[j] = CommitVer[j] /\ okKeys'[j] = okKeys[j]
      /\ okKeys'[i] \subseteq okKeys[i] \cup {call[i].req}
      /\ okKeys'[i] # okKeys[i] => pc[i] = "acked"
  BY ZenonT(40) DEF ForwardFails, writeCommit, Release, Hold, rememberOk, rememberErr, idempotencyKey,
         metaVars, Known, TypeOK
<1>2. /\ CommitVer[i] \in Nat /\ ver[i] \in Nat /\ call[i].req.UpdateVer \in Nat
      /\ call[i].req.UpdateVer <= ver[i] /\ \A j \in Target : CommitVer[j] \in Nat /\ j \in Nat
  BY Zenon, <1>1, Numbers DEF Known, CommitInv, HandlerVer, TypeOK, Call, ReplicaWrite
<1>3. CommitVer'[i] = CommitVer[i] \/ CommitVer'[i] = Max(CommitVer[i], ver[i])
  BY Zenon DEF ForwardFails, writeCommit, metaVars, Known, TypeOK
<1>4. ASSUME NEW j \in Target PROVE CommitVer[j] <= CommitVer'[j]
  <2>1. CASE j = i
    BY SMTT(30), <1>2, <1>3, <2>1 DEF Max
  <2>2. CASE j # i
    BY SMTT(30), <1>1, <1>2, <2>2
  <2> QED BY Zenon, <2>1, <2>2
<1>5. pc[i] = "acked" => \A j \in Target : i < j => call[i].req.UpdateVer <= CommitVer[j]
  BY SMTT(30), <1>2 DEF Known, ChainInv, Behind
<1>6. i # HEAD => /\ inbox'[i] = {} /\ pc[i - 1] = "forwarding"
                  /\ ver[i - 1] = call[i].req.UpdateVer
  BY Zenon, <1>1, AtWork
<1>7. i # HEAD => \A j \in Target : i < j => \A k \in okKeys'[i] : k.UpdateVer <= CommitVer'[j]
  <2> SUFFICES ASSUME i # HEAD, NEW j \in Target, i < j, NEW k \in okKeys'[i]
               PROVE  k.UpdateVer <= CommitVer'[j]
    OBVIOUS
  <2>0. j # i
    BY <1>2
  <2>1. CommitVer'[j] = CommitVer[j]
    BY Zenon, <1>1, <2>0
  <2>2. CASE k \in okKeys[i]
    BY SMTT(30), <2>1, <2>2 DEF Known, ChainInv, Behind
  <2>3. CASE k \notin okKeys[i]
    BY SMTT(30), <1>1, <1>5, <2>1, <2>3
  <2> QED BY Zenon, <2>2, <2>3
<1>f. /\ pc[i] \notin {"stored", "forwarding"} /\ UNCHANGED <<chunks, UpdateVer>>
      /\ \A j \in Target \ {i} : /\ call'[j] = call[j] /\ ver'[j] = ver[j]
                                 /\ inbox'[j] = inbox[j] /\ okKeys'[j] = okKeys[j]
      /\ inbox'[i] \subseteq inbox[i] /\ (i # HEAD => inbox'[i] = {})
      /\ (i # HEAD /\ call[i].live => pc[i - 1] = "forwarding")
  BY Zenon, <1>1, <1>6
<1>8. CASE ForwardFails(i)
  <2>1. Reply(i, call[i], "failed")
    BY ZenonT(40), <1>8 DEF ForwardFails, ReturnErr
  <2> QED BY Zenon, <1>4, <1>7, <1>f, <2>1, ReturnChain
<1>9. CASE writeCommit(i)
  <2>1. Reply(i, call[i], "acked") /\ pc[i] = "acked" /\ CommitVer'[i] = Max(CommitVer[i], ver[i])
    BY Zenon, <1>9 DEF writeCommit, ReturnOk, Known, TypeOK
  <2>2. i # HEAD => \A j \in Target : i <= j => ver[i - 1] <= CommitVer'[j]
    <3> SUFFICES ASSUME i # HEAD, NEW j \in Target, i <= j PROVE ver[i - 1] <= CommitVer'[j]
      BY Zenon
    <3>1. CASE i = j
      BY <1>2, <1>6, <2>1, <3>1, SMTT(30) DEF Max
    <3>2. CASE i < j
      <4>0. j # i
        BY <1>2, <3>2
      <4>1. CommitVer'[j] = CommitVer[j]
        BY Zenon, <1>1, <4>0
      <4>2. call[i].req.UpdateVer <= CommitVer[j]
        BY Zenon, <1>5, <2>1, <3>2
      <4> QED BY Zenon, <1>6, <4>1, <4>2
    <3> QED BY SMTT(30), <1>2, <3>1, <3>2
  <2> QED BY Zenon, <1>4, <1>7, <1>f, <2>1, <2>2, ReturnChain
<1> QED BY Zenon, <1>8, <1>9

(* The handlers that forward.                                              *)
LEMMA Predecessors ==
  ASSUME Known, NEW i \in Target, i = HEAD \/ pc[i] # "idle" \/ inbox[i] # {}
  PROVE  \A k \in Target : k < i => pc[k] = "forwarding"
BY ConstantsOK, SMTT(30) DEF Known, ChainInv, Waiting, HEAD, Target

LEMMA HandlerForwards ==
  ASSUME Known, TypeOK', NEW i \in Target,
         SetPending(i) \/ (i # TAIL /\ NextTransport(i))
  PROVE  ChainInv'
<1>1. /\ pc[i] \in {"stored", "failed"} /\ Forward(i, call[i], ver[i], inbox)
      /\ UNCHANGED <<chunks, CommitVer, okKeys, call, ver>>
      /\ \A j \in Target \ {i} : UpdateVer'[j] = UpdateVer[j]
  BY SMTT(30) DEF SetPending, NextTransport, Forward, metaVars, idemVars, lockVars, Known, TypeOK
<1>2. ver[i] = HeldVer(i) /\ UpdateVer'[i] = ver[i]
  BY Zenon, <1>1 DEF SetPending, NextTransport, metaVars, HeldVer, Known, CommitInv, HandlerVer, TypeOK
<1>3. call[i].data = chunks[i] /\ chunks[i] \in Value
  BY <1>1, Zenon DEF Known, ChainInv, Payload
<1>4. call[i] \in Call /\ ver[i] \in Nat /\ inbox \in [Target -> SUBSET Call]
  BY SMTT(30) DEF Known, TypeOK
<1>5. i # HEAD => call[i].live /\ inbox[i] = {}
  BY <1>1, AtWork, SMTT(30)
<1>6. \A k \in Target : k < i => pc[k] = "forwarding"
  BY <1>1, Predecessors, SMTT(30)
<1> QED BY SMTT(30), <1>1, <1>2, <1>3, <1>4, <1>5, <1>6, ForwardChain

LEMMA SkipPrepareChain ==
  ASSUME Known, TypeOK', NEW i \in Target, NEW c \in inbox[i], SkipPrepare(i, c)
  PROVE  ChainInv'
<1> DEFINE box == [inbox EXCEPT ![i] = @ \ {c}]
<1>1. /\ pc[i] = "idle" /\ Forward(i, c, UpdateVer[i], box)
      /\ call'[i] = c /\ ver'[i] = UpdateVer[i] /\ updateVerOf(i, c) <= CommitVer[i]
      /\ \A j \in Target \ {i} : call'[j] = call[j] /\ ver'[j] = ver[j]
      /\ UNCHANGED <<chunks, CommitVer, okKeys, UpdateVer>>
  <2>1. updateVerOf(i, c) \in Nat /\ CommitVer[i] \in Nat
    BY Numbers, SMTT(30) DEF Known, updateVerOf
  <2> QED BY SMTT(30), <2>1 DEF SkipPrepare, Fresh, Take, Hold, metaVars, idemVars, Known, TypeOK
<1>2. UpdateVer[i] = HeldVer(i) /\ CommitVer[i] <= UpdateVer[i]
  <2>1. UpdateVer[i] = HeldVer(i)
    BY Zenon, <1>1 DEF HeldVer
  <2>2. CommitVer[i] <= UpdateVer[i]
    BY Zenon, <1>1 DEF Known, CommitInv, HandlerVer
  <2> QED BY Zenon, <2>1, <2>2
<1>3. UpdateVer[i] \in Nat /\ CommitVer[i] \in Nat /\ c \in Call /\ c.req.UpdateVer \in Nat
  BY SMTT(30), Numbers DEF Known
(* HEAD numbers its puts anew, so it never skips one.                      *)
<1>4. i # HEAD
  BY <1>1, <1>2, <1>3, SMTT(30) DEF Known, ChainInv, Sent, updateVerOf
<1>5. /\ i - 1 \in Target /\ i - 1 < i /\ c.data = chunks[i - 1] /\ c.data \in Value
      /\ c.req.UpdateVer = HeldVer(i - 1) /\ inbox[i] = {c} /\ c.live
  BY SMTT(30), <1>4, Predecessor, Arrived
<1>6. HeldVer(i) <= HeldVer(i - 1) /\ (HeldVer(i) = HeldVer(i - 1) => chunks[i] = chunks[i - 1])
      /\ HeldVer(i - 1) \in Nat /\ HeldVer(i - 1) # 0
  <2>1. Ordered(i - 1, i) /\ Payload(i - 1)
    BY SMTT(30), <1>5 DEF Known, ChainInv
  <2>2. HeldVer(i - 1) \in Nat
    BY SMTT(30), <1>5, Numbers DEF Known
  <2> QED BY SMTT(30), <1>5, <2>1, <2>2, ConstantsOK DEF Ordered, Payload
<1>7. HeldVer(i) = HeldVer(i - 1)
  BY SMTT(30), <1>1, <1>2, <1>3, <1>5, <1>6 DEF updateVerOf
<1>8. c.data = chunks[i] /\ chunks[i] \in Value
  BY SMTT(30), <1>5, <1>6, <1>7
<1>9. box \in [Target -> SUBSET Call] /\ box[i] = {} /\ \A j \in Target \ {i} : box[j] = inbox[j]
  BY Zenon, <1>5 DEF Known, TypeOK
<1>10. \A k \in Target : k < i => pc[k] = "forwarding"
  BY Zenon, Predecessors
<1> HIDE DEF box
<1> QED BY <1>1, <1>2, <1>3, <1>5, <1>8, <1>9, <1>10, ForwardChain, SMTT(30)

LEMMA InitChain == Init => ChainInv
<1> SUFFICES ASSUME Init PROVE ChainInv
  OBVIOUS
<1>1. \A i \in Target : i \in Nat /\ HeldVer(i) = 0
  BY SMTT(30), ConstantsOK DEF Init, HeldVer, Target
<1>2. \A i \in Target : Payload(i) /\ Sent(i)
  BY Zenon, <1>1 DEF Init, Payload, Sent
<1>3. \A i, j \in Target : Waiting(i, j) /\ Ordered(i, j) /\ Behind(i, j)
  BY <1>1 DEF Init, Waiting, Ordered, Behind
<1> QED BY Zenon, <1>2, <1>3 DEF ChainInv

LEMMA NextChain == Known /\ TypeOK' /\ [WriteNext]_vars => ChainInv'
<1> SUFFICES ASSUME Known, TypeOK', [WriteNext]_vars PROVE ChainInv'
  BY Zenon
<1>1. CASE UNCHANGED vars
  BY <1>1 DEF vars, metaVars, idemVars, lockVars, Known, ChainInv, Payload, Sent, Waiting,
              Ordered, Behind, HeldVer
<1>2. CASE WriteNext
  BY Zenon, <1>2, EnterChain, RequestReturns, StoreDataChain, SkipPrepareChain, HandlerForwards,
     HandlerReturns, WireChain, Zenon
  DEF WriteNext, Arrive, Proceed, ForwardReturns
<1> QED BY Zenon, <1>1, <1>2

---------------------------------------------------------------------------
(* The register and its acknowledgements.                                  *)
LEMMA TailTarget == TAIL \in Target /\ HEAD \in Target /\ \A i \in Target : i - 1 # TAIL
BY ConstantsOK DEF TAIL, HEAD, Target

LEMMA RegisterStays ==
  ASSUME Known, WriteNext, ~\E c \in inbox[TAIL] : StoreData(TAIL, c)
  PROVE  TailVersion' = TailVersion /\ TailValue' = TailValue
<1> USE TailTarget DEF TailVersion, TailValue, HeldVer
<1>1. CASE (\E v \in Value : putChunk(v)) \/ repairChunk \/ raiseChainVer
  BY <1>1, NothingToFetch, Zenon DEF putChunk, repairChunk, raiseChainVer, metaVars, lockVars
<1>2. ASSUME NEW i \in Target, NEW c \in inbox[i], Cached(i, c) \/ PrepareFails(i, c)
      PROVE  TailVersion' = TailVersion /\ TailValue' = TailValue
  <2>1. pc[i] = "idle" /\ UNCHANGED <<chunks, UpdateVer, ver>>
        /\ (Reply(i, c, "acked") \/ Reply(i, c, "failed"))
    BY <1>2, Zenon DEF Cached, PrepareFails, Fresh, Take, ReturnOk, ReturnErr, metaVars, lockVars
  <2>2. pc'[TAIL] = "stored" <=> pc[TAIL] = "stored"
    BY Zenon, <2>1 DEF Reply, Known, TypeOK
  <2> QED BY Zenon, <2>1, <2>2
<1>3. ASSUME NEW i \in Target, NEW c \in inbox[i], StoreData(i, c)
      PROVE  TailVersion' = TailVersion /\ TailValue' = TailValue
  <2>1. i # TAIL
    BY SMTT(30), <1>3
  <2> QED BY <1>3, <2>1, Zenon DEF StoreData, Hold, metaVars, Known, TypeOK
<1>4. ASSUME NEW i \in Target, NEW c \in inbox[i], SkipPrepare(i, c)
      PROVE  TailVersion' = TailVersion /\ TailValue' = TailValue
  <2>1. pc[i] = "idle" /\ UNCHANGED <<chunks, UpdateVer>> /\ ver' = [ver EXCEPT ![i] = UpdateVer[i]]
        /\ pc' = [pc EXCEPT ![i] = IF i = TAIL THEN "acked" ELSE "forwarding"]
    BY SMTT(30), <1>4 DEF SkipPrepare, Fresh, Take, Hold, Forward, metaVars
  <2> QED BY <2>1, SMTT(30) DEF Known, TypeOK
<1>5. ASSUME NEW i \in Target, SetPending(i)
      PROVE  TailVersion' = TailVersion /\ TailValue' = TailValue
  <2>1. pc[i] = "stored" /\ UNCHANGED <<chunks, ver>> /\ UpdateVer' = [UpdateVer EXCEPT ![i] = ver[i]]
        /\ pc' = [pc EXCEPT ![i] = IF i = TAIL THEN "acked" ELSE "forwarding"]
    BY SMTT(30), <1>5 DEF SetPending, Forward, lockVars
  <2> QED BY Zenon, <2>1 DEF Known, TypeOK
<1>6. ASSUME NEW i \in Target, writeCommit(i) \/ ForwardFails(i)
      PROVE  TailVersion' = TailVersion /\ TailValue' = TailValue
  <2>1. pc[i] # "stored" /\ UNCHANGED <<chunks, UpdateVer>> /\ ver' = [ver EXCEPT ![i] = 0]
        /\ (Reply(i, call[i], "acked") \/ Reply(i, call[i], "failed"))
    BY <1>6, Zenon DEF writeCommit, ForwardFails, Release, Hold, ReturnOk, ReturnErr, metaVars
  <2>2. pc'[TAIL] = "stored" <=> pc[TAIL] = "stored"
    BY SMTT(30), <2>1 DEF Reply, Known, TypeOK
  <2>3. pc[TAIL] = "stored" => TAIL # i
    BY Zenon, <2>1
  <2> QED BY Zenon, <2>1, <2>2, <2>3 DEF Known, TypeOK
<1>7. ASSUME NEW i \in Target \ {TAIL}, LoseRequest(i) \/ AttemptFails(i) \/ NextTransport(i)
      PROVE  TailVersion' = TailVersion /\ TailValue' = TailValue
  BY Zenon, <1>7 DEF LoseRequest, AttemptFails, NextTransport, metaVars, lockVars, Known, TypeOK
<1> HIDE DEF TailVersion, TailValue, HeldVer
<1> QED BY <1>1, <1>2, <1>3, <1>4, <1>5, <1>6, <1>7, Zenon
        DEF WriteNext, Arrive, Proceed, ForwardReturns

LEMMA SuccessesStay ==
  ASSUME Known, WriteNext, ~writeCommit(HEAD)
  PROVE  OwnSuccesses' = OwnSuccesses
<1>1. ASSUME NEW a, acks' = acks \/ (acks' = acks \cup {a} /\ a.cached)
      PROVE  OwnSuccesses' = OwnSuccesses
  BY Zenon, <1>1 DEF OwnSuccesses
<1>2. ASSUME NEW i \in Target, NEW c \in inbox[i], Cached(i, c)
      PROVE  OwnSuccesses' = OwnSuccesses
  <2> DEFINE a == [data |-> c.data, ver |-> CommitVer[i], cached |-> TRUE]
  <2>1. acks' = acks \/ acks' = acks \cup {a}
    BY <1>2, Zenon DEF Cached, ReturnOk, ReturnErr, HeadOk
  <2>2. a.cached
    OBVIOUS
  <2> HIDE DEF a
  <2> QED BY Zenon, <1>1, <2>1, <2>2
<1>3. ASSUME NEW i \in Target, writeCommit(i) PROVE acks' = acks
  BY <1>3, Zenon DEF writeCommit, ReturnOk
<1>4. (\E i \in Target : \E c \in inbox[i] : Cached(i, c)) \/ acks' = acks
  BY <1>3, Zenon DEF WriteNext, Arrive, Proceed, ForwardReturns, putChunk, repairChunk, raiseChainVer,
     PrepareFails, StoreData, SkipPrepare, SetPending, ForwardFails, LoseRequest, AttemptFails,
     NextTransport, ReturnErr
<1> QED BY Zenon, <1>1, <1>2, <1>4

(* What TAIL stores is a new version, or the one it holds already.         *)
LEMMA TailStores ==
  ASSUME Known, NEW c \in inbox[TAIL], StoreData(TAIL, c)
  PROVE  [Abstract!Next]_<<TailVersion, TailValue, OwnSuccesses>>
<1>0. TAIL \in Target /\ HeldVer(TAIL) \in Nat /\ UpdateVer[TAIL] \in Nat /\ c.req.UpdateVer \in Nat
      /\ updateVerOf(TAIL, c) \in Nat
  BY SMTT(30), TailTarget, Numbers DEF Known, updateVerOf
<1>1. /\ pc[TAIL] = "idle" /\ pc'[TAIL] = "stored" /\ ver'[TAIL] = updateVerOf(TAIL, c)
      /\ chunks'[TAIL] = c.data /\ acks' = acks
  BY Zenon, <1>0 DEF StoreData, Fresh, Take, Hold, Known, TypeOK
<1>2. TailVersion = UpdateVer[TAIL] /\ TailVersion' = updateVerOf(TAIL, c)
      /\ TailValue' = c.data /\ OwnSuccesses' = OwnSuccesses
  BY <1>1, Zenon DEF TailVersion, TailValue, OwnSuccesses, HeldVer
<1>3. /\ c.data \in Value
      /\ TailVersion' > TailVersion \/ (TailVersion' = TailVersion /\ TailValue' = TailValue)
  <2>1. CASE TAIL = HEAD
    <3>1. Sent(TAIL)
      BY Zenon, <1>0 DEF Known, ChainInv
    <3>2. c.req.UpdateVer = 0 /\ c.data \in Value
      BY Zenon, <2>1, <3>1 DEF Sent
    <3>3. updateVerOf(TAIL, c) = UpdateVer[TAIL] + 1
      BY Zenon, <3>2 DEF updateVerOf
    <3>4. TailVersion' = UpdateVer[TAIL] + 1 /\ TailVersion = UpdateVer[TAIL]
      BY Zenon, <1>2, <3>3
    <3> QED BY <1>0, <3>2, <3>4
  <2>2. CASE TAIL # HEAD
    <3>1. TAIL - 1 \in Target /\ TAIL - 1 < TAIL
      BY SMTT(30), <1>0, <2>2, Predecessor
    <3>2. /\ c.data = chunks[TAIL - 1] /\ c.data \in Value /\ c.req.UpdateVer = HeldVer(TAIL - 1)
      BY SMTT(30), <1>0, <2>2, Arrived
    <3>3. Ordered(TAIL - 1, TAIL) /\ Payload(TAIL - 1)
      BY SMTT(30), <1>0, <3>1 DEF Known, ChainInv
    <3>4. HeldVer(TAIL - 1) # 0 /\ HeldVer(TAIL) = TailVersion /\ chunks[TAIL] = TailValue
      BY SMTT(30), <3>2, <3>3, ConstantsOK DEF Payload, TailVersion, TailValue
    <3>5. TailVersion' = HeldVer(TAIL - 1)
      BY SMTT(30), <1>2, <3>2, <3>4 DEF updateVerOf
    <3> QED BY SMTT(30), <1>0, <1>2, <3>2, <3>3, <3>4, <3>5 DEF Ordered
  <2> QED BY Zenon, <2>1, <2>2
<1>4. TailVersion' \in Nat
  BY Zenon, <1>0, <1>2
<1> QED BY Zenon, <1>2, <1>3, <1>4 DEF Abstract!Next, Abstract!Apply

(* HEAD acknowledges what TAIL holds.                                      *)
LEMMA HeadAcknowledges ==
  ASSUME Known, WriteNext, writeCommit(HEAD)
  PROVE  [Abstract!Next]_<<TailVersion, TailValue, OwnSuccesses>>
<1>0. HEAD \in Target /\ TAIL \in Target /\ pc[HEAD] = "acked" /\ (HEAD = TAIL \/ HEAD < TAIL)
  BY ConstantsOK DEF writeCommit, HEAD, TAIL, Target
<1>1. TailVersion' = TailVersion /\ TailValue' = TailValue
  <2>1. ASSUME NEW c \in inbox[TAIL], StoreData(TAIL, c) PROVE FALSE
    <3>1. pc[TAIL] = "idle" /\ inbox[TAIL] # {}
      BY SMTT(30), <2>1 DEF StoreData, Fresh, Take
    <3> QED BY SMTT(30), <1>0, <3>1, NothingBehind
  <2> QED BY Zenon, <2>1, RegisterStays
<1>2. ver[HEAD] = HeldVer(HEAD) /\ call[HEAD].data = chunks[HEAD] /\ chunks[HEAD] \in Value
      /\ HeldVer(HEAD) \in Nat /\ HeldVer(HEAD) # 0
  <2>1. HandlerVer(HEAD) /\ Payload(HEAD)
    BY Zenon, <1>0 DEF Known, CommitInv, ChainInv
  <2>2. HeldVer(HEAD) \in Nat
    BY Zenon, <1>0, Numbers DEF Known
  <2> QED BY Zenon, <1>0, <2>1, <2>2, ConstantsOK DEF HandlerVer, Payload, HeldVer
<1>3. TailVersion = ver[HEAD] /\ TailValue = call[HEAD].data
  <2>1. CASE HEAD = TAIL
    BY SMTT(30), <1>2, <2>1 DEF TailVersion, TailValue
  <2>2. CASE HEAD < TAIL
    <3>1. Behind(HEAD, TAIL) /\ Ordered(HEAD, TAIL) /\ HandlerVer(TAIL)
      BY SMTT(30), <1>0, <2>2 DEF Known, ChainInv, CommitInv
    <3>2. CommitVer[TAIL] \in Nat /\ UpdateVer[TAIL] \in Nat /\ ver[TAIL] \in Nat
      BY <1>0, Numbers, SMTT(30) DEF Known
    <3>3. CommitVer[TAIL] <= HeldVer(TAIL) /\ HeldVer(TAIL) \in Nat
      BY SMTT(30), <3>1, <3>2 DEF HandlerVer, HeldVer
    <3>4. HeldVer(TAIL) = HeldVer(HEAD)
      BY <1>0, <1>2, <3>1, <3>2, <3>3 DEF Behind, Ordered
    <3> QED BY <1>2, <3>1, <3>4 DEF Ordered, TailVersion, TailValue
  <2> QED BY Zenon, <1>0, <2>1, <2>2
<1> DEFINE a == [data |-> call[HEAD].data, ver |-> ver[HEAD], cached |-> FALSE]
<1>4. acks' = acks \/ acks' = acks \cup {a}
  BY SMTT(30) DEF writeCommit, ReturnOk, HeadOk
<1>5. a.data = TailValue /\ a.ver = TailVersion /\ ~a.cached
  BY SMTT(30), <1>3
<1> HIDE DEF a
<1>6. CASE acks' = acks
  BY Zenon, <1>1, <1>6 DEF OwnSuccesses
<1>7. CASE acks' = acks \cup {a}
  <2>1. OwnSuccesses' = OwnSuccesses \cup {[data |-> a.data, ver |-> a.ver]}
    BY SMTT(30), <1>5, <1>7 DEF OwnSuccesses
  <2>2. TailVersion > 0
    BY SMTT(30), <1>2, <1>3
  <2> QED BY SMTT(30), <1>1, <1>5, <2>1, <2>2 DEF Abstract!Next, Abstract!Acknowledge
<1> QED BY SMTT(30), <1>4, <1>6, <1>7

LEMMA RefineInit == Init => Abstract!Init
BY SMTT(30), TailTarget DEF Init, Abstract!Init, TailVersion, TailValue, OwnSuccesses, HeldVer

LEMMA RefineNext ==
  Known /\ [WriteNext]_vars => [Abstract!Next]_<<TailVersion, TailValue, OwnSuccesses>>
<1> SUFFICES ASSUME Known, [WriteNext]_vars
             PROVE  [Abstract!Next]_<<TailVersion, TailValue, OwnSuccesses>>
  BY Zenon
<1>1. CASE UNCHANGED vars
  BY Zenon, <1>1 DEF vars, metaVars, lockVars, TailVersion, TailValue, OwnSuccesses, HeldVer
<1>2. CASE WriteNext /\ \E c \in inbox[TAIL] : StoreData(TAIL, c)
  BY Zenon, <1>2, TailStores
<1>3. CASE WriteNext /\ writeCommit(HEAD)
  BY Zenon, <1>3, HeadAcknowledges
<1>4. CASE WriteNext /\ ~(\E c \in inbox[TAIL] : StoreData(TAIL, c)) /\ ~writeCommit(HEAD)
  BY Zenon, <1>4, RegisterStays, SuccessesStay
<1> QED BY Zenon, <1>1, <1>2, <1>3, <1>4

---------------------------------------------------------------------------
(* On a chain of any length whose requests do not outlive their calls, the *)
(* handlers of applyReplicaWrite keep ChainInv.                            *)
THEOREM WritesChainInv == ASSUME ~Orphans PROVE WriteSpec => []Known
<1>1. Init => Known
  BY Zenon, InitType, InitCommit, InitChain DEF Known
<1>2. Known /\ [WriteNext]_vars => Known'
  <2> SUFFICES ASSUME Known, [WriteNext]_vars PROVE Known'
    OBVIOUS
  <2>1. TypeOK'
    BY Zenon, NextType DEF Known
  <2>2. CommitInv'
    BY Zenon, <2>1, NextCommit DEF Known
  <2>3. ChainInv'
    BY Zenon, <2>1, NextChain
  <2> QED BY Zenon, <2>1, <2>2, <2>3 DEF Known
<1> QED BY <1>1, <1>2, PTL DEF WriteSpec

(* Seen from outside, putChunk, repairChunk and applyReplicaWrite are one  *)
(* register: a put takes effect when TAIL stores it, versions only grow,   *)
(* and HEAD's own success is for the value the register holds.             *)
THEOREM WritesImplementCommittedChunk ==
  ASSUME ~Orphans PROVE WriteSpec => ImplementsCommittedChunk
BY RefineInit, RefineNext, WritesChainInv, PTL DEF WriteSpec, ImplementsCommittedChunk, Abstract!Spec

(* No target is ahead of its predecessor, and targets with one version     *)
(* hold one payload (writePrepare and forwardReplica).                     *)
THEOREM WritesKeepVersionsAgree == ASSUME ~Orphans PROVE WriteSpec => []VersionsAgree
<1>1. Known => VersionsAgree
  <2> SUFFICES ASSUME Known PROVE VersionsAgree
    OBVIOUS
  <2>0. \A i \in Target : i \in Nat
    BY Zenon, Numbers DEF Known
  <2>1. ASSUME NEW i \in Target \ {TAIL} PROVE UpdateVer[i + 1] <= UpdateVer[i]
    <3>1. i + 1 \in Target /\ i < i + 1
      BY <2>0, SuccType
    <3> QED BY Zenon, <3>1 DEF Known, ChainInv, Ordered
  <2>2. ASSUME NEW i \in Target, NEW j \in Target, UpdateVer[i] = UpdateVer[j],
               pc[i] # "stored", pc[j] # "stored"
        PROVE  chunks[i] = chunks[j]
    <3>1. HeldVer(i) = HeldVer(j)
      BY Zenon, <2>2 DEF HeldVer
    <3> QED BY <2>0, <3>1 DEF Known, ChainInv, Ordered
  <2> QED BY Zenon, <2>1, <2>2 DEF VersionsAgree
<1> QED BY <1>1, WritesChainInv, PTL
=============================================================================
