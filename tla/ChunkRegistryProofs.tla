------------------------ MODULE ChunkRegistryProofs ------------------------
(***************************************************************************)
(* Proofs about a node's work on chunks.  ChunkRegistry: for every chain,  *)
(* every number of puts, deletions and failing calls, and every history of *)
(* garbage collections.  PutPath: for any nodes, chains, slots and broken  *)
(* connections, and any order in which requests of several mounts wait for *)
(* one another.                                                            *)
(***************************************************************************)
EXTENDS ChunkRegistry, PutPath, FiniteSetTheorems, TLAPS

(* The types of what the proof looks at.                                   *)
Types ==
  /\ indexLog \in Seq(BOOLEAN) /\ Len(indexLog) > 0
  /\ pc \in [{"put", "delete", "repair"} -> {"idle", "write", "unindex", "record", "recorded"}]
  /\ job \in BOOLEAN /\ acked \in BOOLEAN /\ deletes \in Nat

(* While nothing has been deleted the index only grows: whoever has        *)
(* recorded the chunk still finds it there when it drops the job.          *)
RecordInv ==
  /\ Types
  /\ deletes = 0 => pc["delete"] = "idle"
  /\ deletes = 0 => \A p \in {"put", "repair"} : pc[p] = "recorded" => Index
  /\ UnindexedHasJob

LEMMA RecordInit == Init => RecordInv
<1> SUFFICES ASSUME Init PROVE RecordInv
  OBVIOUS
<1>1. indexLog \in Seq(BOOLEAN) /\ Len(indexLog) > 0
  BY DEF Init
<1>2. pc \in [{"put", "delete", "repair"} -> {"idle", "write", "unindex", "record", "recorded"}]
  BY DEF Init
<1>3. pc["put"] = "idle" /\ pc["delete"] = "idle" /\ pc["repair"] = "idle"
  BY Zenon DEF Init
<1>4. job \in BOOLEAN /\ acked \in BOOLEAN /\ deletes \in Nat /\ ~acked
  BY Zenon DEF Init
<1> QED
  BY Zenon, <1>1, <1>2, <1>3, <1>4 DEF RecordInv, Types, UnindexedHasJob

(* A Raft write changes the index to what it says.                         *)
LEMMA SetIndexSets ==
  ASSUME Types, NEW b \in BOOLEAN, SetIndex(b)
  PROVE  indexLog' \in Seq(BOOLEAN) /\ Len(indexLog') > 0 /\ Index' = b
<1>1. CASE Index = b
  BY Zenon, <1>1 DEF Types, SetIndex, Index
<1>2. CASE Index # b
  <2>1. indexLog' = Append(indexLog, b)
    BY Zenon, <1>2 DEF SetIndex
  <2>2. indexLog' \in Seq(BOOLEAN) /\ Len(indexLog') = Len(indexLog) + 1
    BY <2>1 DEF Types
  <2>3. indexLog'[Len(indexLog) + 1] = b
    BY <2>1 DEF Types
  <2> QED BY <2>2, <2>3 DEF Types, Index
<1> QED BY Zenon, <1>1, <1>2

LEMMA RecordStep == RecordInv /\ [Next]_vars => RecordInv'
<1> SUFFICES ASSUME RecordInv, [Next]_vars PROVE RecordInv'
  OBVIOUS
<1> USE DEF RecordInv, Types, UnindexedHasJob, Goto
<1>1. CASE PutChain
  BY Zenon, <1>1 DEF PutChain, Index
<1>2. ASSUME NEW p \in {"put", "repair"}, SetLocation(p) PROVE RecordInv'
  <2>1. indexLog' \in Seq(BOOLEAN) /\ Len(indexLog') > 0 /\ Index'
    BY Zenon, <1>2, SetIndexSets DEF SetLocation
  <2>2. CASE p = "put"
    BY Zenon, <1>2, <2>1, <2>2 DEF SetLocation, counters
  <2>3. CASE p = "repair"
    BY Zenon, <1>2, <2>1, <2>3 DEF SetLocation, counters
  <2> QED BY Zenon, <2>2, <2>3
<1>3. CASE PutReturns
  BY Zenon, <1>3 DEF PutReturns, Index, Enqueue
<1>4. CASE DeleteChain
  <2>1. deletes' \in Nat /\ deletes' # 0
    BY <1>4 DEF DeleteChain
  <2>2. UNCHANGED <<indexLog, job, acked>>
        /\ (UNCHANGED pc \/ pc' = [pc EXCEPT !["delete"] = "unindex"])
    BY Zenon, <1>4 DEF DeleteChain
  <2> QED BY <2>1, <2>2
<1>5. CASE DeleteRecord
  <2>1. deletes # 0 /\ deletes' = deletes
    BY Zenon, <1>5 DEF DeleteRecord
  <2>2. indexLog' \in Seq(BOOLEAN) /\ Len(indexLog') > 0
    BY Zenon, <1>5, SetIndexSets DEF DeleteRecord
  <2> QED BY Zenon, <1>5, <2>1, <2>2 DEF DeleteRecord
<1>6. CASE RepairRead
  BY Zenon, <1>6 DEF RepairRead, Index, counters
<1>7. CASE RepairWrite
  BY Zenon, <1>7 DEF RepairWrite, Index
<1>8. CASE RepairReturns
  BY Zenon, <1>8 DEF RepairReturns, Index
<1>9. CASE raiseChainVer
  BY Zenon, <1>9 DEF raiseChainVer, Index
<1>10. ASSUME NEW n \in Node, Apply(n) \/ RunGC(n) \/ GCOrphans(n) \/ Rebuild(n) PROVE RecordInv'
  BY <1>10 DEF Apply, RunGC, GCOrphans, Rebuild, Index, counters
<1>11. CASE UNCHANGED vars
  BY Zenon, <1>11 DEF vars, counters, Index
<1> QED
  BY Zenon, <1>1, <1>2, <1>3, <1>4, <1>5, <1>6, <1>7, <1>8, <1>9, <1>10, <1>11
  DEF Next, Put, Delete, Repair

(* Until something is deleted, an acknowledged chunk is in the index or    *)
(* has a repair job: Enqueue drops a request for a chunk whose job is at   *)
(* work only when that job has indexed it or stays in the queue            *)
(* (repair.go:22-44, repair_run.go:19-32).                                 *)
THEOREM RegistryKeepsJobs == Spec => []UnindexedHasJob
<1>1. RecordInv => UnindexedHasJob
  BY Zenon DEF RecordInv
<1> QED BY <1>1, RecordInit, RecordStep, PTL DEF Spec

---------------------------------------------------------------------------
Kind == {"put", "delete", "repair"}

Shape ==
  /\ gcOn \in BOOLEAN /\ have \in [Node -> BOOLEAN]
  /\ indexLog \in Seq(BOOLEAN) /\ indexLog # <<>>
  /\ applied \in [Node -> 1..Len(indexLog)]
  /\ gc \in [Node -> {"idle", "orphan"}]
  /\ job \in BOOLEAN /\ acked \in BOOLEAN
  /\ idem \in [Kind -> {"none", "ok", "err"}]

Counts ==
  /\ chainVer \in 1..MaxChainVer
  /\ puts \in 0..MaxPuts /\ deletes \in 0..MaxDeletes /\ faults \in 0..MaxFaults

Places ==
  pc \in [put: {"idle"} \cup Recording,
          delete: {"idle", "unindex"},
          repair: {"idle", "write"} \cup Recording]

LEMMA CountsStep == ASSUME Counts, [Next]_vars PROVE Counts'
<1>0. MaxPuts \in Nat /\ MaxDeletes \in Nat /\ MaxFaults \in Nat /\ MaxChainVer \in Nat
  BY Zenon, RegistryConstants
<1>1. chainVer' = chainVer \/ (chainVer < MaxChainVer /\ chainVer' = chainVer + 1)
  BY Zenon DEF Next, Put, Delete, Repair, PutChain, SetLocation, PutReturns, DeleteChain, DeleteRecord, 
     RepairRead, RepairWrite, RepairReturns, raiseChainVer, Apply, RunGC, GCOrphans, Rebuild, vars, counters
<1>2. puts' = puts \/ (puts < MaxPuts /\ puts' = puts + 1)
  BY Zenon DEF Next, Put, Delete, Repair, PutChain, SetLocation, PutReturns, DeleteChain, DeleteRecord, 
     RepairRead, RepairWrite, RepairReturns, raiseChainVer, Apply, RunGC, GCOrphans, Rebuild, vars, counters
<1>3. deletes' = deletes \/ (deletes < MaxDeletes /\ deletes' = deletes + 1)
  BY Zenon DEF Next, Put, Delete, Repair, PutChain, SetLocation, PutReturns, DeleteChain, DeleteRecord, 
     RepairRead, RepairWrite, RepairReturns, raiseChainVer, Apply, RunGC, GCOrphans, Rebuild, vars, counters
<1>4. faults' = faults \/ (faults < MaxFaults /\ faults' = faults + 1)
  BY Zenon DEF Next, Put, Delete, Repair, PutChain, SetLocation, PutReturns, DeleteChain, DeleteRecord, 
     RepairRead, RepairWrite, RepairReturns, raiseChainVer, Apply, RunGC, GCOrphans, Rebuild, vars, counters,
     WriteOk, WriteFails, Answer, Fault, NoFault
<1> QED BY <1>0, <1>1, <1>2, <1>3, <1>4 DEF Counts

LEMMA WriteTypes ==
  ASSUME Shape, NEW p \in Kind, NEW b \in BOOLEAN, WriteOk(p, b) \/ WriteFails(p, b)
  PROVE  have' \in [Node -> BOOLEAN] /\ idem' \in [Kind -> {"none", "ok", "err"}]
BY Zenon DEF Shape, WriteOk, WriteFails, Answer

LEMMA PlacesStep == ASSUME Places, [Next]_vars PROVE Places'
<1> USE DEF Places, Goto, Recording
<1>1. CASE Put
  BY Zenon, <1>1 DEF Put, PutChain, SetLocation, PutReturns
<1>2. CASE Delete
  BY Zenon, <1>2 DEF Delete, DeleteChain, DeleteRecord
<1>3. CASE Repair
  BY Zenon, <1>3 DEF Repair, RepairRead, RepairWrite, SetLocation, RepairReturns
<1>4. CASE raiseChainVer \/ UNCHANGED vars \/ \E n \in Node : Apply(n) \/ RunGC(n) \/ GCOrphans(n) \/ Rebuild(n)
  BY Zenon, <1>4 DEF raiseChainVer, Apply, RunGC, GCOrphans, Rebuild, vars
<1> QED BY Zenon, <1>1, <1>2, <1>3, <1>4 DEF Next

LEMMA LogGrows ==
  ASSUME Shape, NEW b \in BOOLEAN, SetIndex(b), UNCHANGED applied
  PROVE  /\ indexLog' \in Seq(BOOLEAN) /\ indexLog' # <<>>
         /\ applied' \in [Node -> 1..Len(indexLog')]
<1>1. CASE indexLog' = indexLog
  BY Zenon, <1>1 DEF Shape
<1>2. CASE indexLog' = Append(indexLog, b)
  <2>1. /\ indexLog' \in Seq(BOOLEAN) /\ indexLog' # <<>>
        /\ Len(indexLog') = Len(indexLog) + 1 /\ Len(indexLog) \in Nat
    BY <1>2 DEF Shape
  <2>2. \A n \in Node : applied[n] \in 1..Len(indexLog')
    BY <2>1 DEF Shape
  <2> QED BY Zenon, <2>1, <2>2 DEF Shape
<1> QED BY Zenon, <1>1, <1>2 DEF SetIndex

LEMMA ShapeStep == ASSUME Shape, [Next]_vars PROVE Shape'
<1> USE DEF Kind
<1>1. CASE PutChain \/ DeleteChain \/ RepairWrite
  <2>1. have' \in [Node -> BOOLEAN] /\ idem' \in [Kind -> {"none", "ok", "err"}]
    BY Zenon, <1>1, WriteTypes DEF PutChain, DeleteChain, RepairWrite
  <2>2. UNCHANGED <<gcOn, indexLog, applied, gc, job, acked>>
    BY Zenon, <1>1 DEF PutChain, DeleteChain, RepairWrite
  <2> QED BY Zenon, <2>1, <2>2 DEF Shape
<1>2. CASE SetLocation("put") \/ SetLocation("repair") \/ DeleteRecord
  <2>1. \/ (SetIndex(TRUE) \/ SetIndex(FALSE)) /\ UNCHANGED applied
        \/ UNCHANGED <<indexLog, applied>>
    BY Zenon, <1>2 DEF SetLocation, DeleteRecord
  <2>2. UNCHANGED <<gcOn, have, gc, job, idem, acked>>
    BY Zenon, <1>2 DEF SetLocation, DeleteRecord
  <2>3. /\ indexLog' \in Seq(BOOLEAN) /\ indexLog' # <<>>
        /\ applied' \in [Node -> 1..Len(indexLog')]
    <3>1. CASE UNCHANGED <<indexLog, applied>>
      BY Zenon, <3>1 DEF Shape
    <3> QED BY Zenon, <2>1, <3>1, LogGrows
  <2> QED BY Zenon, <2>2, <2>3 DEF Shape
<1>3. CASE PutReturns \/ RepairReturns
  BY Zenon, <1>3 DEF PutReturns, RepairReturns, Enqueue, Shape
<1>4. CASE RepairRead
  <2>1. have' \in [Node -> BOOLEAN]
    BY Zenon, <1>4 DEF RepairRead, Shape
  <2> QED BY Zenon, <1>4, <2>1 DEF RepairRead, Shape
<1>5. CASE raiseChainVer
  <2>1. idem' \in [Kind -> {"none", "ok", "err"}]
    BY Zenon, <1>5 DEF raiseChainVer, Shape
  <2> QED BY Zenon, <1>5, <2>1 DEF raiseChainVer, Shape
<1>6. ASSUME NEW n \in Node, Apply(n) PROVE Shape'
  <2>1. applied' \in [Node -> 1..Len(indexLog)]
    BY <1>6 DEF Apply, Shape
  <2> QED BY Zenon, <1>6, <2>1 DEF Apply, Shape
<1>7. ASSUME NEW n \in Node, RunGC(n) \/ GCOrphans(n) \/ Rebuild(n) PROVE Shape'
  BY Zenon, <1>7 DEF RunGC, GCOrphans, Rebuild, Shape
<1>8. CASE UNCHANGED vars
  BY Zenon, <1>8 DEF vars, Shape
<1> QED BY Zenon, <1>1, <1>2, <1>3, <1>4, <1>5, <1>6, <1>7, <1>8 DEF Next, Put, Delete, Repair

(* Every variable of the registry keeps its type.  No node has applied    *)
(* more of the Raft log than there is, and the counters keep their bounds. *)
THEOREM RegistryTypeCorrect == Spec => []TypeOK
<1>1. Init => Shape /\ Counts /\ Places
  <2> SUFFICES ASSUME Init PROVE Shape /\ Counts /\ Places
    BY Zenon
  <2>1. Shape
    <3>1. idem \in [Kind -> {"none", "ok", "err"}]
      BY DEF Init, Kind
    <3>2. indexLog \in Seq(BOOLEAN) /\ indexLog # <<>> /\ applied \in [Node -> 1..Len(indexLog)]
      BY DEF Init
    <3>3. /\ gcOn \in BOOLEAN /\ have \in [Node -> BOOLEAN] /\ gc \in [Node -> {"idle", "orphan"}]
          /\ job \in BOOLEAN /\ acked \in BOOLEAN
      BY Zenon DEF Init
    <3> QED BY Zenon, <3>1, <3>2, <3>3 DEF Shape
  <2>2. Counts
    BY RegistryConstants DEF Init, Counts
  <2>3. Places
    BY Zenon DEF Init, Places
  <2> QED BY Zenon, <2>1, <2>2, <2>3
<1>2. Shape /\ Counts /\ Places /\ [Next]_vars => (Shape /\ Counts /\ Places)'
  BY Zenon, ShapeStep, CountsStep, PlacesStep
<1>3. Shape /\ Counts /\ Places => TypeOK
  BY Zenon DEF Shape, Counts, Places, TypeOK, Kind
<1> QED BY <1>1, <1>2, <1>3, PTL DEF Spec

---------------------------------------------------------------------------
(* The way of a request.                                                   *)

RoutesOK ==
  \A p \in Request :
    /\ Route[p] \in Seq(Server) /\ Route[p] # <<>>
    /\ \A i, j \in 1..Len(Route[p]) : Route[p][i] = Route[p][j] => i = j

OptionsOK ==
  \A p \in Request : Options[p] = [k \in Fields |-> Options[p][k]] /\ Options[p].stage # ""

PathOK == RoutesOK /\ OptionsOK

LEMMA PathAssumed == PathOK
BY Zenon, PathConstants DEF PathOK, RoutesOK, OptionsOK

Answers == {"none", "ok", "error"}

Frame ==
  [via: {"http", "grpc", "delete"}, slot: BOOLEAN, req: {Options[p] : p \in Request}, try: Nat]

(* Every handler of p has the request HEAD has, and only that of a         *)
(* deletion has come by that method.                                       *)
StackOK(p, s) ==
  /\ Len(s) <= Len(Route[p])
  /\ \A i \in 1..Len(s) :
       s[i].req = Options[p] /\ (s[i].via = "delete" => Options[p].stage = "remove")

(* What a node remembers as done is done behind it ...                     *)
DoneFrom(p, m, i) == \A j \in 1..Len(Route[p]) : i <= j => m[Route[p][j]] = "ok"

MemoOK(p, m) == \A i \in 1..Len(Route[p]) : m[Route[p][i]] = "ok" => DoneFrom(p, m, i)

(* ... and so is what the handler at depth d, or the mount, was told.      *)
ToldOK(p, m, d, rep, res) ==
  /\ rep = "ok" => DoneFrom(p, m, d + 1)
  /\ res = "ok" /\ Options[p].stage # "remove" => DoneFrom(p, m, 1)

PathInv ==
  /\ stack \in [Request -> Seq(Frame)] /\ memo \in [Request -> [Server -> Answers]]
  /\ reply \in [Request -> Answers] /\ result \in [Request -> Answers]
  /\ \A p \in Request :
       /\ StackOK(p, stack[p]) /\ MemoOK(p, memo[p])
       /\ ToldOK(p, memo[p], Len(stack[p]), reply[p], result[p])

---------------------------------------------------------------------------
(* Requests on the wire.                                                   *)

LEMMA ReceivedAsSent ==
  ASSUME PathOK, NEW p \in Request, NEW via
  PROVE  received(via, Options[p]) = Options[p]
<1> DEFINE req == Options[p]
<1>1. req = [k \in Fields |-> req[k]] /\ req.stage # ""
  BY Zenon DEF PathOK, OptionsOK
<1>2. decode(query(req)) = req
  <2>1. DOMAIN query(req) = {f \in Fields : req[f] # Zero(f)}
    BY Zenon DEF query
  <2>2. \A k \in Fields : (IF k \in DOMAIN query(req) THEN query(req)[k] ELSE Zero(k)) = req[k]
    BY Zenon, <2>1 DEF query
  <2>3. decode(query(req)) = [k \in Fields |-> req[k]]
    BY Zenon, <2>2 DEF decode
  <2> QED BY Zenon, <1>1, <2>3
<1>3. defaultStage(req) = req
  BY Zenon, <1>1 DEF defaultStage
<1> QED BY Zenon, <1>2, <1>3 DEF received, parseReplicaWriteRequest, grpcPutChunk

---------------------------------------------------------------------------
LEMMA Nodes ==
  ASSUME PathOK, NEW p \in Request
  PROVE  Len(Route[p]) \in Nat \ {0} /\ \A i \in 1..Len(Route[p]) : Route[p][i] \in Server
<1>1. Route[p] \in Seq(Server) /\ Route[p] # <<>>
  BY Zenon DEF PathOK, RoutesOK
<1> QED BY <1>1

LEMMA PathInvInit == ASSUME PathOK, PathInit PROVE PathInv
<1>1. \A p \in Request : Len(Route[p]) \in Nat \ {0} /\ \A i \in 1..Len(Route[p]) : Route[p][i] \in Server
  BY Zenon, Nodes
<1>2. /\ stack \in [Request -> Seq(Frame)] /\ memo \in [Request -> [Server -> Answers]]
      /\ reply \in [Request -> Answers] /\ result \in [Request -> Answers]
  BY DEF PathInit, Answers
<1>3. ASSUME NEW p \in Request
      PROVE  /\ StackOK(p, stack[p]) /\ MemoOK(p, memo[p])
             /\ ToldOK(p, memo[p], Len(stack[p]), reply[p], result[p])
  <2>1. StackOK(p, stack[p])
    BY <1>1 DEF PathInit, StackOK
  <2>2. MemoOK(p, memo[p])
    BY Zenon, <1>1 DEF PathInit, MemoOK
  <2>3. ToldOK(p, memo[p], Len(stack[p]), reply[p], result[p])
    BY Zenon DEF PathInit, ToldOK
  <2> QED BY Zenon, <2>1, <2>2, <2>3
<1> QED BY Zenon, <1>2, <1>3 DEF PathInv

(* A step is about one request and leaves the others alone.                *)
LEMMA OneRequest ==
  ASSUME PathInv, NEW p \in Request, NEW s \in Seq(Frame), NEW m \in [Server -> Answers],
         NEW rep \in Answers, NEW res \in Answers,
         stack' = [stack EXCEPT ![p] = s], memo' = [memo EXCEPT ![p] = m],
         reply' = [reply EXCEPT ![p] = rep], result' = [result EXCEPT ![p] = res],
         StackOK(p, s), MemoOK(p, m), ToldOK(p, m, Len(s), rep, res)
  PROVE  PathInv'
<1>1. /\ stack' \in [Request -> Seq(Frame)] /\ memo' \in [Request -> [Server -> Answers]]
      /\ reply' \in [Request -> Answers] /\ result' \in [Request -> Answers]
  BY Zenon DEF PathInv
<1>2. ASSUME NEW q \in Request
      PROVE  /\ StackOK(q, stack'[q]) /\ MemoOK(q, memo'[q])
             /\ ToldOK(q, memo'[q], Len(stack'[q]), reply'[q], result'[q])
  <2>1. CASE q = p
    <3>1. stack'[q] = s /\ memo'[q] = m /\ reply'[q] = rep /\ result'[q] = res
      BY Zenon, <2>1 DEF PathInv
    <3> QED BY Zenon, <2>1, <3>1
  <2>2. CASE q # p
    <3>1. /\ stack'[q] = stack[q] /\ memo'[q] = memo[q]
          /\ reply'[q] = reply[q] /\ result'[q] = result[q]
      BY Zenon, <2>2 DEF PathInv
    <3> QED BY Zenon, <3>1 DEF PathInv
  <2> QED BY Zenon, <2>1, <2>2
<1> QED BY Zenon, <1>1, <1>2 DEF PathInv

LEMMA OfRequest ==
  ASSUME PathInv, NEW p \in Request
  PROVE  /\ stack[p] \in Seq(Frame) /\ memo[p] \in [Server -> Answers]
         /\ reply[p] \in Answers /\ result[p] \in Answers
         /\ StackOK(p, stack[p]) /\ MemoOK(p, memo[p])
         /\ ToldOK(p, memo[p], Len(stack[p]), reply[p], result[p])
BY Zenon DEF PathInv

---------------------------------------------------------------------------
LEMMA Replaced ==
  ASSUME NEW s \in Seq(Frame), NEW k \in 1..Len(s), NEW e \in Frame
  PROVE  [s EXCEPT ![k] = e] \in Seq(Frame) /\ Len([s EXCEPT ![k] = e]) = Len(s)
OBVIOUS

LEMMA Framed ==
  ASSUME NEW f \in Frame
  PROVE  [f EXCEPT !.slot = TRUE] \in Frame /\ [f EXCEPT !.try = @ + 1] \in Frame
<1> DEFINE R == {Options[p] : p \in Request}
<1>1. f \in [via: {"http", "grpc", "delete"}, slot: BOOLEAN, req: R, try: Nat]
  BY Zenon DEF Frame
<1> HIDE DEF R
<1>2. [f EXCEPT !.slot = TRUE] \in [via: {"http", "grpc", "delete"}, slot: BOOLEAN, req: R, try: Nat]
  BY Zenon, <1>1
<1>3. [f EXCEPT !.try = @ + 1] \in [via: {"http", "grpc", "delete"}, slot: BOOLEAN, req: R, try: Nat]
  BY <1>1
<1> QED BY Zenon, <1>2, <1>3 DEF Frame, R

LEMMA BeginPath == ASSUME PathOK, PathInv, NEW p \in Request, Begin(p) PROVE PathInv'
<1> DEFINE f == [via |-> IF Options[p].stage = "remove" THEN "delete" ELSE "http", slot |-> FALSE,
                 req |-> Options[p], try |-> 0]
           s == <<f>>
<1>1. f \in Frame
  BY Zenon DEF Frame
<1>2. s \in Seq(Frame) /\ Len(s) = 1 /\ s[1] = f
  BY <1>1
<1>3. StackOK(p, s)
  BY <1>2, Nodes DEF StackOK
<1>4. stack[p] = <<>> /\ stack' = [stack EXCEPT ![p] = s] /\ UNCHANGED <<reply, result, memo>>
  BY Zenon DEF Begin
<1> HIDE DEF f, s
<1>5. ToldOK(p, memo[p], Len(s), reply[p], result[p])
  BY <1>2, <1>4, OfRequest DEF ToldOK, DoneFrom
<1>6. /\ memo' = [memo EXCEPT ![p] = memo[p]] /\ reply' = [reply EXCEPT ![p] = reply[p]]
      /\ result' = [result EXCEPT ![p] = result[p]]
  BY Zenon, <1>4 DEF PathInv
<1> QED BY Zenon, <1>2, <1>3, <1>4, <1>5, <1>6, OfRequest, OneRequest

LEMMA TakeSlotPath == ASSUME PathOK, PathInv, NEW p \in Request, TakeSlot(p) PROVE PathInv'
<1> DEFINE s == [stack[p] EXCEPT ![Len(stack[p])].slot = TRUE]
<1>1. stack[p] \in Seq(Frame) /\ stack[p] # <<>> /\ StackOK(p, stack[p])
  BY Zenon, OfRequest DEF TakeSlot
<1>2. stack' = [stack EXCEPT ![p] = s] /\ UNCHANGED <<reply, result, memo>>
  BY Zenon DEF TakeSlot, Depth
<1>3. s \in Seq(Frame) /\ Len(s) = Len(stack[p])
  <2> DEFINE e == [stack[p][Len(stack[p])] EXCEPT !.slot = TRUE]
  <2>1. Len(stack[p]) \in 1..Len(stack[p])
    BY <1>1
  <2>2. stack[p][Len(stack[p])] \in Frame
    BY <1>1, <2>1
  <2>4. e \in Frame
    BY Zenon, <2>2, Framed
  <2>3. s = [stack[p] EXCEPT ![Len(stack[p])] = e]
    BY Zenon, <1>1
  <2> HIDE DEF e, s
  <2> QED BY SMTT(30), <1>1, <2>1, <2>3, <2>4, Replaced
<1>4. \A i \in 1..Len(s) : s[i].req = stack[p][i].req /\ s[i].via = stack[p][i].via
  BY <1>1 DEF Frame
<1>5. StackOK(p, s)
  BY Zenon, <1>1, <1>3, <1>4 DEF StackOK
<1>6. ToldOK(p, memo[p], Len(s), reply[p], result[p])
  BY Zenon, <1>3, OfRequest
<1> HIDE DEF s
<1>7. /\ memo' = [memo EXCEPT ![p] = memo[p]] /\ reply' = [reply EXCEPT ![p] = reply[p]]
      /\ result' = [result EXCEPT ![p] = result[p]]
  BY Zenon, <1>2 DEF PathInv
<1> QED BY Zenon, <1>2, <1>3, <1>5, <1>6, <1>7, OfRequest, OneRequest

LEMMA ForwardPath == ASSUME PathOK, PathInv, NEW p \in Request, Forward(p) PROVE PathInv'
<1> DEFINE d == Len(stack[p])
           via == transports[Top(p).try + 1]
           child == [via |-> via, slot |-> FALSE, req |-> received(via, Top(p).req), try |-> 0]
           tried == [stack[p] EXCEPT ![d].try = @ + 1]
<1>1. stack[p] \in Seq(Frame) /\ stack[p] # <<>> /\ StackOK(p, stack[p]) /\ d < Len(Route[p])
  BY Zenon, OfRequest DEF Forward, MayForward, Ready, Depth
<1>0. Top(p).try + 1 \in 1..3
  <2>1. Len(transports) = 3
    BY Zenon DEF transports
  <2>2. Top(p).try = 0 \/ Top(p).try \in 1..Len(transports) - 1
    BY Zenon DEF Forward, MayForward
  <2> QED BY <2>1, <2>2
<1>2. tried \in Seq(Frame) /\ Len(tried) = d
  <2> DEFINE e == [stack[p][d] EXCEPT !.try = @ + 1]
  <2>1. d \in 1..Len(stack[p])
    BY <1>1
  <2>2. stack[p][d] \in Frame
    BY <1>1, <2>1
  <2>4. e \in Frame
    BY Zenon, <2>2, Framed
  <2>3. tried = [stack[p] EXCEPT ![d] = e]
    BY Zenon, <1>1
  <2> HIDE DEF e, tried
  <2> QED BY SMTT(30), <1>1, <2>1, <2>3, <2>4, Replaced
<1>3. \A i \in 1..d : tried[i].req = stack[p][i].req /\ tried[i].via = stack[p][i].via
  BY <1>1 DEF Frame
<1>4. StackOK(p, tried)
  BY Zenon, <1>1, <1>2, <1>3 DEF StackOK
<1>5. via \in {"http", "grpc"}
  BY <1>0 DEF transports
<1>6. Top(p).req = Options[p]
  BY <1>1 DEF Top, StackOK, Depth
<1>7. child.req = Options[p] /\ child.via = via /\ child \in Frame
  BY SMTT(30), <1>5, <1>6, ReceivedAsSent DEF Frame
<1>8. \/ stack' = [stack EXCEPT ![p] = tried] /\ reply' = [reply EXCEPT ![p] = "error"]
      \/ stack' = [stack EXCEPT ![p] = Append(tried, child)] /\ reply' = [reply EXCEPT ![p] = "none"]
  BY Zenon DEF Forward, Depth
<1>9. UNCHANGED <<result, memo>>
  BY Zenon DEF Forward
<1> HIDE DEF d, via, child, tried
<1>10. Append(tried, child) \in Seq(Frame) /\ StackOK(p, Append(tried, child))
  <2>1. /\ Append(tried, child) \in Seq(Frame) /\ Len(Append(tried, child)) = d + 1
        /\ \A i \in 1..d : Append(tried, child)[i] = tried[i]
        /\ Append(tried, child)[d + 1] = child
    BY <1>2, <1>7
  <2> QED BY SMTT(30), <1>1, <1>2, <1>4, <1>5, <1>7, <2>1, Nodes DEF StackOK, d
<1>11. memo' = [memo EXCEPT ![p] = memo[p]] /\ result' = [result EXCEPT ![p] = result[p]]
  BY Zenon, <1>9 DEF PathInv
<1>12. \A k : ToldOK(p, memo[p], k, "error", result[p]) /\ ToldOK(p, memo[p], k, "none", result[p])
  BY Zenon, OfRequest DEF ToldOK
<1>13. "error" \in Answers /\ "none" \in Answers
  BY Zenon DEF Answers
<1>14. CASE stack' = [stack EXCEPT ![p] = tried] /\ reply' = [reply EXCEPT ![p] = "error"]
  BY Zenon, <1>2, <1>4, <1>11, <1>12, <1>13, <1>14, OfRequest, OneRequest
<1>15. CASE /\ stack' = [stack EXCEPT ![p] = Append(tried, child)]
            /\ reply' = [reply EXCEPT ![p] = "none"]
  BY Zenon, <1>10, <1>11, <1>12, <1>13, <1>15, OfRequest, OneRequest
<1> QED BY SMTT(30), <1>8, <1>14, <1>15

---------------------------------------------------------------------------
(* What is remembered of p grows.                                          *)

Noted(p, i, a) == [memo[p] EXCEPT ![Route[p][i]] = a]

LEMMA Remember ==
  ASSUME PathOK, PathInv, NEW p \in Request, NEW i \in 1..Len(Route[p]), NEW a \in Answers,
         a = "ok" \/ memo[p][Route[p][i]] = "none" \/ memo[p][Route[p][i]] = a,
         a = "ok" => DoneFrom(p, memo[p], i + 1)
  PROVE  /\ Noted(p, i, a) \in [Server -> Answers] /\ MemoOK(p, Noted(p, i, a))
         /\ \A k : DoneFrom(p, memo[p], k) => DoneFrom(p, Noted(p, i, a), k)
         /\ a = "ok" => DoneFrom(p, Noted(p, i, a), i)
<1> DEFINE m == Noted(p, i, a)
           old == memo[p]
           at(k) == Route[p][k]
<1>1. Len(Route[p]) \in Nat /\ \A k \in 1..Len(Route[p]) : at(k) \in Server
  BY Zenon, Nodes
<1>2. \A k \in 1..Len(Route[p]) : at(k) = at(i) => k = i
  BY Zenon DEF PathOK, RoutesOK
<1>3. old \in [Server -> Answers] /\ MemoOK(p, old)
  BY Zenon, OfRequest
<1>4. m \in [Server -> Answers]
  BY Zenon, <1>3 DEF Noted
<1>5. \A k \in 1..Len(Route[p]) : k # i => m[at(k)] = old[at(k)]
  BY SMTT(30), <1>1, <1>2, <1>3 DEF Noted
<1>6. m[at(i)] = a
  BY SMTT(30), <1>1, <1>3 DEF Noted
<1>7. \A k \in 1..Len(Route[p]) : old[at(k)] = "ok" => m[at(k)] = "ok"
  BY SMTT(30), <1>5, <1>6
<1> HIDE DEF old, at, m
<1>8. \A k : DoneFrom(p, old, k) => DoneFrom(p, m, k)
  BY Zenon, <1>7 DEF DoneFrom, at
<1>9. a = "ok" => DoneFrom(p, m, i)
  <2> SUFFICES ASSUME a = "ok", NEW j \in 1..Len(Route[p]), i <= j PROVE m[Route[p][j]] = "ok"
    BY Zenon DEF DoneFrom
  <2>1. CASE j = i
    BY SMTT(30), <1>6, <2>1 DEF at
  <2>2. CASE j # i
    BY SMTT(30), <1>1, <1>7, <2>2 DEF DoneFrom, at, old
  <2> QED BY Zenon, <2>1, <2>2
<1>10. MemoOK(p, m)
  <2> SUFFICES ASSUME NEW k \in 1..Len(Route[p]), m[Route[p][k]] = "ok" PROVE DoneFrom(p, m, k)
    BY Zenon DEF MemoOK
  <2>1. CASE k = i
    BY SMTT(30), <1>6, <1>9, <2>1 DEF at
  <2>2. CASE k # i
    BY SMTT(30), <1>3, <1>5, <1>8, <2>2 DEF MemoOK, at
  <2> QED BY Zenon, <2>1, <2>2
<1> QED BY SMTT(30), <1>4, <1>8, <1>9, <1>10 DEF old, m

LEMMA Shortened ==
  ASSUME NEW p \in Request, NEW s \in Seq(Frame), StackOK(p, s), NEW k \in 0..Len(s)
  PROVE  /\ SubSeq(s, 1, k) \in Seq(Frame) /\ Len(SubSeq(s, 1, k)) = k
         /\ StackOK(p, SubSeq(s, 1, k))
<1>1. /\ SubSeq(s, 1, k) \in Seq(Frame) /\ Len(SubSeq(s, 1, k)) = k
      /\ \A i \in 1..k : SubSeq(s, 1, k)[i] = s[i]
  OBVIOUS
<1> QED BY <1>1, Len(s) \in Nat DEF StackOK

(* A handler returns what its node, and those behind it, have done.        *)
LEMMA ReturnPath ==
  ASSUME PathOK, PathInv, NEW p \in Request, stack[p] # <<>>, NEW a \in {"ok", "error"},
         Return(p, a),
         \/ memo[p][Route[p][Len(stack[p])]] \in {"none", a}
         \/ a = "ok",
         a = "ok" => DoneFrom(p, memo[p], Len(stack[p]) + 1)
  PROVE  PathInv'
<1> DEFINE d == Len(stack[p])
           s == SubSeq(stack[p], 1, d - 1)
           m == Noted(p, d, a)
           rep == IF d = 1 THEN "none" ELSE a
           res == IF d > 1 THEN result[p] ELSE IF Top(p).via = "delete" THEN "ok" ELSE a
<1>1. stack[p] \in Seq(Frame) /\ StackOK(p, stack[p])
  BY OfRequest
<1>2. d \in 1..Len(Route[p]) /\ d \in Nat \ {0}
  BY SMTT(30), <1>1, Nodes DEF StackOK
<1>3. /\ stack' = [stack EXCEPT ![p] = s] /\ memo' = [memo EXCEPT ![p] = m]
      /\ reply' = [reply EXCEPT ![p] = rep] /\ result' = [result EXCEPT ![p] = res]
  <2>1. memo' = [memo EXCEPT ![p] = m]
    BY Zenon DEF Return, Depth, NodeOf, Noted
  <2>2. stack' = [stack EXCEPT ![p] = s]
    BY Zenon DEF Return, Depth
  <2>3. reply' = [reply EXCEPT ![p] = rep]
    BY SMTT(30) DEF Return, Depth
  <2>4. result' = [result EXCEPT ![p] = res]
    BY SMTT(30) DEF Return, Depth, PathInv
  <2> QED BY SMTT(30), <2>1, <2>2, <2>3, <2>4
<1>4. s \in Seq(Frame) /\ Len(s) = d - 1 /\ StackOK(p, s)
  <2>1. d - 1 \in 0..Len(stack[p])
    BY <1>2
  <2> QED BY SMTT(30), <1>1, <2>1, Shortened
<1>5. /\ m \in [Server -> Answers] /\ MemoOK(p, m)
      /\ \A k : DoneFrom(p, memo[p], k) => DoneFrom(p, m, k)
      /\ a = "ok" => DoneFrom(p, m, d)
  <2>1. a \in Answers
    BY Zenon DEF Answers
  <2>2. (a = "ok" => DoneFrom(p, memo[p], d + 1))
        /\ (a = "ok" \/ memo[p][Route[p][d]] = "none" \/ memo[p][Route[p][d]] = a)
    OBVIOUS
  <2> HIDE DEF d
  <2> QED BY ZenonT(60), <1>2, <2>1, <2>2, Remember
<1>6. rep \in Answers /\ res \in Answers
  BY SMTT(30), OfRequest DEF Answers
<1>7. ToldOK(p, m, d - 1, rep, res)
  <2>1. ASSUME rep = "ok" PROVE DoneFrom(p, m, (d - 1) + 1)
    BY SMTT(30), <1>2, <1>5, <2>1
  <2>2. ASSUME res = "ok", Options[p].stage # "remove" PROVE DoneFrom(p, m, 1)
    <3>1. CASE d > 1
      BY SMTT(30), <1>5, <2>2, <3>1, OfRequest DEF ToldOK
    <3>2. CASE d = 1
      <4>1. Top(p).via # "delete"
        BY SMTT(30), <1>1, <2>2, <3>2 DEF Top, StackOK, Depth
      <4> QED BY SMTT(30), <1>5, <2>2, <3>2, <4>1
    <3>3. d > 1 \/ d = 1
      <4> HIDE DEF d
      <4> QED BY <1>2
    <3> QED BY Zenon, <3>1, <3>2, <3>3
  <2> QED BY SMTT(30), <2>1, <2>2 DEF ToldOK
<1> HIDE DEF d, s, m, rep, res
<1>8. ToldOK(p, m, Len(s), rep, res)
  BY Zenon, <1>4, <1>7
<1> QED BY Zenon, <1>3, <1>4, <1>5, <1>6, <1>8, OneRequest

LEMMA AnswerPath ==
  ASSUME PathOK, PathInv, NEW p \in Request,
         Commit(p) \/ ForwardFails(p) \/ StoreFails(p) \/ Recall(p)
  PROVE  PathInv'
<1> DEFINE d == Len(stack[p])
<1>0. Known(p) = memo[p][Route[p][d]]
  BY SMTT(30) DEF Known, Depth, NodeOf
<1>1. stack[p] # <<>> /\ stack[p] \in Seq(Frame) /\ d \in 1..Len(Route[p])
  BY SMTT(30), OfRequest, Nodes DEF Commit, ForwardFails, StoreFails, Recall, Ready, StackOK
<1>2. CASE Commit(p)
  <2>1. Return(p, "ok") /\ (d = Len(Route[p]) \/ reply[p] = "ok")
    BY Zenon, <1>2 DEF Commit, Depth
  <2>3. DoneFrom(p, memo[p], d + 1)
    <3>1. CASE d = Len(Route[p])
      BY SMTT(30), <1>1, <3>1, Nodes DEF DoneFrom
    <3>2. CASE reply[p] = "ok"
      BY Zenon, <3>2, OfRequest DEF ToldOK
    <3> QED BY SMTT(30), <2>1, <3>1, <3>2
  <2> QED BY SMTT(30), <1>1, <2>1, <2>3, ReturnPath
<1>3. CASE ForwardFails(p) \/ StoreFails(p)
  <2>1. Return(p, "error") /\ Known(p) = "none"
    BY SMTT(30), <1>3 DEF ForwardFails, StoreFails, Ready
  <2> QED BY Zenon, <1>0, <1>1, <2>1, ReturnPath
<1>4. CASE Recall(p)
  <2>1. Return(p, Known(p)) /\ Known(p) # "none"
    BY SMTT(30), <1>4 DEF Recall
  <2>2. Known(p) \in {"ok", "error"}
    <3>1. Route[p][d] \in Server /\ memo[p] \in [Server -> Answers]
      BY SMTT(30), <1>1, Nodes, OfRequest
    <3> QED BY SMTT(30), <1>0, <2>1, <3>1 DEF Answers
  <2>3. Known(p) = "ok" => DoneFrom(p, memo[p], d + 1)
    <3>1. Known(p) = "ok" => DoneFrom(p, memo[p], d)
      BY Zenon, <1>0, <1>1, OfRequest DEF MemoOK
    <3>2. d \in Nat /\ Len(Route[p]) \in Nat
      BY <1>1, Nodes
    <3> HIDE DEF d
    <3> QED BY <3>1, <3>2 DEF DoneFrom
  <2> QED BY SMTT(30), <1>0, <1>1, <2>1, <2>2, <2>3, ReturnPath
<1> QED BY SMTT(30), <1>2, <1>3, <1>4

LEMMA GiveUpPath ==
  ASSUME PathOK, PathInv, NEW p \in Request, NEW i \in 1..Len(stack[p]), GiveUp(p, i)
  PROVE  PathInv'
<1> DEFINE d == Len(stack[p])
           n == Len(Route[p])
           at(j) == Route[p][j]
           old == memo[p]
           cut(x) == \E j \in i..d : at(j) = x /\ ~Waits(stack[p][j]) /\ old[x] = "none"
           m == [x \in Server |-> IF cut(x) THEN Outcome(p, CHOOSE j \in i..d : at(j) = x) ELSE old[x]]
           s == SubSeq(stack[p], 1, i - 1)
           rep == IF i = 1 THEN "none" ELSE "error"
           res == IF i = 1 THEN "error" ELSE result[p]
<1>1. stack[p] \in Seq(Frame) /\ StackOK(p, stack[p]) /\ d \in Nat /\ n \in Nat /\ d <= n
  BY SMTT(30), OfRequest, Nodes DEF StackOK
<1>2. /\ stack' = [stack EXCEPT ![p] = s] /\ memo' = [memo EXCEPT ![p] = m]
      /\ reply' = [reply EXCEPT ![p] = rep] /\ result' = [result EXCEPT ![p] = res]
  <2>1. memo' = [memo EXCEPT ![p] = m]
    BY Zenon DEF GiveUp, Depth, NodeOf
  <2>2. stack' = [stack EXCEPT ![p] = s]
    BY Zenon DEF GiveUp
  <2>3. reply' = [reply EXCEPT ![p] = rep]
    BY Zenon DEF GiveUp
  <2>4. result' = [result EXCEPT ![p] = res]
    BY Zenon DEF GiveUp, PathInv
  <2> QED BY SMTT(30), <2>1, <2>2, <2>3, <2>4
<1>3. s \in Seq(Frame) /\ Len(s) = i - 1 /\ StackOK(p, s)
  <2>1. i - 1 \in 0..Len(stack[p])
    BY <1>1
  <2> QED BY SMTT(30), <1>1, <2>1, Shortened
<1>4. rep \in Answers /\ res \in Answers
  BY Zenon, OfRequest DEF Answers
<1>5. old \in [Server -> Answers] /\ MemoOK(p, old)
  BY Zenon, OfRequest
<1>6. \A j \in 1..n : at(j) \in Server
  BY Zenon, Nodes
<1>7. \A j, k \in 1..n : at(j) = at(k) => j = k
  BY Zenon DEF PathOK, RoutesOK
<1>8. m \in [Server -> Answers]
  <2>1. \A j : Outcome(p, j) \in Answers
    BY Zenon DEF Outcome, Answers
  <2> QED BY Zenon, <1>5, <2>1
<1>9. \A x \in Server : old[x] = "ok" => m[x] = "ok"
  OBVIOUS
<1>10. ASSUME NEW k \in 1..n, m[at(k)] = "ok", old[at(k)] # "ok"
       PROVE  k = n \/ (k = d /\ reply[p] = "ok")
  <2>1. cut(at(k)) /\ Outcome(p, CHOOSE j \in i..d : at(j) = at(k)) = "ok"
    BY Zenon, <1>6, <1>10
  <2>2. PICK c \in i..d : at(c) = at(k)
    BY Zenon, <2>1
  <2>3. (CHOOSE j \in i..d : at(j) = at(k)) \in i..d /\ at(CHOOSE j \in i..d : at(j) = at(k)) = at(k)
    BY Zenon, <2>2
  <2>4. (CHOOSE j \in i..d : at(j) = at(k)) = k
    <3> DEFINE e == CHOOSE j \in i..d : at(j) = at(k)
    <3>1. e \in i..d /\ at(e) = at(k)
      BY Zenon, <2>3
    <3> HIDE DEF e
    <3>2. e \in 1..n
      BY SMTT(30), <1>1, <3>1
    <3> QED BY SMTT(30), <1>7, <3>1, <3>2 DEF e
  <2> QED BY Zenon, <2>1, <2>4 DEF Outcome, Depth
<1> HIDE DEF m, s, rep, res, d, n, at, old
<1>11. \A k : DoneFrom(p, old, k) => DoneFrom(p, m, k)
  BY SMTT(30), <1>6, <1>9 DEF DoneFrom, n, at
<1>12. MemoOK(p, m)
  <2> SUFFICES ASSUME NEW k \in 1..n, m[at(k)] = "ok" PROVE DoneFrom(p, m, k)
    BY Zenon DEF MemoOK, n, at
  <2>1. CASE old[at(k)] = "ok"
    BY SMTT(30), <1>5, <1>11, <2>1 DEF MemoOK, n, at
  <2>2. CASE old[at(k)] # "ok" /\ k = n
    BY SMTT(30), <1>1, <2>2 DEF DoneFrom, n, at
  <2>3. CASE k = d /\ reply[p] = "ok"
    <3>1. DoneFrom(p, m, d + 1)
      BY SMTT(30), <1>11, <2>3, OfRequest DEF ToldOK, d, old
    <3> QED BY SMTT(30), <1>1, <2>3, <3>1 DEF DoneFrom, n, at
  <2> QED BY SMTT(30), <1>10, <2>1, <2>2, <2>3
<1>13. ToldOK(p, m, Len(s), rep, res)
  <2>1. rep # "ok"
    BY Zenon DEF rep
  <2>2. res = "ok" => result[p] = "ok"
    BY Zenon DEF res
  <2> QED BY SMTT(30), <1>11, <2>1, <2>2, OfRequest DEF ToldOK, old
<1> QED BY Zenon, <1>2, <1>3, <1>4, <1>8, <1>12, <1>13, OneRequest

---------------------------------------------------------------------------
LEMMA PathInvStep == ASSUME PathOK, PathInv, [PathNext]_pathVars PROVE PathInv'
<1>1. CASE UNCHANGED pathVars
  BY Zenon, <1>1 DEF pathVars, PathInv
<1>2. ASSUME NEW p \in Request, Begin(p) \/ Step(p) \/ StoreFails(p) PROVE PathInv'
  BY SMTT(30), <1>2, BeginPath, TakeSlotPath, ForwardPath, AnswerPath DEF Step
<1>3. ASSUME NEW p \in Request, NEW i \in 1..Len(Route[p]), Break(p, i) \/ Timeout(p, i) PROVE PathInv'
  BY Zenon, <1>3, GiveUpPath DEF Break, Timeout, Depth
<1>4. ASSUME NEW n \in Server, Leave(n) PROVE PathInv'
  BY Zenon, <1>4 DEF Leave, PathInv
<1> QED BY SMTT(30), <1>1, <1>2, <1>3, <1>4 DEF PathNext

(* Whatever is retried over another transport, remembered, timed out or    *)
(* lost, every node gets the write HEAD issued, and a PUT the mount is     *)
(* told has succeeded was carried out by every node of its chain           *)
(* (craq.go:129-209, transport.go:80-90, server.go:545-599).               *)
THEOREM SuccessIsEverywhere == PathSpec => []OkEverywhere
<1>1. PathInv => OkEverywhere
  <2> SUFFICES ASSUME PathInv, NEW p \in Request
               PROVE  /\ \A i \in 1..Depth(p) : stack[p][i].req = Options[p]
                      /\ result[p] = "ok" /\ Options[p].stage # "remove" =>
                           \A i \in DOMAIN Route[p] : memo[p][NodeOf(p, i)] = "ok"
    BY Zenon DEF OkEverywhere
  <2>1. \A i \in 1..Depth(p) : stack[p][i].req = Options[p]
    BY Zenon, OfRequest DEF StackOK, Depth
  <2>2. DOMAIN Route[p] = 1..Len(Route[p]) /\ Len(Route[p]) \in Nat
    BY PathAssumed DEF PathOK, RoutesOK
  <2>3. result[p] = "ok" /\ Options[p].stage # "remove" => DoneFrom(p, memo[p], 1)
    BY Zenon, OfRequest DEF ToldOK
  <2> QED BY SMTT(30), <2>1, <2>2, <2>3 DEF DoneFrom, NodeOf
<1> QED BY <1>1, PathAssumed, PathInvInit, PathInvStep, PTL DEF PathSpec

---------------------------------------------------------------------------
(* The slots.                                                              *)

Holds(p, s, n) == \E i \in 1..Len(s) : Route[p][i] = n /\ s[i].slot

One(b) == IF b THEN 1 ELSE 0

SlotInv ==
  /\ slots \in [Server -> 0..Slots] /\ left \in [Server -> Nat]
  /\ \A n \in Server :
       IsFiniteSet(Holders(n)) /\ slots[n] = left[n] + Cardinality(Holders(n))

LEMMA SlotsNat == Slots \in Nat \ {0}
BY Zenon, PathConstants

LEMMA OneMore ==
  ASSUME NEW S, IsFiniteSet(S), NEW p, NEW b, NEW T,
         T = IF b THEN S \cup {p} ELSE S \ {p}
  PROVE  /\ IsFiniteSet(T) /\ Cardinality(S) \in Nat /\ Cardinality(T) \in Nat
         /\ Cardinality(T) = Cardinality(S) - One(p \in S) + One(b)
<1>1. Cardinality(S) \in Nat
  BY Zenon, FS_CardinalityType
<1>2. CASE b
  <2>1. T = S \cup {p} /\ IsFiniteSet(T)
        /\ Cardinality(T) = IF p \in S THEN Cardinality(S) ELSE Cardinality(S) + 1
    BY Zenon, <1>2, FS_AddElement
  <2> QED BY <1>1, <1>2, <2>1 DEF One
<1>3. CASE ~b
  <2>1. T = S \ {p} /\ IsFiniteSet(T)
        /\ Cardinality(T) = IF p \in S THEN Cardinality(S) - 1 ELSE Cardinality(S)
    BY Zenon, <1>3, FS_RemoveElement
  <2>2. Cardinality(T) \in Nat
    BY Zenon, <2>1, FS_CardinalityType
  <2> QED BY <1>1, <1>3, <2>1, <2>2 DEF One
<1> QED BY Zenon, <1>2, <1>3

(* The handlers of p alone change: so do the holders of every slot.        *)
LEMMA OneHolder ==
  ASSUME PathInv, NEW p \in Request, NEW s, stack' = [stack EXCEPT ![p] = s],
         NEW n \in Server, IsFiniteSet(Holders(n))
  PROVE  /\ IsFiniteSet(Holders(n)') /\ Cardinality(Holders(n)') \in Nat
         /\ Cardinality(Holders(n)) \in Nat
         /\ Cardinality(Holders(n)')
              = Cardinality(Holders(n)) - One(Holds(p, stack[p], n)) + One(Holds(p, s, n))
<1>1. DOMAIN stack = Request
  BY Zenon DEF PathInv
<1>2. \A q : q \in Holders(n) <=> q \in Request /\ Holds(q, stack[q], n)
  BY Zenon DEF Holders, Holds, Depth, NodeOf
<1>3. \A q : q \in Holders(n)' <=> q \in Request /\ Holds(q, stack'[q], n)
  BY Zenon DEF Holders, Holds, Depth, NodeOf
<1>4. stack'[p] = s /\ \A q \in Request : q # p => stack'[q] = stack[q]
  BY Zenon, <1>1
<1>5. One(p \in Holders(n)) = One(Holds(p, stack[p], n))
  BY Zenon, <1>2 DEF One
<1>6. Holders(n)' = IF Holds(p, s, n) THEN Holders(n) \cup {p} ELSE Holders(n) \ {p}
  <2>1. ASSUME NEW q PROVE q \in Holders(n)' <=>
          q \in IF Holds(p, s, n) THEN Holders(n) \cup {p} ELSE Holders(n) \ {p}
    <3>1. CASE q = p
      BY Zenon, <1>3, <1>4, <3>1
    <3>2. CASE q # p
      BY Zenon, <1>2, <1>3, <1>4, <3>2
    <3> QED BY Zenon, <3>1, <3>2
  <2> QED BY Zenon, <2>1
<1>7. /\ IsFiniteSet(Holders(n)') /\ Cardinality(Holders(n)') \in Nat
      /\ Cardinality(Holders(n)) \in Nat
      /\ Cardinality(Holders(n)')
           = Cardinality(Holders(n)) - One(p \in Holders(n)) + One(Holds(p, s, n))
  BY Zenon, <1>6, OneMore
<1> QED BY Zenon, <1>5, <1>7

LEMMA SlotFrame ==
  ASSUME PathInv, SlotInv, NEW p \in Request, NEW s, stack' = [stack EXCEPT ![p] = s],
         slots' \in [Server -> Int], left' \in [Server -> Nat],
         \A n \in Server :
           /\ slots'[n] <= Slots
           /\ slots'[n] - left'[n] + One(Holds(p, stack[p], n))
                = slots[n] - left[n] + One(Holds(p, s, n))
  PROVE  SlotInv'
<1>1. ASSUME NEW n \in Server
      PROVE  /\ IsFiniteSet(Holders(n)') /\ slots'[n] = left'[n] + Cardinality(Holders(n)')
             /\ slots'[n] \in 0..Slots
  <2> DEFINE a == One(Holds(p, stack[p], n))
             b == One(Holds(p, s, n))
             h == Cardinality(Holders(n))
             k == Cardinality(Holders(n)')
  <2>1. IsFiniteSet(Holders(n)) /\ slots[n] = left[n] + h
    BY Zenon DEF SlotInv
  <2>2. IsFiniteSet(Holders(n)') /\ k \in Nat /\ h \in Nat /\ k = h - a + b
    BY Zenon, <2>1, OneHolder
  <2>3. a \in Nat /\ b \in Nat
    BY Zenon DEF One
  <2>4. slots[n] \in Int /\ left[n] \in Nat /\ slots'[n] \in Int /\ left'[n] \in Nat
    BY DEF SlotInv
  <2>5. slots'[n] <= Slots /\ slots'[n] - left'[n] + a = slots[n] - left[n] + b
    OBVIOUS
  <2> HIDE DEF a, b, h, k
  <2>6. slots'[n] = left'[n] + k /\ slots'[n] >= 0
    BY SMTT(30), <2>1, <2>2, <2>3, <2>4, <2>5
  <2> QED BY <2>2, <2>4, <2>5, <2>6, SlotsNat DEF k
<1>2. slots' \in [Server -> 0..Slots]
  BY Zenon, <1>1
<1> QED BY Zenon, <1>1, <1>2 DEF SlotInv

LEMMA SlotSame ==
  ASSUME PathInv, SlotInv, NEW p \in Request, NEW s, stack' = [stack EXCEPT ![p] = s],
         UNCHANGED <<slots, left>>,
         \A n \in Server : Holds(p, s, n) <=> Holds(p, stack[p], n)
  PROVE  SlotInv'
<1>1. slots' \in [Server -> Int] /\ left' \in [Server -> Nat]
  BY DEF SlotInv
<1>2. ASSUME NEW n \in Server
      PROVE  /\ slots'[n] <= Slots
             /\ slots'[n] - left'[n] + One(Holds(p, stack[p], n))
                  = slots[n] - left[n] + One(Holds(p, s, n))
  <2>1. One(Holds(p, stack[p], n)) = One(Holds(p, s, n))
    BY Zenon DEF One
  <2>2. slots'[n] = slots[n] /\ left'[n] = left[n] /\ slots[n] \in 0..Slots
    BY Zenon DEF SlotInv
  <2> QED BY <2>1, <2>2, SlotsNat
<1> QED BY Zenon, <1>1, <1>2, SlotFrame

LEMMA BeginSlots == ASSUME PathInv, SlotInv, NEW p \in Request, Begin(p) PROVE SlotInv'
<1> DEFINE f == [via |-> IF Options[p].stage = "remove" THEN "delete" ELSE "http", slot |-> FALSE,
                 req |-> Options[p], try |-> 0]
<1>1. stack[p] = <<>> /\ stack' = [stack EXCEPT ![p] = <<f>>] /\ UNCHANGED <<slots, left>>
  BY Zenon DEF Begin
<1>2. \A n : ~Holds(p, <<f>>, n) /\ ~Holds(p, stack[p], n)
  BY <1>1 DEF Holds
<1> HIDE DEF f
<1> QED BY Zenon, <1>1, <1>2, SlotSame

LEMMA ForwardSlots == ASSUME PathOK, PathInv, SlotInv, NEW p \in Request, Forward(p) PROVE SlotInv'
<1> DEFINE d == Len(stack[p])
           via == transports[Top(p).try + 1]
           child == [via |-> via, slot |-> FALSE, req |-> received(via, Top(p).req), try |-> 0]
           tried == [stack[p] EXCEPT ![d].try = @ + 1]
<1>1. stack[p] \in Seq(Frame) /\ stack[p] # <<>> /\ d \in Nat
  BY OfRequest DEF Forward, MayForward, Ready
<1>2. Len(tried) = d /\ DOMAIN tried = 1..d /\ \A i \in 1..d : tried[i].slot = stack[p][i].slot
  BY <1>1 DEF Frame
<1>3. \A n : Holds(p, tried, n) <=> Holds(p, stack[p], n)
  BY Zenon, <1>2 DEF Holds
<1>4. UNCHANGED <<slots, left>>
      /\ (stack' = [stack EXCEPT ![p] = tried] \/ stack' = [stack EXCEPT ![p] = Append(tried, child)])
  BY Zenon DEF Forward, Depth
<1>5. ~child.slot
  OBVIOUS
<1>6. tried \in Seq(Frame)
  <2> DEFINE e == [stack[p][d] EXCEPT !.try = @ + 1]
  <2>1. d \in 1..Len(stack[p])
    BY <1>1
  <2>2. stack[p][d] \in Frame
    BY <1>1, <2>1
  <2>3. e \in Frame
    BY Zenon, <2>2, Framed
  <2>4. tried = [stack[p] EXCEPT ![d] = e]
    BY Zenon, <1>1
  <2> HIDE DEF e, tried
  <2> QED BY SMTT(30), <1>1, <2>1, <2>3, <2>4, Replaced
<1> HIDE DEF via, child, tried
<1>7. \A n : Holds(p, Append(tried, child), n) <=> Holds(p, tried, n)
  <2>1. /\ Len(Append(tried, child)) = d + 1 /\ Append(tried, child)[d + 1] = child
        /\ \A i \in 1..d : Append(tried, child)[i] = tried[i]
    BY <1>2, <1>6
  <2> HIDE DEF d
  <2> QED BY <1>1, <1>2, <1>5, <2>1 DEF Holds
<1> QED BY Zenon, <1>3, <1>4, <1>7, SlotSame

LEMMA TakeSlotSlots == ASSUME PathOK, PathInv, SlotInv, NEW p \in Request, TakeSlot(p) PROVE SlotInv'
<1> DEFINE d == Len(stack[p])
           s == [stack[p] EXCEPT ![d].slot = TRUE]
           at == Route[p][d]
<1>1. stack[p] \in Seq(Frame) /\ stack[p] # <<>> /\ d \in Nat \ {0} /\ d <= Len(Route[p])
  BY OfRequest DEF TakeSlot, StackOK
<1>2. /\ stack' = [stack EXCEPT ![p] = s] /\ UNCHANGED left
      /\ slots[at] < Slots /\ slots' = [slots EXCEPT ![at] = @ + 1]
      /\ ~stack[p][d].slot
  BY Zenon, <1>1 DEF TakeSlot, Depth, NodeOf, Waits, Top
<1>3. Len(s) = d /\ (\A i \in 1..d : i # d => s[i].slot = stack[p][i].slot) /\ s[d].slot
  BY <1>1 DEF Frame
<1>4. d \in 1..Len(Route[p]) /\ Len(Route[p]) \in Nat /\ at \in Server
  BY <1>1, Nodes
<1>5. \A i \in 1..d : Route[p][i] = at => i = d
  BY <1>1, <1>4 DEF PathOK, RoutesOK
<1>6. ~Holds(p, stack[p], at) /\ Holds(p, s, at)
  BY <1>1, <1>2, <1>3, <1>5 DEF Holds
<1>7. \A n : n # at => (Holds(p, stack[p], n) <=> Holds(p, s, n))
  BY Zenon, <1>1, <1>3 DEF Holds
<1>8. slots' \in [Server -> Int] /\ left' \in [Server -> Nat]
  <2>1. slots \in [Server -> Int] /\ left \in [Server -> Nat]
    BY SMTT(30), SlotsNat DEF SlotInv
  <2> QED BY <1>2, <1>4, <2>1
<1> HIDE DEF s, at, d
<1>9. ASSUME NEW n \in Server
      PROVE  /\ slots'[n] <= Slots
             /\ slots'[n] - left'[n] + One(Holds(p, stack[p], n))
                  = slots[n] - left[n] + One(Holds(p, s, n))
  <2>1. slots[n] \in 0..Slots /\ left[n] \in Nat /\ Slots \in Nat /\ left'[n] = left[n]
    BY SMTT(30), <1>2, SlotsNat DEF SlotInv
  <2>2. CASE n = at
    <3>1. slots'[n] = slots[n] + 1
      BY Zenon, <1>2, <2>2 DEF SlotInv
    <3>2. One(Holds(p, stack[p], n)) = 0 /\ One(Holds(p, s, n)) = 1
      BY SMTT(30), <1>6, <2>2 DEF One
    <3> QED BY <1>2, <2>1, <2>2, <3>1, <3>2
  <2>3. CASE n # at
    <3>1. slots'[n] = slots[n]
      BY Zenon, <1>2, <2>3 DEF SlotInv
    <3>2. One(Holds(p, stack[p], n)) = One(Holds(p, s, n))
      BY Zenon, <1>7, <2>3 DEF One
    <3> QED BY <2>1, <3>1, <3>2
  <2> QED BY Zenon, <2>2, <2>3
<1> QED BY Zenon, <1>2, <1>8, <1>9, SlotFrame

LEMMA ReturnSlots ==
  ASSUME PathOK, PathInv, SlotInv, NEW p \in Request, stack[p] # <<>>, NEW a, Return(p, a)
  PROVE  SlotInv'
<1> DEFINE d == Len(stack[p])
           s == SubSeq(stack[p], 1, d - 1)
           at == Route[p][d]
           b == stack[p][d].slot
<1>1. stack[p] \in Seq(Frame) /\ d \in Nat \ {0} /\ d <= Len(Route[p])
  BY OfRequest DEF StackOK
<1>2. /\ stack' = [stack EXCEPT ![p] = s] /\ UNCHANGED left
      /\ slots' = [slots EXCEPT ![at] = IF b THEN @ - 1 ELSE @]
  BY Zenon DEF Return, Depth, NodeOf, Top
<1>3. Len(s) = d - 1 /\ \A i \in 1..d : i # d => s[i] = stack[p][i]
  BY <1>1
<1>4. d \in 1..Len(Route[p]) /\ Len(Route[p]) \in Nat /\ at \in Server
  BY SMTT(30), <1>1, Nodes
<1>5. \A i \in 1..d : Route[p][i] = at => i = d
  BY <1>1, <1>4 DEF PathOK, RoutesOK
<1>6. ~Holds(p, s, at) /\ (Holds(p, stack[p], at) <=> b)
  BY <1>1, <1>3, <1>5 DEF Holds
<1>7. \A n : n # at => (Holds(p, stack[p], n) <=> Holds(p, s, n))
  BY SMTT(30), <1>1, <1>3 DEF Holds
<1>8. slots' \in [Server -> Int] /\ left' \in [Server -> Nat]
  <2>1. slots \in [Server -> Int] /\ left \in [Server -> Nat]
    BY SMTT(30), SlotsNat DEF SlotInv
  <2> QED BY <1>2, <1>4, <2>1
<1> HIDE DEF s, at, d, b
<1>9. ASSUME NEW n \in Server
      PROVE  /\ slots'[n] <= Slots
             /\ slots'[n] - left'[n] + One(Holds(p, stack[p], n))
                  = slots[n] - left[n] + One(Holds(p, s, n))
  <2>1. slots[n] \in 0..Slots /\ left[n] \in Nat /\ Slots \in Nat /\ left'[n] = left[n]
    BY SMTT(30), <1>2, SlotsNat DEF SlotInv
  <2>2. CASE n = at
    <3>1. slots'[n] = slots[n] - One(b)
      BY <1>2, <2>1, <2>2 DEF SlotInv, One
    <3>2. One(Holds(p, s, n)) = 0
      BY Zenon, <1>6, <2>2 DEF One
    <3>3. One(Holds(p, stack[p], n)) = One(b) /\ One(b) \in {0, 1}
      BY Zenon, <1>6, <2>2 DEF One
    <3> QED BY <2>1, <3>1, <3>2, <3>3
  <2>3. CASE n # at
    <3>1. slots'[n] = slots[n]
      BY Zenon, <1>2, <2>3 DEF SlotInv
    <3>2. One(Holds(p, stack[p], n)) = One(Holds(p, s, n))
      BY Zenon, <1>7, <2>3 DEF One
    <3> QED BY <2>1, <3>1, <3>2
  <2> QED BY Zenon, <2>2, <2>3
<1> QED BY Zenon, <1>2, <1>8, <1>9, SlotFrame

LEMMA GiveUpSlots ==
  ASSUME PathOK, PathInv, SlotInv, NEW p \in Request, NEW i \in 1..Len(stack[p]), GiveUp(p, i)
  PROVE  SlotInv'
<1> DEFINE d == Len(stack[p])
           s == SubSeq(stack[p], 1, i - 1)
<1>1. stack[p] \in Seq(Frame) /\ d \in Nat \ {0} /\ d <= Len(Route[p]) /\ Len(Route[p]) \in Nat
  BY SMTT(30), OfRequest, Nodes DEF StackOK
<1>2. /\ stack' = [stack EXCEPT ![p] = s] /\ UNCHANGED slots
      /\ left' = [n \in Server |-> left[n] + Abandoned(p, i, n)]
  BY Zenon DEF GiveUp
<1>3. Len(s) = i - 1 /\ \A j \in 1..i - 1 : s[j] = stack[p][j]
  BY <1>1
<1>4. \A j, k \in 1..d : Route[p][j] = Route[p][k] => j = k
  BY SMTT(30), <1>1 DEF PathOK, RoutesOK
<1>5. ASSUME NEW n \in Server
      PROVE  /\ Abandoned(p, i, n) \in Nat
             /\ One(Holds(p, stack[p], n)) = One(Holds(p, s, n)) + Abandoned(p, i, n)
  <2> DEFINE A == {j \in i..d : Route[p][j] = n /\ stack[p][j].slot}
  <2>1. Abandoned(p, i, n) = Cardinality(A)
    BY SMTT(30) DEF Abandoned, Depth, NodeOf
  <2>2. CASE A = {}
    <3>0. \A j \in 1..d : Route[p][j] = n /\ stack[p][j].slot => j \in 1..i - 1
      BY SMTT(30), <1>1, <2>2
    <3>1. Cardinality(A) = 0
      BY Zenon, <2>2, FS_EmptySet
    <3>2. Holds(p, stack[p], n) <=> Holds(p, s, n)
      BY <1>1, <1>3, <3>0 DEF Holds
    <3>3. One(Holds(p, stack[p], n)) = One(Holds(p, s, n)) /\ One(Holds(p, s, n)) \in {0, 1}
      BY Zenon, <3>2 DEF One
    <3> QED BY <2>1, <3>1, <3>3
  <2>3. CASE A # {}
    <3>1. PICK j \in i..d : Route[p][j] = n /\ stack[p][j].slot
      BY Zenon, <2>3
    <3>2. \A k \in 1..d : Route[p][k] = n => k = j
      BY <1>1, <1>4, <3>1
    <3>3. A = {j}
      BY <1>1, <3>1, <3>2
    <3>4. Cardinality(A) = 1
      BY Zenon, <3>3, FS_Singleton
    <3>5. Holds(p, stack[p], n) /\ ~Holds(p, s, n)
      BY <1>1, <1>3, <3>1, <3>2 DEF Holds
    <3> QED BY <2>1, <3>4, <3>5 DEF One
  <2> QED BY Zenon, <2>2, <2>3
<1>6. slots' \in [Server -> Int] /\ left' \in [Server -> Nat]
  BY SMTT(30), <1>2, <1>5 DEF SlotInv
<1> HIDE DEF s, d
<1>7. ASSUME NEW n \in Server
      PROVE  /\ slots'[n] <= Slots
             /\ slots'[n] - left'[n] + One(Holds(p, stack[p], n))
                  = slots[n] - left[n] + One(Holds(p, s, n))
  <2>1. /\ slots[n] \in 0..Slots /\ left[n] \in Nat /\ Slots \in Nat
        /\ slots'[n] = slots[n] /\ left'[n] = left[n] + Abandoned(p, i, n)
    BY Zenon, <1>2, SlotsNat DEF SlotInv
  <2>2. One(Holds(p, s, n)) \in Nat
    BY Zenon DEF One
  <2> QED BY <1>5, <2>1, <2>2
<1> QED BY Zenon, <1>2, <1>6, <1>7, SlotFrame

LEMMA LeaveSlots == ASSUME SlotInv, NEW n \in Server, Leave(n) PROVE SlotInv'
<1>1. /\ left[n] > 0 /\ stack' = stack
      /\ left' = [left EXCEPT ![n] = @ - 1] /\ slots' = [slots EXCEPT ![n] = @ - 1]
  BY Zenon DEF Leave
<1>2. \A m : Holders(m)' = Holders(m)
  BY SMTT(30), <1>1 DEF Holders, Depth
<1>3. ASSUME NEW m \in Server
      PROVE  /\ left'[m] \in Nat /\ slots'[m] \in 0..Slots
             /\ IsFiniteSet(Holders(m)') /\ slots'[m] = left'[m] + Cardinality(Holders(m)')
  <2>1. /\ slots[m] \in 0..Slots /\ left[m] \in Nat /\ Slots \in Nat
        /\ IsFiniteSet(Holders(m)) /\ slots[m] = left[m] + Cardinality(Holders(m))
    BY Zenon, SlotsNat DEF SlotInv
  <2>2. Cardinality(Holders(m)) \in Nat
    BY Zenon, <2>1, FS_CardinalityType
  <2>3. CASE m = n
    <3>1. slots'[m] = slots[m] - 1 /\ left'[m] = left[m] - 1
      BY Zenon, <1>1, <2>3 DEF SlotInv
    <3> QED BY <1>1, <1>2, <2>1, <2>2, <2>3, <3>1
  <2>4. CASE m # n
    <3>1. slots'[m] = slots[m] /\ left'[m] = left[m]
      BY Zenon, <1>1, <2>4 DEF SlotInv
    <3> QED BY Zenon, <1>2, <2>1, <3>1
  <2> QED BY Zenon, <2>3, <2>4
<1>4. left' \in [Server -> Nat] /\ slots' \in [Server -> 0..Slots]
  BY Zenon, <1>1, <1>3 DEF SlotInv
<1> QED BY Zenon, <1>3, <1>4 DEF SlotInv

LEMMA SlotStep == ASSUME PathOK, PathInv, SlotInv, [PathNext]_pathVars PROVE SlotInv'
<1>1. CASE UNCHANGED pathVars
  BY Zenon, <1>1 DEF pathVars, SlotInv, Holders, Depth
<1>2. ASSUME NEW p \in Request, Begin(p) \/ Step(p) \/ StoreFails(p) PROVE SlotInv'
  <2>1. CASE Begin(p) \/ TakeSlot(p) \/ Forward(p)
    BY Zenon, <2>1, BeginSlots, TakeSlotSlots, ForwardSlots
  <2>2. CASE Commit(p) \/ ForwardFails(p) \/ StoreFails(p) \/ Recall(p)
    <3>1. stack[p] # <<>> /\ \E a : Return(p, a)
      BY Zenon, <2>2 DEF Commit, ForwardFails, StoreFails, Recall, Ready
    <3> QED BY Zenon, <3>1, ReturnSlots
  <2> QED BY Zenon, <1>2, <2>1, <2>2 DEF Step
<1>3. ASSUME NEW p \in Request, NEW i \in 1..Len(Route[p]), Break(p, i) \/ Timeout(p, i) PROVE SlotInv'
  BY Zenon, <1>3, GiveUpSlots DEF Break, Timeout, Depth
<1>4. ASSUME NEW n \in Server, Leave(n) PROVE SlotInv'
  BY Zenon, <1>4, LeaveSlots
<1> QED BY Zenon, <1>1, <1>2, <1>3, <1>4 DEF PathNext

LEMMA SlotInit == ASSUME PathInit PROVE SlotInv
<1>1. slots \in [Server -> 0..Slots] /\ left \in [Server -> Nat]
  BY SlotsNat DEF PathInit
<1>2. \A n \in Server : slots[n] = 0 /\ left[n] = 0
  BY Zenon DEF PathInit
<1>3. \A n : Holders(n) = {}
  BY DEF PathInit, Holders, Depth
<1> QED BY <1>1, <1>2, <1>3, FS_EmptySet DEF SlotInv

---------------------------------------------------------------------------
(* The rest of the types, and requests that nothing disturbs.              *)

PathTypes ==
  /\ grpc \subseteq Server /\ failures \in 0..MaxFailures

Undisturbed == grpc = Server /\ failures = 0

(* Only HEAD's handler holds a slot, and no answer is an error.            *)
Smooth(s, m, rep, res) ==
  /\ \A i \in 1..Len(s) : (s[i].via = "http" => i = 1) /\ (s[i].slot => s[i].via = "http")
  /\ \A n \in Server : m[n] # "error"
  /\ rep # "error" /\ res # "error"

SmoothInv ==
  Undisturbed => \A p \in Request : Smooth(stack[p], memo[p], reply[p], result[p])

LEMMA TypesStep == ASSUME PathTypes, [PathNext]_pathVars PROVE PathTypes' /\ (Undisturbed' => Undisturbed)
<1>0. MaxFailures \in Nat
  BY Zenon, PathConstants
<1>1. UNCHANGED grpc
  BY Zenon DEF PathNext, Step, Begin, TakeSlot, Forward, Commit, ForwardFails, StoreFails, Recall, Return, Break, 
    Timeout, GiveUp, Leave, pathVars
<1>2. UNCHANGED failures \/ Failure
  BY Zenon DEF PathNext, Step, Begin, TakeSlot, Forward, Commit, ForwardFails, StoreFails, Recall, Break, 
    Timeout, Leave, pathVars
<1>3. failures' \in 0..MaxFailures /\ (failures' = 0 => failures = 0)
  BY <1>0, <1>2 DEF PathTypes, Failure
<1> QED BY Zenon, <1>1, <1>3 DEF PathTypes, Undisturbed

LEMMA SmoothFrame ==
  ASSUME PathInv, SmoothInv, Undisturbed, NEW p \in Request, NEW s, NEW m, NEW rep, NEW res,
         stack' = [stack EXCEPT ![p] = s], memo' = [memo EXCEPT ![p] = m],
         reply' = [reply EXCEPT ![p] = rep], result' = [result EXCEPT ![p] = res],
         Smooth(s, m, rep, res)
  PROVE  SmoothInv'
<1>1. DOMAIN stack = Request /\ DOMAIN memo = Request /\ DOMAIN reply = Request /\ DOMAIN result = Request
  BY Zenon DEF PathInv
<1>2. ASSUME NEW q \in Request PROVE Smooth(stack'[q], memo'[q], reply'[q], result'[q])
  <2>1. CASE q = p
    <3>1. stack'[q] = s /\ memo'[q] = m /\ reply'[q] = rep /\ result'[q] = res
      BY Zenon, <1>1, <2>1
    <3> QED BY Zenon, <3>1
  <2>2. CASE q # p
    <3>1. /\ stack'[q] = stack[q] /\ memo'[q] = memo[q]
          /\ reply'[q] = reply[q] /\ result'[q] = result[q]
      BY Zenon, <1>1, <2>2
    <3> QED BY Zenon, <3>1 DEF SmoothInv
  <2> QED BY Zenon, <2>1, <2>2
<1> QED BY Zenon, <1>2 DEF SmoothInv

LEMMA OfSmooth ==
  ASSUME SmoothInv, Undisturbed, NEW p \in Request
  PROVE  Smooth(stack[p], memo[p], reply[p], result[p])
BY Zenon DEF SmoothInv

LEMMA BeginSmooth ==
  ASSUME PathInv, SmoothInv, Undisturbed, NEW p \in Request, Begin(p) PROVE SmoothInv'
<1> DEFINE f == [via |-> IF Options[p].stage = "remove" THEN "delete" ELSE "http", slot |-> FALSE,
                 req |-> Options[p], try |-> 0]
<1>1. stack' = [stack EXCEPT ![p] = <<f>>] /\ UNCHANGED <<memo, reply, result>>
  BY SMTT(30) DEF Begin
<1>2. Smooth(<<f>>, memo[p], reply[p], result[p])
  BY OfSmooth DEF Smooth
<1> HIDE DEF f
<1>3. /\ memo' = [memo EXCEPT ![p] = memo[p]] /\ reply' = [reply EXCEPT ![p] = reply[p]]
      /\ result' = [result EXCEPT ![p] = result[p]]
  BY Zenon, <1>1 DEF PathInv
<1>4. stack' = [stack EXCEPT ![p] = <<f>>]
  BY Zenon, <1>1
<1> QED BY Zenon, <1>2, <1>3, <1>4, SmoothFrame

LEMMA TakeSlotSmooth ==
  ASSUME PathOK, PathInv, SmoothInv, Undisturbed, NEW p \in Request, TakeSlot(p) PROVE SmoothInv'
<1> DEFINE d == Len(stack[p])
           s == [stack[p] EXCEPT ![d].slot = TRUE]
<1>1. stack[p] \in Seq(Frame) /\ stack[p] # <<>> /\ d \in Nat \ {0}
  BY OfRequest DEF TakeSlot
<1>2. /\ stack' = [stack EXCEPT ![p] = s] /\ UNCHANGED <<memo, reply, result>>
      /\ stack[p][d].via = "http"
  BY Zenon, <1>1 DEF TakeSlot, Depth, Waits, Top
<1>3. /\ Len(s) = d /\ \A i \in 1..d : i # d => s[i].slot = stack[p][i].slot
      /\ \A i \in 1..d : s[i].via = stack[p][i].via
  BY <1>1 DEF Frame
<1>4. Smooth(stack[p], memo[p], reply[p], result[p])
  BY SMTT(30), OfSmooth
<1> HIDE DEF s
<1>5. Smooth(s, memo[p], reply[p], result[p])
  BY SMTT(30), <1>1, <1>2, <1>3, <1>4 DEF Smooth
<1>6. /\ memo' = [memo EXCEPT ![p] = memo[p]] /\ reply' = [reply EXCEPT ![p] = reply[p]]
      /\ result' = [result EXCEPT ![p] = result[p]]
  BY SMTT(30), <1>2 DEF PathInv
<1>7. stack' = [stack EXCEPT ![p] = s]
  BY Zenon, <1>2
<1> QED BY Zenon, <1>5, <1>6, <1>7, SmoothFrame

(* The first transport is gRPC, and it reaches every node.                 *)
LEMMA ForwardSmooth ==
  ASSUME PathOK, PathInv, SmoothInv, Undisturbed, NEW p \in Request, Forward(p) PROVE SmoothInv'
<1> DEFINE d == Len(stack[p])
           child == [via |-> "grpc", slot |-> FALSE, req |-> received("grpc", Top(p).req), try |-> 0]
           tried == [stack[p] EXCEPT ![d].try = @ + 1]
<1>1. stack[p] \in Seq(Frame) /\ stack[p] # <<>> /\ d \in Nat \ {0} /\ d < Len(Route[p])
  BY OfRequest DEF Forward, MayForward, Ready, Depth
<1>2. Smooth(stack[p], memo[p], reply[p], result[p])
  BY Zenon, OfSmooth
<1>3. Top(p).try = 0
  BY Zenon, <1>2 DEF Forward, MayForward, Smooth
<1>4. transports[Top(p).try + 1] = "grpc"
  BY <1>3 DEF transports
<1>5. NodeOf(p, d + 1) \in grpc
  BY <1>1, Nodes DEF Undisturbed, NodeOf
<1>6. /\ stack' = [stack EXCEPT ![p] = Append(tried, child)] /\ reply' = [reply EXCEPT ![p] = "none"]
      /\ UNCHANGED <<memo, result>>
  BY Zenon, <1>4, <1>5 DEF Forward, Depth
<1>7. tried \in Seq(Frame) /\ Len(tried) = d
  <2> DEFINE e == [stack[p][d] EXCEPT !.try = @ + 1]
  <2>1. d \in 1..Len(stack[p])
    BY <1>1
  <2>2. stack[p][d] \in Frame
    BY <1>1, <2>1
  <2>3. e \in Frame
    BY Zenon, <2>2, Framed
  <2>4. tried = [stack[p] EXCEPT ![d] = e]
    BY Zenon, <1>1
  <2> HIDE DEF e, tried
  <2> QED BY SMTT(30), <1>1, <2>1, <2>3, <2>4, Replaced
<1>8. \A i \in 1..d : tried[i].slot = stack[p][i].slot /\ tried[i].via = stack[p][i].via
  BY <1>1 DEF Frame
<1>9. child.via = "grpc" /\ child.slot = FALSE
  OBVIOUS
<1> HIDE DEF child, tried
<1>10. /\ Len(Append(tried, child)) = d + 1 /\ Append(tried, child)[d + 1] = child
       /\ \A i \in 1..d : Append(tried, child)[i] = tried[i]
  BY <1>7
<1> HIDE DEF d
<1>11. Smooth(Append(tried, child), memo[p], "none", result[p])
  <2>1. \A i \in 1..d : /\ stack[p][i].via = "http" => i = 1
                        /\ stack[p][i].slot => stack[p][i].via = "http"
    BY Zenon, <1>2 DEF Smooth, d
  <2>2. ASSUME NEW i \in 1..Len(Append(tried, child))
        PROVE  /\ Append(tried, child)[i].via = "http" => i = 1
               /\ Append(tried, child)[i].slot => Append(tried, child)[i].via = "http"
    <3>1. CASE i = d + 1
      BY SMTT(30), <1>9, <1>10, <3>1
    <3>2. CASE i \in 1..d
      BY <1>8, <1>10, <2>1, <3>2
    <3> QED BY <1>1, <1>10, <3>1, <3>2
  <2> QED BY Zenon, <1>2, <2>2 DEF Smooth
<1>12. memo' = [memo EXCEPT ![p] = memo[p]] /\ result' = [result EXCEPT ![p] = result[p]]
  BY Zenon, <1>6 DEF PathInv
<1>13. stack' = [stack EXCEPT ![p] = Append(tried, child)] /\ reply' = [reply EXCEPT ![p] = "none"]
  BY Zenon, <1>6
<1> QED BY Zenon, <1>11, <1>12, <1>13, SmoothFrame

LEMMA ReturnSmooth ==
  ASSUME PathOK, PathInv, SmoothInv, Undisturbed, NEW p \in Request, stack[p] # <<>>, Return(p, "ok")
  PROVE  SmoothInv'
<1> DEFINE d == Len(stack[p])
           s == SubSeq(stack[p], 1, d - 1)
           m == Noted(p, d, "ok")
           rep == IF d = 1 THEN "none" ELSE "ok"
           res == IF d > 1 THEN result[p] ELSE IF Top(p).via = "delete" THEN "ok" ELSE "ok"
<1>1. stack[p] \in Seq(Frame) /\ d \in Nat \ {0} /\ memo[p] \in [Server -> Answers]
  BY OfRequest
<1>2. /\ stack' = [stack EXCEPT ![p] = s] /\ memo' = [memo EXCEPT ![p] = m]
      /\ reply' = [reply EXCEPT ![p] = rep] /\ result' = [result EXCEPT ![p] = res]
  <2>1. memo' = [memo EXCEPT ![p] = m]
    BY Zenon DEF Return, Depth, NodeOf, Noted
  <2>2. stack' = [stack EXCEPT ![p] = s]
    BY Zenon DEF Return, Depth
  <2>3. reply' = [reply EXCEPT ![p] = rep]
    BY SMTT(30) DEF Return, Depth
  <2>4. result' = [result EXCEPT ![p] = res]
    BY SMTT(30) DEF Return, Depth, PathInv
  <2> QED BY SMTT(30), <2>1, <2>2, <2>3, <2>4
<1>3. Smooth(stack[p], memo[p], reply[p], result[p])
  BY Zenon, OfSmooth
<1>4. Len(s) = d - 1 /\ \A i \in 1..d - 1 : s[i] = stack[p][i]
  BY <1>1
<1>5. \A n \in Server : m[n] # "error"
  BY SMTT(30), <1>1, <1>3 DEF Smooth, Noted
<1>6. rep # "error" /\ res # "error"
  BY SMTT(30), <1>3 DEF Smooth
<1> HIDE DEF s, m, rep, res
<1>7. Smooth(s, m, rep, res)
  BY SMTT(30), <1>1, <1>3, <1>4, <1>5, <1>6 DEF Smooth
<1> QED BY Zenon, <1>2, <1>7, SmoothFrame

(* The holder of a slot that a request waits for has work to do.           *)
LEMMA NotStuck ==
  ASSUME PathOK, PathInv, SlotInv, SmoothInv, Undisturbed, Stuck, NEW p \in Request
  PROVE  stack[p] = <<>>
<1> SUFFICES ASSUME stack[p] # <<>> PROVE FALSE
  OBVIOUS
<1> DEFINE n == NodeOf(p, Depth(p))
<1>1. slots[n] = Slots
  BY Zenon DEF Stuck
<1>2. n \in Server
  <2>1. Depth(p) \in 1..Len(Route[p])
    BY OfRequest, Nodes DEF Depth, StackOK
  <2> QED BY SMTT(30), <2>1, Nodes DEF NodeOf
<1>3. left[n] = 0
  BY Zenon, <1>2 DEF Stuck
<1> HIDE DEF n
<1>4. Cardinality(Holders(n)) # 0
  BY <1>1, <1>2, <1>3, SlotsNat DEF SlotInv
<1>5. PICK q \in Holders(n) : TRUE
  BY Zenon, <1>4, FS_EmptySet
<1>6. PICK i \in 1..Len(stack[q]) : stack[q][i].slot
  BY SMTT(30), <1>5 DEF Holders, Depth
<1>7. q \in Request /\ stack[q] \in Seq(Frame) /\ Smooth(stack[q], memo[q], reply[q], result[q])
  BY SMTT(30), <1>5, OfRequest, OfSmooth DEF Holders
<1>8. i = 1 /\ stack[q][1].slot
  BY SMTT(30), <1>6, <1>7 DEF Smooth
<1>9. stack[q] # <<>>
  BY <1>6, <1>7
<1>10. Waits(Top(q))
  BY Zenon, <1>7, <1>9 DEF Stuck
<1>11. Len(stack[q]) = 1
  <2>1. Len(stack[q]) \in 1..Len(stack[q])
    BY <1>7, <1>9
  <2>2. stack[q][Len(stack[q])].via = "http"
    BY Zenon, <1>10 DEF Waits, Top, Depth
  <2> QED BY Zenon, <1>7, <2>1, <2>2 DEF Smooth
<1> QED BY SMTT(30), <1>8, <1>10, <1>11 DEF Waits, Top, Depth

LEMMA SmoothStep ==
  ASSUME PathOK, PathInv, SlotInv, PathTypes, SmoothInv, [PathNext]_pathVars PROVE SmoothInv'
<1> SUFFICES ASSUME Undisturbed' PROVE SmoothInv'
  BY Zenon DEF SmoothInv
<1>0. Undisturbed
  BY Zenon, TypesStep
<1>1. CASE UNCHANGED pathVars
  BY Zenon, <1>1 DEF pathVars, SmoothInv, Undisturbed
<1>f. ~Failure
  BY <1>0 DEF Undisturbed, Failure
<1>2. ASSUME NEW p \in Request, Begin(p) \/ Step(p) \/ StoreFails(p) PROVE SmoothInv'
  <2>1. CASE Begin(p) \/ TakeSlot(p) \/ Forward(p)
    BY Zenon, <1>0, <2>1, BeginSmooth, TakeSlotSmooth, ForwardSmooth
  <2>2. CASE Commit(p)
    BY Zenon, <1>0, <2>2, ReturnSmooth DEF Commit, Ready
  <2>3. CASE ForwardFails(p)
    BY Zenon, <1>0, <2>3, OfSmooth DEF ForwardFails, Smooth
  <2>4. CASE StoreFails(p)
    BY Zenon, <1>f, <2>4 DEF StoreFails
  <2>5. CASE Recall(p)
    <3>1. stack[p] # <<>> /\ Known(p) # "none" /\ Return(p, Known(p))
      BY Zenon, <2>5 DEF Recall
    <3>2. Depth(p) \in 1..Len(Route[p])
      BY <3>1, OfRequest, Nodes DEF Depth, StackOK
    <3>3. NodeOf(p, Depth(p)) \in Server
      BY Zenon, <3>2, Nodes DEF NodeOf
    <3>4. Known(p) = "ok"
      BY SMTT(30), <1>0, <3>1, <3>3, OfSmooth, OfRequest DEF Known, Smooth, Answers
    <3> QED BY Zenon, <1>0, <3>1, <3>4, ReturnSmooth
  <2> QED BY Zenon, <1>2, <2>1, <2>2, <2>3, <2>4, <2>5 DEF Step
<1>3. ASSUME NEW p \in Request, NEW i \in 1..Len(Route[p]), Break(p, i) \/ Timeout(p, i) PROVE SmoothInv'
  <2>1. Stuck /\ i \in 1..Len(stack[p])
    BY Zenon, <1>f, <1>3 DEF Break, Timeout, Depth
  <2>2. stack[p] = <<>>
    BY Zenon, <1>0, <2>1, NotStuck
  <2> QED BY <2>1, <2>2
<1>4. ASSUME NEW n \in Server, Leave(n) PROVE SmoothInv'
  BY Zenon, <1>0, <1>4 DEF Leave, SmoothInv
<1> QED BY Zenon, <1>1, <1>2, <1>3, <1>4 DEF PathNext

LEMMA SmoothInit == ASSUME PathInit PROVE SmoothInv /\ PathTypes
<1>0. MaxFailures \in Nat
  BY Zenon, PathConstants
<1>1. PathTypes
  BY <1>0 DEF PathInit, PathTypes
<1>2. \A p \in Request : Smooth(stack[p], memo[p], reply[p], result[p])
  BY DEF PathInit, Smooth
<1> QED BY Zenon, <1>1, <1>2 DEF SmoothInv

LEMMA PathInvariant == PathSpec => [](PathInv /\ SlotInv /\ PathTypes /\ SmoothInv)
<1>1. PathInit => PathInv /\ SlotInv /\ PathTypes /\ SmoothInv
  BY Zenon, PathAssumed, PathInvInit, SlotInit, SmoothInit
<1>2. PathInv /\ SlotInv /\ PathTypes /\ SmoothInv /\ [PathNext]_pathVars
        => (PathInv /\ SlotInv /\ PathTypes /\ SmoothInv)'
  <2>1. ASSUME PathInv, SlotInv, PathTypes, SmoothInv, [PathNext]_pathVars
        PROVE  PathInv' /\ SlotInv' /\ PathTypes' /\ SmoothInv'
    BY Zenon, <2>1, PathAssumed, PathInvStep, SlotStep, TypesStep, SmoothStep
  <2> QED BY Zenon, <2>1
<1> QED BY <1>1, <1>2, PTL DEF PathSpec

(* A slot that is taken is held by a handler that will give it back, one  *)
(* at work or one whose client is gone: none is lost when a forward fails, *)
(* a connection breaks or a request times out (server.go:510-516).         *)
THEOREM SlotsAccountedFor == PathSpec => []SlotsHeld
<1>1. SlotInv => SlotsHeld
  BY Zenon DEF SlotInv, SlotsHeld
<1> QED BY <1>1, PathInvariant, PTL

(* While gRPC reaches every node and nothing breaks, no request fails,     *)
(* however many wait for slots of the same nodes and in whatever order:    *)
(* whoever holds a slot is not waiting for one, so nothing times out       *)
(* (node.go:114, transport.go:78-88, server.go:510).                       *)
THEOREM HealthyPathSucceeds == PathSpec => []HealthyPutsSucceed
<1>1. SmoothInv => HealthyPutsSucceed
  BY Zenon DEF SmoothInv, HealthyPutsSucceed, Undisturbed, Smooth
<1> QED BY <1>1, PathInvariant, PTL

(* Every variable of the path keeps its type: no more slots are taken than *)
(* chunkConcurrency (server.go:22), no chain is exceeded.                  *)
THEOREM PathTypeCorrect == PathSpec => []PathTypeOK
<1>1. ASSUME PathInv, SlotInv, PathTypes PROVE PathTypeOK
  <2>1. \A p \in Request : Depth(p) <= Len(Route[p])
    BY Zenon, <1>1, OfRequest DEF Depth, StackOK
  <2>2. ASSUME NEW n \in Server PROVE left[n] \in 0..Slots
    <3>1. /\ slots[n] \in 0..Slots /\ left[n] \in Nat /\ Slots \in Nat
          /\ slots[n] = left[n] + Cardinality(Holders(n)) /\ IsFiniteSet(Holders(n))
      BY SMTT(30), <1>1, SlotsNat DEF SlotInv
    <3>2. Cardinality(Holders(n)) \in Nat
      BY Zenon, <3>1, FS_CardinalityType
    <3> QED BY <3>1, <3>2
  <2>3. left \in [Server -> 0..Slots]
    BY Zenon, <1>1, <2>2 DEF SlotInv
  <2> QED BY Zenon, <1>1, <2>1, <2>3 DEF PathTypeOK, PathTypes, PathInv, SlotInv, Answers
<1> QED BY <1>1, PathInvariant, PTL
=============================================================================
