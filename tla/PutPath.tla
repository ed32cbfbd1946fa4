------------------------------ MODULE PutPath ------------------------------
(***************************************************************************)
(* The way of a chunk request through the servers and the transports.  A   *)
(* PUT or DELETE of a mount arrives at HEAD over HTTP; every node of the   *)
(* chain forwards it with the MultiTransport of cmd/memoryfs/node.go and   *)
(* answers when its successor has.  The HTTP handler of a PUT holds one of *)
(* the node's chunkPutSlots all that time (pkg/node/server.go); the gRPC   *)
(* handler needs none (pkg/grpcserver).  What the nodes store is the       *)
(* business of module Craq; here the chunks are distinct, and the version  *)
(* every node gives a removal anew is the one HEAD gave it.                *)
(***************************************************************************)
EXTENDS Integers, FiniteSets, Sequences

CONSTANTS
  Server,       \* the nodes
  Request,      \* the requests of mounts
  Route,        \* per request: the nodes of its chain, HEAD first
  Options,      \* per request: what HEAD makes of it, a ReplicaWrite
  Slots,        \* chunkConcurrency
  MaxFailures   \* bound: stores that fail, connections that break

VARIABLES
  grpc,     \* nodes that gRPC reaches: normalizeGRPC guesses the port; never changes
  stack,    \* per request: the handlers at work for it, HEAD's first
  reply,    \* per request: the last reply its innermost handler got
  result,   \* per request: what the mount got
  memo,     \* per request: what every node remembers of it by its idempotency key
  slots,    \* per node: how many chunkPutSlots are taken
  left,     \* per node: handlers that nobody waits for and that hold a slot
  failures

pathVars == <<grpc, stack, reply, result, memo, slots, left, failures>>

PathInit ==
  /\ grpc \in SUBSET Server
  /\ stack = [p \in Request |-> <<>>]
  /\ reply = [p \in Request |-> "none"] /\ result = [p \in Request |-> "none"]
  /\ memo = [p \in Request |-> [n \in Server |-> "none"]]
  /\ slots = [n \in Server |-> 0] /\ left = [n \in Server |-> 0]
  /\ failures = 0

Failure == failures < MaxFailures /\ failures' = failures + 1

---------------------------------------------------------------------------
(* The request on the wire.  A zero value is left out of an HTTP query and *)
(* of a protobuf message, and read back as zero.                           *)

Fields == {"stage", "chainID", "chainVer", "updateVer", "commitVer", "replicas", "syncing"}

Zero(k) == CASE k = "stage" -> "" [] k = "replicas" -> <<>> [] k = "syncing" -> FALSE [] OTHER -> 0

(* What the service hands to the transports: chains of different nodes and *)
(* a ReplicaWrite with every field, its stage among them.                  *)
ASSUME PathConstants ==
  /\ Slots \in Nat \ {0} /\ MaxFailures \in Nat
  /\ \A p \in Request :
       /\ Route[p] \in Seq(Server) /\ Route[p] # <<>>
       /\ \A i, j \in 1..Len(Route[p]) : Route[p][i] = Route[p][j] => i = j
       /\ Options[p] = [k \in Fields |-> Options[p][k]] /\ Options[p].stage # ""

query(req) == [k \in {f \in Fields : req[f] # Zero(f)} |-> req[k]]

decode(q) == [k \in Fields |-> IF k \in DOMAIN q THEN q[k] ELSE Zero(k)]

defaultStage(req) == IF req.stage = "" THEN [req EXCEPT !.stage = "prepare"] ELSE req

parseReplicaWriteRequest(q) == defaultStage(decode(q))

(* PutChunkRequest carries every field; the server fills in the stage.     *)
grpcPutChunk(req) == defaultStage(req)

(* Fault: HTTP comes first.                                                *)
transportsHTTPFirst == <<"http", "grpc", "grpc">>

(* RDMATransport has no room for options and hands those requests to gRPC, *)
(* so a forward that fails over gRPC is tried over gRPC again.             *)
transports == <<"grpc", "grpc", "http">>

received(via, req) ==
  IF via = "http" THEN parseReplicaWriteRequest(query(req)) ELSE grpcPutChunk(req)

---------------------------------------------------------------------------
Depth(p) == Len(stack[p])
Top(p) == stack[p][Depth(p)]
NodeOf(p, i) == Route[p][i]

(* A PUT over HTTP waits in the select for a slot before anything else.    *)
Waits(frame) == frame.via = "http" /\ ~frame.slot
Known(p) == memo[p][NodeOf(p, Depth(p))]
Ready(p) == stack[p] # <<>> /\ ~Waits(Top(p)) /\ Known(p) = "none"

(* writeChunk sends to HEAD, and the URL of deleteChunk leads to the same  *)
(* handler, which takes a slot for a PUT only.                             *)
Begin(p) ==
  /\ stack[p] = <<>> /\ result[p] = "none"
  /\ stack' = [stack EXCEPT ![p] =
       <<[via |-> IF Options[p].stage = "remove" THEN "delete" ELSE "http", slot |-> FALSE,
          req |-> Options[p], try |-> 0]>>]
  /\ UNCHANGED <<grpc, reply, result, memo, slots, left, failures>>

TakeSlot(p) ==
  LET n == NodeOf(p, Depth(p)) IN
  /\ stack[p] # <<>> /\ Waits(Top(p)) /\ slots[n] < Slots
  /\ slots' = [slots EXCEPT ![n] = @ + 1]
  /\ stack' = [stack EXCEPT ![p][Depth(p)].slot = TRUE]
  /\ UNCHANGED <<grpc, reply, result, memo, left, failures>>

(* MultiTransport.PutChunkWithOptions: the next transport, if the last one *)
(* failed.  A node that gRPC does not reach fails the attempt at once.     *)
MayForward(p) ==
  /\ Ready(p) /\ Depth(p) < Len(Route[p])
  /\ \/ Top(p).try = 0 /\ reply[p] = "none"
     \/ Top(p).try \in 1..Len(transports) - 1 /\ reply[p] = "error"

Forward(p) ==
  LET i == Depth(p)
      via == transports[Top(p).try + 1]
      child == [via |-> via, slot |-> FALSE, req |-> received(via, Top(p).req), try |-> 0]
      tried == [stack[p] EXCEPT ![i].try = @ + 1]
  IN
  /\ MayForward(p)
  /\ IF via = "grpc" /\ NodeOf(p, i + 1) \notin grpc
     THEN stack' = [stack EXCEPT ![p] = tried] /\ reply' = [reply EXCEPT ![p] = "error"]
     ELSE stack' = [stack EXCEPT ![p] = Append(tried, child)] /\ reply' = [reply EXCEPT ![p] = "none"]
  /\ UNCHANGED <<grpc, result, memo, slots, left, failures>>

(* The innermost handler of p returns, and its slot is free again.  What   *)
(* DeleteChunk returns at HEAD is dropped: the mount gets a 204.           *)
Return(p, answer) ==
  LET i == Depth(p)
      n == NodeOf(p, i)
  IN
  /\ stack' = [stack EXCEPT ![p] = SubSeq(@, 1, i - 1)]
  /\ slots' = [slots EXCEPT ![n] = IF Top(p).slot THEN @ - 1 ELSE @]
  /\ reply' = [reply EXCEPT ![p] = IF i = 1 THEN "none" ELSE answer]
  /\ result' = [result EXCEPT ![p] =
       IF i > 1 THEN @ ELSE IF Top(p).via = "delete" THEN "ok" ELSE answer]
  /\ memo' = [memo EXCEPT ![p][n] = answer]
  /\ UNCHANGED <<grpc, left>>

(* The TAIL has stored the chunk, or the successor has said that it has.   *)
Commit(p) ==
  /\ Ready(p) /\ (Depth(p) = Len(Route[p]) \/ reply[p] = "ok")
  /\ Return(p, "ok") /\ UNCHANGED failures

(* No transport is left, or the node cannot store the chunk.               *)
ForwardFails(p) ==
  /\ Ready(p) /\ reply[p] = "error" /\ Top(p).try = Len(transports)
  /\ Return(p, "error") /\ UNCHANGED failures

StoreFails(p) ==
  /\ Ready(p) /\ Top(p).try = 0 /\ Failure
  /\ Return(p, "error")

(* Fault: the error that is remembered is not looked at.                   *)
RecallNil(p) ==
  /\ stack[p] # <<>> /\ ~Waits(Top(p)) /\ Known(p) # "none"
  /\ Return(p, "ok") /\ UNCHANGED failures

(* A node that has run the request before answers what it answered then.   *)
Recall(p) ==
  /\ stack[p] # <<>> /\ ~Waits(Top(p)) /\ Known(p) # "none"
  /\ Return(p, Known(p)) /\ UNCHANGED failures

(* Whoever waits for handler i of p gives up: the contexts of that handler *)
(* and of those behind it are cancelled.  One that waits for a slot leaves *)
(* the select; one that waits for its successor ends with an error, which  *)
(* it remembers, and one that has no more to wait for with a commit; each  *)
(* gives its slot back later.                                              *)
Abandoned(p, i, n) ==
  Cardinality({j \in i..Depth(p) : NodeOf(p, j) = n /\ stack[p][j].slot})

Outcome(p, j) ==
  IF j = Len(Route[p]) \/ (j = Depth(p) /\ reply[p] = "ok") THEN "ok" ELSE "error"

GiveUp(p, i) ==
  /\ stack' = [stack EXCEPT ![p] = SubSeq(@, 1, i - 1)]
  /\ left' = [n \in Server |-> left[n] + Abandoned(p, i, n)]
  /\ reply' = [reply EXCEPT ![p] = IF i = 1 THEN "none" ELSE "error"]
  /\ result' = [result EXCEPT ![p] = IF i = 1 THEN "error" ELSE @]
  /\ memo' = [memo EXCEPT ![p] = [n \in Server |->
       IF \E j \in i..Depth(p) : NodeOf(p, j) = n /\ ~Waits(stack[p][j]) /\ @[n] = "none"
       THEN Outcome(p, CHOOSE j \in i..Depth(p) : NodeOf(p, j) = n)
       ELSE @[n]]]
  /\ UNCHANGED <<grpc, slots>>

(* Fault: the handler of a cancelled request forgets its slot.             *)
LeaveWithSlot(n) ==
  /\ left[n] > 0
  /\ left' = [left EXCEPT ![n] = @ - 1]
  /\ UNCHANGED <<grpc, stack, reply, result, memo, slots, failures>>

Leave(n) ==
  /\ left[n] > 0
  /\ left' = [left EXCEPT ![n] = @ - 1]
  /\ slots' = [slots EXCEPT ![n] = @ - 1]
  /\ UNCHANGED <<grpc, stack, reply, result, memo, failures>>

Break(p, i) == i \in 1..Depth(p) /\ Failure /\ GiveUp(p, i)

(* The HTTP clients wait for 30 s, longer than any step takes: a request   *)
(* times out only when nothing else can move.  gRPC calls have no timeout. *)
Stuck ==
  /\ \A n \in Server : left[n] = 0
  /\ \A p \in Request : stack[p] # <<>> => Waits(Top(p)) /\ slots[NodeOf(p, Depth(p))] = Slots

(* Fault: the HTTP client has no timeout.                                  *)
NoTimeout(p, i) == FALSE /\ UNCHANGED pathVars

Timeout(p, i) ==
  /\ i \in 1..Depth(p) /\ stack[p][i].via # "grpc" /\ Stuck
  /\ GiveUp(p, i) /\ UNCHANGED failures

Step(p) == TakeSlot(p) \/ Forward(p) \/ Commit(p) \/ ForwardFails(p) \/ Recall(p)

PathNext ==
  \/ \E p \in Request : Begin(p) \/ Step(p) \/ StoreFails(p)
  \/ \E p \in Request : \E i \in 1..Len(Route[p]) : Break(p, i) \/ Timeout(p, i)
  \/ \E n \in Server : Leave(n)

(* Goroutines are scheduled and timers fire.  Every step brings a request  *)
(* nearer to its end, so fairness of all of them together is enough.       *)
Progress ==
  \/ \E p \in Request : Begin(p) \/ Step(p) \/ \E i \in 1..Len(Route[p]) : Timeout(p, i)
  \/ \E n \in Server : Leave(n)

PathSpec == PathInit /\ [][PathNext]_pathVars /\ WF_pathVars(Progress)

---------------------------------------------------------------------------
PathTypeOK ==
  /\ grpc \subseteq Server /\ failures \in 0..MaxFailures
  /\ \A p \in Request : Depth(p) <= Len(Route[p])
  /\ reply \in [Request -> {"none", "ok", "error"}] /\ result \in [Request -> {"none", "ok", "error"}]
  /\ memo \in [Request -> [Server -> {"none", "ok", "error"}]]
  /\ slots \in [Server -> 0..Slots] /\ left \in [Server -> 0..Slots]

(* The requests that hold a slot of n: a chain visits a node once.          *)
Holders(n) == {p \in Request : \E i \in 1..Depth(p) : NodeOf(p, i) = n /\ stack[p][i].slot}

(* A taken slot is held by a handler that will give it back: none is lost   *)
(* when a client goes away or the forward fails (server.go:510-516).        *)
SlotsHeld == \A n \in Server : slots[n] = left[n] + Cardinality(Holders(n))

(* While gRPC reaches every node and nothing breaks, no request fails: the  *)
(* forwards need no slot, so nodes whose slots are all taken do not wait    *)
(* for one another (node.go:114, transport.go:78-88, server.go:510).        *)
HealthyPutsSucceed ==
  grpc = Server /\ failures = 0 => \A p \in Request : result[p] # "error"

(* Every node is handed the write as HEAD issued it, whichever transports   *)
(* carried it: a zero left out, a default stage and the list of replicas    *)
(* change nothing (http.go:80-103, server.go:545-599, grpcserver/server.go: *)
(* 165-205).  And a PUT that the mount is told has succeeded was carried    *)
(* out by every node of its chain, whatever was retried after a lost reply  *)
(* or an error (craq.go:129-209, transport.go:80-90).                       *)
OkEverywhere ==
  \A p \in Request :
    /\ \A i \in 1..Depth(p) : stack[p][i].req = Options[p]
    /\ result[p] = "ok" /\ Options[p].stage # "remove" =>
         \A i \in DOMAIN Route[p] : memo[p][NodeOf(p, i)] = "ok"

(* Every request is answered, even when the forwards go over HTTP and nodes *)
(* that hold all their slots wait for each other (http.go:44).              *)
PutsEnd == <>(\A p \in Request : result[p] # "none")
=============================================================================
