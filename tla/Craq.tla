------------------------------- MODULE Craq -------------------------------
(***************************************************************************)
(* Strict CRAQ replication of one chunk along one chain                    *)
(* (pkg/service/craq.go, the chunk half of pkg/service/service.go and      *)
(* repair_run.go).                                                         *)
(*                                                                         *)
(* Everything the code keeps for a chunk (lock, metadata, payload,         *)
(* idempotency results) is keyed by the chunk id, so one chunk is          *)
(* modelled.  The targets are the positions of req.Replicas: HEAD is 1,    *)
(* TAIL is R, and the successor of i, which the loop at craq.go:193-199    *)
(* looks up, is i + 1 (module ChainTable: the nodes of a chain are         *)
(* distinct).                                                              *)
(*                                                                         *)
(* A target runs at most one handler at a time: applyReplicaWrite holds    *)
(* the chunk lock from its first line to its return, the forward to the    *)
(* successor included.  Requests that wait for that lock, or are still on  *)
(* the wire, are in the target's inbox.                                    *)
(***************************************************************************)
EXTENDS Naturals, FiniteSets

CONSTANTS
  R,            \* number of targets of the chain, len(req.Replicas)
  Value,        \* payloads
  Absent,       \* no local copy of the chunk
  Transports,   \* transports one forward tries in turn (3 in the node binary)
  MaxChainVer,  \* bound on the chain version
  MaxWaiting,   \* bound on the client and repair requests that wait at HEAD
  Orphans       \* whether a request may outlive the call that sent it

ASSUME ConstantsOK ==
  /\ R \in Nat \ {0}
  /\ Transports \in Nat \ {0}
  /\ MaxChainVer \in Nat
  /\ MaxWaiting \in Nat
  /\ Absent \notin Value
  /\ Orphans \in BOOLEAN

Target == 1..R
HEAD == 1
TAIL == R

(* The fields of ReplicaWrite that decide what a handler does; they are    *)
(* also exactly the fields idempotencyKey prints, so a request is its own  *)
(* key.  No caller in the repository sends stage "commit".                 *)
ReplicaWrite ==
  [Stage: {"prepare", "remove"}, ChainVer: Nat, UpdateVer: Nat,
   CommitVer: Nat, Syncing: BOOLEAN]

idempotencyKey(req) == req

(* One delivery of a request.  live: its sender still waits for the reply. *)
Call == [req: ReplicaWrite, data: Value \cup {Absent}, live: BOOLEAN]

VARIABLES
  UpdateVer,    \* ChunkMeta.UpdateVer of each target
  CommitVer,    \* ChunkMeta.CommitVer
  State,        \* ChunkMeta.State; "none" is the zero value
  chunks,       \* the payload in each target's chunk store
  okKeys,       \* idemState: requests remembered as successful
  errKeys,      \* idemState: requests remembered as failed
  pc,           \* where the handler that holds the chunk lock stands
  call,         \* the request it handles
  ver,          \* the version it will commit (req.UpdateVer once filled in)
  tries,        \* transports left for its forward
  inbox,        \* requests on the wire or waiting for the chunk lock
  chainVer,     \* chainVers[chain.ID] at HEAD
  pending,      \* whether HEAD's RepairQueue holds a job for the chunk
  acks          \* history: successes HEAD has returned to clients

metaVars == <<UpdateVer, CommitVer, State>>
idemVars == <<okKeys, errKeys>>
lockVars == <<call, ver, tries>>
vars == <<metaVars, chunks, idemVars, pc, lockVars, inbox, chainVer, pending, acks>>

NoCall ==
  [req |-> [Stage |-> "prepare", ChainVer |-> 0, UpdateVer |-> 0,
            CommitVer |-> 0, Syncing |-> FALSE],
   data |-> Absent, live |-> FALSE]

Init ==
  /\ UpdateVer = [i \in Target |-> 0]
  /\ CommitVer = [i \in Target |-> 0]
  /\ State = [i \in Target |-> "none"]
  /\ chunks = [i \in Target |-> Absent]
  /\ okKeys = [i \in Target |-> {}]
  /\ errKeys = [i \in Target |-> {}]
  /\ pc = [i \in Target |-> "idle"]
  /\ call = [i \in Target |-> NoCall]
  /\ ver = [i \in Target |-> 0]
  /\ tries = [i \in Target |-> 0]
  /\ inbox = [i \in Target |-> {}]
  /\ chainVer = 1
  /\ pending = FALSE
  /\ acks = {}

Committed(i) == State[i] = "committed" /\ CommitVer[i] >= UpdateVer[i]

(* GetChunk serves a copy whose version is committed, or which has no      *)
(* metadata at all.                                                        *)
Readable(i) == Committed(i) \/ UpdateVer[i] = 0

---------------------------------------------------------------------------
(* Requests that enter the chain at HEAD.                                  *)

headReq(stage, syncing) ==
  [Stage |-> stage, ChainVer |-> chainVer, UpdateVer |-> 0,
   CommitVer |-> 0, Syncing |-> syncing]

Enter(req, data) ==
  inbox' = [inbox EXCEPT ![HEAD] = @ \cup {[req |-> req, data |-> data, live |-> TRUE]}]

putChunk(v) ==
  /\ Cardinality(inbox[HEAD]) < MaxWaiting
  /\ Enter(headReq("prepare", FALSE), v)
  /\ UNCHANGED <<metaVars, chunks, idemVars, pc, lockVars, chainVer, pending, acks>>

DeleteChunk ==
  /\ Cardinality(inbox[HEAD]) < MaxWaiting
  /\ Enter(headReq("remove", FALSE), Absent)
  /\ UNCHANGED <<metaVars, chunks, idemVars, pc, lockVars, chainVer, pending, acks>>

(* repairChunk reads the payload before it takes the chunk lock; if HEAD   *)
(* has none, fetchChunkFromPeers takes a peer's copy and tries to store    *)
(* it, metadata untouched.                                                 *)
repairChunk ==
  /\ pending
  /\ Cardinality(inbox[HEAD]) < MaxWaiting
  /\ \E d \in Value :
       /\ \/ /\ chunks[HEAD] = d
             /\ UNCHANGED chunks
          \/ /\ chunks[HEAD] = Absent
             /\ \E j \in Target \ {HEAD} : Readable(j) /\ chunks[j] = d
             /\ chunks' \in {chunks, [chunks EXCEPT ![HEAD] = d]}
       /\ Enter(headReq("prepare", TRUE), d)
  /\ UNCHANGED <<metaVars, idemVars, pc, lockVars, chainVer, pending, acks>>

(* A membership change raises the epoch; the chain version follows it.     *)
raiseChainVer ==
  /\ chainVer < MaxChainVer
  /\ chainVer' = chainVer + 1
  /\ UNCHANGED <<metaVars, chunks, idemVars, pc, lockVars, inbox, pending, acks>>

---------------------------------------------------------------------------
(* How a handler returns.                                                  *)

rememberOk(i, key) ==
  /\ okKeys' = [okKeys EXCEPT ![i] = @ \cup {key}]
  /\ UNCHANGED errKeys

rememberErr(i, key) ==
  /\ errKeys' = [errKeys EXCEPT ![i] = @ \cup {key}]
  /\ UNCHANGED okKeys

(* The reply of a replica reaches its predecessor, whose forward then      *)
(* returns, or is lost.  res is the predecessor's next control state.      *)
Reply(i, c, res) ==
  \/ pc' = [pc EXCEPT ![i] = "idle"]
  \/ /\ i # HEAD
     /\ c.live
     /\ pc' = [pc EXCEPT ![i] = "idle", ![i - 1] = res]

(* What HEAD's callers do with a success: the client of a put is           *)
(* acknowledged, and the chunk queued for repair if its registry record    *)
(* fails; a repair job is done unless its registry record fails.           *)
HeadOk(c, v, cached) ==
  /\ acks' = IF c.req.Stage = "prepare" /\ ~c.req.Syncing
             THEN acks \cup {[data |-> c.data, ver |-> v, cached |-> cached]}
             ELSE acks
  /\ pending' \in CASE c.req.Stage = "remove" -> {pending}
                     [] c.req.Syncing -> {FALSE, pending}
                     [] OTHER -> {TRUE, pending}

ReturnOk(i, c, v, cached) ==
  /\ Reply(i, c, "acked")
  /\ IF i = HEAD THEN HeadOk(c, v, cached) ELSE UNCHANGED <<pending, acks>>

(* An error acknowledges nothing, and a repair job stays queued (Fail).    *)
ReturnErr(i, c) ==
  /\ Reply(i, c, "failed")
  /\ UNCHANGED <<pending, acks>>

---------------------------------------------------------------------------
(* applyReplicaWrite, from the lock to the forward.                        *)

Take(i, c) ==
  /\ pc[i] = "idle"
  /\ c \in inbox[i]

(* lookupIdempotency hits: the remembered result is returned.              *)
Cached(i, c) ==
  /\ Take(i, c)
  /\ inbox' = [inbox EXCEPT ![i] = @ \ {c}]
  /\ \/ idempotencyKey(c.req) \in okKeys[i] /\ ReturnOk(i, c, CommitVer[i], TRUE)
     \/ idempotencyKey(c.req) \in errKeys[i] /\ ReturnErr(i, c)
  /\ UNCHANGED <<metaVars, chunks, idemVars, lockVars, chainVer>>

Fresh(i, c) ==
  /\ Take(i, c)
  /\ idempotencyKey(c.req) \notin okKeys[i] \cup errKeys[i]

updateVerOf(i, c) ==
  IF c.req.UpdateVer = 0 THEN UpdateVer[i] + 1 ELSE c.req.UpdateVer

MissingUpdate(i, c) ==
  UpdateVer[i] > 0 /\ c.req.UpdateVer > UpdateVer[i] + 1

(* writePrepare fails: a missing update, or Chunks.Put over its quota.     *)
PrepareFails(i, c) ==
  /\ Fresh(i, c)
  /\ c.req.Stage = "prepare"
  /\ MissingUpdate(i, c) \/ CommitVer[i] < updateVerOf(i, c)
  /\ inbox' = [inbox EXCEPT ![i] = @ \ {c}]
  /\ rememberErr(i, idempotencyKey(c.req))
  /\ ReturnErr(i, c)
  /\ UNCHANGED <<metaVars, chunks, lockVars, chainVer>>

Hold(i, c, v, k) ==
  /\ call' = [call EXCEPT ![i] = c]
  /\ ver' = [ver EXCEPT ![i] = v]
  /\ tries' = [tries EXCEPT ![i] = k]

Release(i) == Hold(i, NoCall, 0, 0)

(* Fault: a copy that is there already is not overwritten.                 *)
StoreIfAbsent(i, c) ==
  /\ Fresh(i, c)
  /\ c.req.Stage = "prepare"
  /\ ~MissingUpdate(i, c)
  /\ CommitVer[i] < updateVerOf(i, c)
  /\ inbox' = [inbox EXCEPT ![i] = @ \ {c}]
  /\ chunks' = [chunks EXCEPT ![i] = IF @ = Absent THEN c.data ELSE @]
  /\ Hold(i, c, updateVerOf(i, c), Transports)
  /\ pc' = [pc EXCEPT ![i] = "stored"]
  /\ UNCHANGED <<metaVars, idemVars, chainVer, pending, acks>>

(* writePrepare stores the payload; a reader can see it before the         *)
(* metadata says pending (the next action).                                *)
StoreData(i, c) ==
  /\ Fresh(i, c)
  /\ c.req.Stage = "prepare"
  /\ ~MissingUpdate(i, c)
  /\ CommitVer[i] < updateVerOf(i, c)
  /\ inbox' = [inbox EXCEPT ![i] = @ \ {c}]
  /\ chunks' = [chunks EXCEPT ![i] = c.data]
  /\ Hold(i, c, updateVerOf(i, c), Transports)
  /\ pc' = [pc EXCEPT ![i] = "stored"]
  /\ UNCHANGED <<metaVars, idemVars, chainVer, pending, acks>>

(* Fault: the successor is sent the version after the one stored here.     *)
forwardNextVer(i, c, v) ==
  [req |-> [c.req EXCEPT !.UpdateVer = v + 1, !.CommitVer = v + 1],
   data |-> c.data, live |-> TRUE]

(* forwardReplica: the request the successor receives.                     *)
forwardReplica(i, c, v) ==
  [req |-> [c.req EXCEPT !.UpdateVer = v, !.CommitVer = v],
   data |-> c.data, live |-> TRUE]

(* Send to the successor, or, at TAIL, go on to the commit.                *)
Forward(i, c, v, box) ==
  IF i = TAIL
  THEN /\ pc' = [pc EXCEPT ![i] = "acked"]
       /\ inbox' = box
  ELSE /\ pc' = [pc EXCEPT ![i] = "forwarding"]
       /\ inbox' = [box EXCEPT ![i + 1] = @ \cup {forwardReplica(i, c, v)}]

SetPending(i) ==
  /\ pc[i] = "stored"
  /\ UpdateVer' = [UpdateVer EXCEPT ![i] = ver[i]]
  /\ State' = [State EXCEPT ![i] = "pending"]
  /\ Forward(i, call[i], ver[i], inbox)
  /\ UNCHANGED <<CommitVer, chunks, idemVars, lockVars, chainVer, pending, acks>>

(* writePrepare returns early, the version being committed already: the    *)
(* request goes on with the target's own update version and its own data.  *)
SkipPrepare(i, c) ==
  /\ Fresh(i, c)
  /\ c.req.Stage = "prepare"
  /\ ~MissingUpdate(i, c)
  /\ CommitVer[i] >= updateVerOf(i, c)
  /\ Hold(i, c, UpdateVer[i], Transports)
  /\ Forward(i, c, UpdateVer[i], [inbox EXCEPT ![i] = @ \ {c}])
  /\ UNCHANGED <<metaVars, chunks, idemVars, chainVer, pending, acks>>

(* Fault: a deletion is not forwarded.                                     *)
RemoveHere(i, c) ==
  /\ Fresh(i, c)
  /\ c.req.Stage = "remove"
  /\ Hold(i, c, UpdateVer[i] + 1, Transports)
  /\ inbox' = [inbox EXCEPT ![i] = @ \ {c}]
  /\ pc' = [pc EXCEPT ![i] = "acked"]
  /\ UNCHANGED <<metaVars, chunks, idemVars, chainVer, pending, acks>>

(* Stage remove: the version is the target's own next one, whatever the    *)
(* request carries, and the forward comes before the deletion.             *)
StartRemove(i, c) ==
  /\ Fresh(i, c)
  /\ c.req.Stage = "remove"
  /\ Hold(i, c, UpdateVer[i] + 1, Transports)
  /\ Forward(i, c, UpdateVer[i] + 1, [inbox EXCEPT ![i] = @ \ {c}])
  /\ UNCHANGED <<metaVars, chunks, idemVars, chainVer, pending, acks>>

---------------------------------------------------------------------------
(* The forward returns: MultiTransport.PutChunkWithOptions.                *)

(* A request of i to its successor that i still waits for.                 *)
Outstanding(i) ==
  \/ \E c \in inbox[i + 1] : c.live
  \/ pc[i + 1] # "idle" /\ call[i + 1].live

LoseRequest(i) ==
  /\ pc[i] = "forwarding"
  /\ \E c \in inbox[i + 1] :
       /\ c.live
       /\ inbox' = [inbox EXCEPT ![i + 1] = @ \ {c}]
  /\ UNCHANGED <<metaVars, chunks, idemVars, pc, lockVars, chainVer, pending, acks>>

(* Fault: the error of a forward is ignored.                               *)
AttemptIgnored(i) ==
  /\ pc[i] = "forwarding"
  /\ Orphans \/ ~Outstanding(i)
  /\ pc' = [pc EXCEPT ![i] = "acked"]
  /\ inbox' = [inbox EXCEPT ![i + 1] = {[c EXCEPT !.live = FALSE] : c \in @}]
  /\ call' = [call EXCEPT ![i + 1].live = FALSE]
  /\ UNCHANGED <<metaVars, chunks, idemVars, ver, tries, chainVer, pending, acks>>

(* One attempt times out or its connection breaks.  With Orphans the       *)
(* request may stay on the wire, or in its handler, with nobody waiting.   *)
AttemptFails(i) ==
  /\ pc[i] = "forwarding"
  /\ Orphans \/ ~Outstanding(i)
  /\ pc' = [pc EXCEPT ![i] = "failed"]
  /\ inbox' = [inbox EXCEPT ![i + 1] = {[c EXCEPT !.live = FALSE] : c \in @}]
  /\ call' = [call EXCEPT ![i + 1].live = FALSE]
  /\ UNCHANGED <<metaVars, chunks, idemVars, ver, tries, chainVer, pending, acks>>

(* Fault: transports are tried without end.                                *)
NextTransportAlways(i) ==
  /\ pc[i] = "failed"
  /\ tries' = [tries EXCEPT ![i] = @ - 1]
  /\ pc' = [pc EXCEPT ![i] = "forwarding"]
  /\ inbox' = [inbox EXCEPT ![i + 1] = @ \cup {forwardReplica(i, call[i], ver[i])}]
  /\ UNCHANGED <<metaVars, chunks, idemVars, call, ver, chainVer, pending, acks>>

(* The next transport sends the same request again.                        *)
NextTransport(i) ==
  /\ pc[i] = "failed"
  /\ tries[i] > 1
  /\ tries' = [tries EXCEPT ![i] = @ - 1]
  /\ pc' = [pc EXCEPT ![i] = "forwarding"]
  /\ inbox' = [inbox EXCEPT ![i + 1] = @ \cup {forwardReplica(i, call[i], ver[i])}]
  /\ UNCHANGED <<metaVars, chunks, idemVars, call, ver, chainVer, pending, acks>>

(* Fault: an off-by-one in the count of transports.                        *)
ForwardFailsAtZero(i) ==
  /\ pc[i] = "failed"
  /\ tries[i] = 0
  /\ rememberErr(i, idempotencyKey(call[i].req))
  /\ ReturnErr(i, call[i])
  /\ Release(i)
  /\ UNCHANGED <<metaVars, chunks, inbox, chainVer>>

(* Every transport failed: the error is remembered and returned.           *)
ForwardFails(i) ==
  /\ pc[i] = "failed"
  /\ tries[i] = 1
  /\ rememberErr(i, idempotencyKey(call[i].req))
  /\ ReturnErr(i, call[i])
  /\ Release(i)
  /\ UNCHANGED <<metaVars, chunks, inbox, chainVer>>

---------------------------------------------------------------------------
(* The acknowledged tail of the handler.                                   *)

Max(a, b) == IF a > b THEN a ELSE b

(* writeCommit raises CommitVer and leaves UpdateVer as it is.             *)
writeCommit(i) ==
  /\ pc[i] = "acked"
  /\ call[i].req.Stage = "prepare"
  /\ CommitVer' = [CommitVer EXCEPT ![i] = Max(@, ver[i])]
  /\ State' = [State EXCEPT ![i] = "committed"]
  /\ rememberOk(i, idempotencyKey(call[i].req))
  /\ ReturnOk(i, call[i], ver[i], FALSE)
  /\ Release(i)
  /\ UNCHANGED <<UpdateVer, chunks, inbox, chainVer>>

(* Faults: the metadata of a deleted chunk is dropped; only CommitVer is   *)
(* written.                                                                *)
RemoveForgets(i) ==
  /\ pc[i] = "acked"
  /\ call[i].req.Stage = "remove"
  /\ chunks' = [chunks EXCEPT ![i] = Absent]
  /\ UpdateVer' = [UpdateVer EXCEPT ![i] = 0]
  /\ CommitVer' = [CommitVer EXCEPT ![i] = 0]
  /\ State' = [State EXCEPT ![i] = "none"]
  /\ rememberOk(i, idempotencyKey(call[i].req))
  /\ ReturnOk(i, call[i], ver[i], FALSE)
  /\ Release(i)
  /\ UNCHANGED <<inbox, chainVer>>

FinishRemove(i) ==
  /\ pc[i] = "acked"
  /\ call[i].req.Stage = "remove"
  /\ chunks' = [chunks EXCEPT ![i] = Absent]
  /\ UpdateVer' = [UpdateVer EXCEPT ![i] = ver[i]]
  /\ CommitVer' = [CommitVer EXCEPT ![i] = ver[i]]
  /\ State' = [State EXCEPT ![i] = "committed"]
  /\ rememberOk(i, idempotencyKey(call[i].req))
  /\ ReturnOk(i, call[i], ver[i], FALSE)
  /\ Release(i)
  /\ UNCHANGED <<inbox, chainVer>>

---------------------------------------------------------------------------
(* Writes only: client puts and repairs.                                   *)

Arrive(i) == \E c \in inbox[i] :
  Cached(i, c) \/ PrepareFails(i, c) \/ StoreData(i, c) \/ SkipPrepare(i, c)

Proceed(i) == SetPending(i) \/ writeCommit(i)

ForwardReturns(i) == AttemptFails(i) \/ NextTransport(i) \/ ForwardFails(i)

WriteNext ==
  \/ \E v \in Value : putChunk(v)
  \/ repairChunk
  \/ raiseChainVer
  \/ \E i \in Target : Arrive(i) \/ Proceed(i)
  \/ \E i \in Target \ {TAIL} : LoseRequest(i) \/ ForwardReturns(i)

WriteSpec == Init /\ [][WriteNext]_vars

(* Writes and deletions.                                                   *)

Remove(i) == FinishRemove(i) \/ \E c \in inbox[i] : StartRemove(i, c)

Next ==
  \/ WriteNext
  \/ DeleteChunk
  \/ \E i \in Target : Remove(i)

Spec == Init /\ [][Next]_vars

(* Handlers run, and a forward that gets no reply fails by its deadline    *)
(* (the 30s of the HTTP client, the caller's context otherwise).  Nothing  *)
(* is assumed of clients, of repairs or of the network.                    *)
FairSpec ==
  /\ Spec
  /\ \A i \in Target : WF_vars(Arrive(i) \/ Proceed(i) \/ Remove(i))
  /\ \A i \in Target \ {TAIL} : WF_vars(ForwardReturns(i))

---------------------------------------------------------------------------
(* What the protocol keeps.                                                *)

Control == {"idle", "stored", "forwarding", "failed", "acked"}
Ack == [data: Value \cup {Absent}, ver: Nat, cached: BOOLEAN]

TypeOK ==
  /\ UpdateVer \in [Target -> Nat]
  /\ CommitVer \in [Target -> Nat]
  /\ State \in [Target -> {"none", "pending", "committed"}]
  /\ chunks \in [Target -> Value \cup {Absent}]
  /\ okKeys \in [Target -> SUBSET ReplicaWrite]
  /\ errKeys \in [Target -> SUBSET ReplicaWrite]
  /\ pc \in [Target -> Control]
  /\ call \in [Target -> Call]
  /\ ver \in [Target -> Nat]
  /\ tries \in [Target -> Nat]
  /\ inbox \in [Target -> SUBSET Call]
  /\ chainVer \in Nat
  /\ pending \in BOOLEAN
  /\ acks \in SUBSET Ack

(* The committed version never grows towards HEAD: writeCommit runs only   *)
(* once the successor has committed at least that version, whatever is     *)
(* lost, repeated by the next transport, or answered from idemState.       *)
CommitOrder == \A i \in Target \ {TAIL} : CommitVer[i] <= CommitVer[i + 1]

(* Why CommitOrder holds.  A handler never works on a version below the    *)
(* one it was sent ...                                                     *)
HandlerVer(i) ==
  /\ CommitVer[i] <= UpdateVer[i]
  /\ pc[i] = "stored" => CommitVer[i] < ver[i]
  /\ pc[i] \in {"forwarding", "failed", "acked"} => ver[i] = UpdateVer[i]
  /\ pc[i] # "idle" => call[i].req.UpdateVer <= ver[i]

(* ... a remembered success is committed ...                               *)
Remembered(i) == \A k \in okKeys[i] : k.UpdateVer <= CommitVer[i]

(* ... and at most one request is waited for by i, with the version i is   *)
(* to commit, so that a reply tells i its version is committed behind it.  *)
LiveCallOf(i, c) == pc[i] = "forwarding" /\ c.req.UpdateVer = ver[i]

Link(i) ==
  /\ CommitVer[i] <= CommitVer[i + 1]
  /\ pc[i] = "acked" => ver[i] <= CommitVer[i + 1]
  /\ \A c \in inbox[i + 1] : c.live => LiveCallOf(i, c)
  /\ \A c, d \in inbox[i + 1] : c.live /\ d.live => c = d
  /\ pc[i + 1] # "idle" /\ call[i + 1].live =>
       LiveCallOf(i, call[i + 1]) /\ \A c \in inbox[i + 1] : ~c.live

(* The inductive invariant behind CommitOrder.                             *)
CommitInv ==
  /\ \A i \in Target : HandlerVer(i)
  /\ \A i \in Target \ {HEAD} : Remembered(i)
  /\ \A i \in Target \ {TAIL} : Link(i)

(* writePrepare never takes a target below the version it has committed,   *)
(* although UpdateVer itself may go down.                                  *)
CommitBounded == \A i \in Target : CommitVer[i] <= UpdateVer[i]

(* While no request outlives its call, a target is never ahead of its      *)
(* predecessor (writePrepare numbers a put only at HEAD, craq.go:59), and  *)
(* two targets with the same version hold the same payload, which is ahead *)
(* of the version between Chunks.Put and setMeta (craq.go:65-78).          *)
VersionsAgree ==
  /\ \A i \in Target \ {TAIL} : UpdateVer[i + 1] <= UpdateVer[i]
  /\ \A i, j \in Target :
       /\ UpdateVer[i] = UpdateVer[j]
       /\ pc[i] # "stored" /\ pc[j] # "stored"
       => chunks[i] = chunks[j]

(* A put whose own handlers committed it (not one answered from idemState) *)
(* is committed at every target, and no target ever holds anything else    *)
(* under its version.                                                      *)
AckedEverywhere ==
  \A a \in acks : ~a.cached =>
    \A i \in Target :
      /\ CommitVer[i] >= a.ver
      /\ UpdateVer[i] = a.ver /\ pc[i] # "stored" => chunks[i] = a.data

(* writeCommit and the remove stage never take a committed version back,   *)
(* nor commit one that is above the version of the target.                 *)
CommitMonotone == [][\A i \in Target : CommitVer'[i] \in CommitVer[i]..UpdateVer'[i]]_vars

(* When a deletion returns to HEAD's caller from its own handlers, every   *)
(* target has dropped the chunk.                                           *)
DeleteRemovesAll ==
  [][FinishRemove(HEAD) => \A i \in Target : chunks'[i] = Absent]_vars

(* applyReplicaWrite always returns and releases the chunk lock, whatever  *)
(* its successors do.                                                      *)
LockReleased == \A i \in Target : pc[i] # "idle" ~> pc[i] = "idle"

---------------------------------------------------------------------------
(* What the documents promise.                                             *)

(* "A write is propagated along the chain and committed before success is  *)
(* returned": at every success, cached or not, TAIL holds the payload.     *)
AckedPutStored == [][\A a \in acks' \ acks : chunks'[TAIL] = a.data]_vars

=============================================================================
