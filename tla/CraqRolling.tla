---------------------------- MODULE CraqRolling ----------------------------
(***************************************************************************)
(* Rolling updates beside the writers of Craq: a target that keeps its     *)
(* chunks in memory is drained, its process stops and starts again, and    *)
(* Ready pulls its chunks back from peers (service.go:333-390,             *)
(* lifecycle/manager.go, chunk/rebuild.go).  Payloads, chunkMeta,          *)
(* idemState and the RepairQueue are all lost with the process.            *)
(***************************************************************************)
EXTENDS Craq

CONSTANT MaxRestarts    \* bound on the number of restarts

ASSUME RollingOK == MaxRestarts \in Nat

VARIABLES
  life,        \* Manager.state of each target
  drain,       \* Drain in progress: payload, next replica to visit, copies found
  restarts,    \* restarts so far
  undrained    \* history: a process stopped although its drain had failed

stopVars == <<restarts, undrained>>
lifeVars == <<life, drain, stopVars>>
rvars == <<vars, lifeVars>>

NoDrain == [data |-> Absent, next |-> 0, got |-> 0]

RInit ==
  /\ Init
  /\ life = [i \in Target |-> "active"]
  /\ drain = [i \in Target |-> NoDrain]
  /\ restarts = 0 /\ undrained = FALSE

SetLife(i, s) == life' = [life EXCEPT ![i] = s]
EndDrain(i) == drain' = [drain EXCEPT ![i] = NoDrain]

---------------------------------------------------------------------------
(* Drain(force = false): StartDrain and the payload of the local chunk; a  *)
(* node without a copy is drained at once.  Rolling updates take one node  *)
(* at a time (the PDB of the StatefulSet).                                 *)
StartDrain(i) ==
  /\ \A j \in Target \ {i} : life[j] = "active"
  /\ life[i] \in {"active", "draining"} /\ drain[i] = NoDrain
  /\ IF chunks[i] = Absent
     THEN SetLife(i, "drained") /\ UNCHANGED drain
     ELSE /\ SetLife(i, "draining")
          /\ drain' = [drain EXCEPT ![i] = [data |-> chunks[i], next |-> 1, got |-> 0]]
  /\ UNCHANGED <<vars, stopVars>>

(* PutChunkReplica: a request with no versions and no replica list, which  *)
(* the receiver handles under the chunk lock and forwards to nobody.       *)
drainReq == [NoCall.req EXCEPT !.Stage = "prepare"]

StoreCopy(j, d) ==
  /\ chunks' = [chunks EXCEPT ![j] = d]
  /\ UpdateVer' = [UpdateVer EXCEPT ![j] = @ + 1]
  /\ CommitVer' = [CommitVer EXCEPT ![j] = UpdateVer[j] + 1]
  /\ State' = [State EXCEPT ![j] = "committed"]
  /\ rememberOk(j, drainReq)

(* What the receiver answers; Chunks.Put may fail over its quota.          *)
ReplicaAnswers(j, d, ok) ==
  /\ pc[j] = "idle"
  /\ \/ /\ ok /\ drainReq \in okKeys[j]
        /\ UNCHANGED <<metaVars, chunks, idemVars>>
     \/ /\ ~ok /\ drainReq \in errKeys[j]
        /\ UNCHANGED <<metaVars, chunks, idemVars>>
     \/ /\ ok /\ drainReq \notin okKeys[j] \cup errKeys[j]
        /\ StoreCopy(j, d)
     \/ /\ ~ok /\ drainReq \notin okKeys[j] \cup errKeys[j]
        /\ rememberErr(j, drainReq)
        /\ UNCHANGED <<metaVars, chunks>>

(* The next replica: the node itself counts; a copy that cannot be sent,   *)
(* or whose answer is lost, does not.                                      *)
DrainCopy(i) ==
  LET j == drain[i].next
      visited(n) == drain' = [drain EXCEPT ![i].next = @ + 1, ![i].got = @ + n]
  IN  /\ j \in Target
      /\ \/ j = i /\ visited(1) /\ UNCHANGED <<metaVars, chunks, idemVars>>
         \/ j # i /\ visited(0) /\ UNCHANGED <<metaVars, chunks, idemVars>>
         \/ j # i /\ \E n \in {0, 1} : visited(n) /\ ReplicaAnswers(j, drain[i].data, TRUE)
         \/ j # i /\ visited(0) /\ ReplicaAnswers(j, drain[i].data, FALSE)
      /\ UNCHANGED <<pc, lockVars, inbox, chainVer, pending, acks, life, stopVars>>

(* Fault: under-replicated chunks do not stop the drain.                   *)
DrainRegardless(i) ==
  /\ drain[i].next = R + 1
  /\ EndDrain(i)
  /\ SetLife(i, "drained")
  /\ UNCHANGED <<vars, stopVars>>

(* Too few copies, or a registry record that fails, end Drain with an      *)
(* error and leave the node draining; otherwise MarkDrained.               *)
FinishDrain(i) ==
  /\ drain[i].next = R + 1
  /\ EndDrain(i)
  /\ \/ drain[i].got >= R /\ SetLife(i, "drained")
     \/ UNCHANGED life
  /\ UNCHANGED <<vars, stopVars>>

(* POST /ready without a restart; Rebuild finds nothing missing or, with   *)
(* the index in the registry, fetches a copy.                              *)
Fetched(i) == {Absent} \cup {chunks[j] : j \in {k \in Target \ {i} : Readable(k)}}

Ready(i) ==
  /\ life[i] # "active" /\ drain[i] = NoDrain
  /\ SetLife(i, "active")
  /\ \E d \in IF chunks[i] = Absent THEN Fetched(i) ELSE {chunks[i]} :
       chunks' = [chunks EXCEPT ![i] = d]
  /\ UNCHANGED <<metaVars, idemVars, pc, lockVars, inbox, chainVer, pending, acks, drain, stopVars>>

(* The process stops when its Drain has returned, with or without success, *)
(* and the next one runs New and Ready (cmd/memoryfs/node.go).  The        *)
(* requests it was handling or had queued fail at their callers; the one   *)
(* it had sent goes on with nobody waiting for it.                         *)
Restart(i) ==
  /\ restarts < MaxRestarts /\ restarts' = restarts + 1
  /\ life[i] # "active" /\ drain[i] = NoDrain
  /\ undrained' = (undrained \/ life[i] = "draining")
  /\ UpdateVer' = [UpdateVer EXCEPT ![i] = 0]
  /\ CommitVer' = [CommitVer EXCEPT ![i] = 0]
  /\ State' = [State EXCEPT ![i] = "none"]
  /\ okKeys' = [okKeys EXCEPT ![i] = {}]
  /\ errKeys' = [errKeys EXCEPT ![i] = {}]
  /\ \E d \in Fetched(i) : chunks' = [chunks EXCEPT ![i] = d]
  /\ pending' = (pending /\ i # HEAD)
  /\ pc' = [pc EXCEPT ![i] = "idle"]
  /\ inbox' = [j \in Target |->
       CASE j = i -> {}
         [] j = i + 1 -> {[c EXCEPT !.live = FALSE] : c \in inbox[j]}
         [] OTHER -> inbox[j]]
  /\ call' = [j \in Target |->
       CASE j = i -> NoCall
         [] j = i + 1 -> [call[j] EXCEPT !.live = FALSE]
         [] OTHER -> call[j]]
  /\ ver' = [ver EXCEPT ![i] = 0]
  /\ tries' = [tries EXCEPT ![i] = 0]
  /\ SetLife(i, "active")
  /\ UNCHANGED <<chainVer, acks, drain>>

(* A node that is not active refuses client writes; it goes on to handle   *)
(* the replica writes of other nodes, and repairs.                         *)
AcceptedPut == life[HEAD] = "active" /\ \E v \in Value : putChunk(v)

Writers ==
  \/ AcceptedPut
  \/ repairChunk
  \/ raiseChainVer
  \/ \E i \in Target : Arrive(i) \/ Proceed(i)
  \/ \E i \in Target \ {TAIL} : LoseRequest(i) \/ ForwardReturns(i)

RNext ==
  \/ Writers /\ UNCHANGED lifeVars
  \/ \E i \in Target : StartDrain(i) \/ DrainCopy(i) \/ FinishDrain(i) \/ Ready(i) \/ Restart(i)

RSpec == RInit /\ [][RNext]_rvars

---------------------------------------------------------------------------
(* A rolling update of nodes that keep chunks in memory never loses a      *)
(* chunk altogether as long as no process stops after a failed drain: once *)
(* a put was acknowledged some target holds a copy, although a restarted   *)
(* node may have failed to rebuild and a put may be stored on a node after *)
(* its drain (service.go:333-390).                                         *)
SomeCopy == acks # {} /\ ~undrained => \E i \in Target : chunks[i] # Absent
=============================================================================
