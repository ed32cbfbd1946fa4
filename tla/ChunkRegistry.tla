--------------------------- MODULE ChunkRegistry ---------------------------
(***************************************************************************)
(* The replicated chunk registry and the background work that trusts it:   *)
(* putChunk and DeleteChunk record a chunk after the chain has written it  *)
(* (service.go, registry.go, chunk/replica.go), RunRepair retries what     *)
(* could not be recorded (repair.go, repair_run.go), RunGC deletes what a  *)
(* node does not find in the index (maintenance.go, chunk/store_open.go).  *)
(*                                                                         *)
(* One chunk is modelled, on the nodes of its chain.  A chain write is one *)
(* step here (module Craq has its insides): it reaches every node, or it   *)
(* fails on the way.  Of the two keys of a registry entry only the index   *)
(* is modelled: the location is written before and removed after it, and   *)
(* its one reader, Rebuild, computes the replicas itself if it is missing. *)
(***************************************************************************)
EXTENDS Naturals, Sequences

CONSTANTS
  Node,         \* the nodes of the chain
  HEAD,         \* the one that takes the client's requests
  MaxPuts,      \* bounds on the client's puts and deletions,
  MaxDeletes,
  MaxFaults,    \* on the calls that fail,
  MaxChainVer   \* and on the chain version

ASSUME RegistryConstants ==
  /\ HEAD \in Node
  /\ {MaxPuts, MaxDeletes, MaxFaults} \subseteq Nat /\ MaxChainVer \in Nat \ {0}

VARIABLES
  gcOn,       \* whether -gc-interval is positive; never changes
  have,       \* which nodes hold a copy
  indexLog,   \* whether chunk:index has the chunk, after each Raft write that changed it
  applied,    \* how much of indexLog each node has applied
  pc,         \* what the put, the deletion and the repair in progress do next
  gc,         \* RunGC of each node: "idle", or "orphan" once its list lacks the chunk
  job,        \* whether HEAD's RepairQueue has a job for the chunk
  idem,       \* what idemState of HEAD remembers, for each kind of request
  chainVer, puts, deletes, faults,
  acked       \* history: a put was acknowledged

counters == <<chainVer, puts, deletes, faults>>
vars == <<gcOn, have, indexLog, applied, pc, gc, job, idem, counters, acked>>

Index == indexLog[Len(indexLog)]
IndexAt(n) == indexLog[applied[n]]

Init ==
  /\ gcOn \in BOOLEAN
  /\ have = [n \in Node |-> FALSE]
  /\ indexLog = <<FALSE>>
  /\ applied = [n \in Node |-> 1]
  /\ pc = [put |-> "idle", delete |-> "idle", repair |-> "idle"]
  /\ gc = [n \in Node |-> "idle"]
  /\ job = FALSE
  /\ idem = [put |-> "none", delete |-> "none", repair |-> "none"]
  /\ chainVer = 1 /\ puts = 0 /\ deletes = 0 /\ faults = 0
  /\ acked = FALSE

Goto(p, l) == pc' = [pc EXCEPT ![p] = l]
Fault == faults < MaxFaults /\ faults' = faults + 1
NoFault == UNCHANGED faults

---------------------------------------------------------------------------
(* applyReplicaWrite at HEAD for request kind p.                           *)

Answer(p, res) == idem[p] = res /\ UNCHANGED <<have, idem>> /\ NoFault

WriteOk(p, b) ==
  \/ Answer(p, "ok")
  \/ /\ idem[p] = "none"
     /\ have' = [n \in Node |-> b]
     /\ idem' = [idem EXCEPT ![p] = "ok"]
     /\ NoFault

(* A write that fails on its way has stored the payload at HEAD and maybe  *)
(* elsewhere; a removal comes back from TAIL and has not reached HEAD.     *)
WriteFails(p, b) ==
  \/ Answer(p, "err")
  \/ /\ idem[p] = "none"
     /\ \E S \in SUBSET Node :
          /\ IF b THEN S = {} \/ HEAD \in S ELSE HEAD \notin S
          /\ have' = [n \in Node |-> IF n \in S THEN b ELSE have[n]]
     /\ idem' = [idem EXCEPT ![p] = "err"]
     /\ Fault

(* The chain version follows the epoch, and is part of every key.          *)
raiseChainVer ==
  /\ chainVer < MaxChainVer
  /\ chainVer' = chainVer + 1
  /\ idem' = [p \in DOMAIN idem |-> "none"]
  /\ UNCHANGED <<gcOn, have, indexLog, applied, pc, gc, job, puts, deletes, faults, acked>>

---------------------------------------------------------------------------
(* RecordChunkRegistry, by a put or a repair: SetLocation adds the chunk   *)
(* to the index.                                                           *)

Enqueue == job' = TRUE

SetIndex(b) == indexLog' = IF Index = b THEN indexLog ELSE Append(indexLog, b)

SetLocation(p) ==
  /\ pc[p] = "record"
  /\ SetIndex(TRUE)
  /\ Goto(p, "recorded")
  /\ UNCHANGED <<gcOn, have, applied, gc, job, idem, counters, acked>>

(* The call may fail before or after the Raft write.                       *)
Recording == {"record", "recorded"}

---------------------------------------------------------------------------
(* putChunk at HEAD.                                                       *)

PutChain ==
  /\ pc.put = "idle" /\ puts < MaxPuts /\ puts' = puts + 1
  /\ \/ WriteOk("put", TRUE) /\ Goto("put", "record")
     \/ WriteFails("put", TRUE) /\ UNCHANGED pc
  /\ UNCHANGED <<gcOn, indexLog, applied, gc, job, chainVer, deletes, acked>>

(* Fault: a registry error is only logged.                                 *)
PutForgets ==
  /\ \/ pc.put = "recorded" /\ NoFault
     \/ pc.put \in Recording /\ Fault
  /\ Goto("put", "idle")
  /\ acked' = TRUE
  /\ UNCHANGED <<gcOn, have, indexLog, applied, gc, job, idem, chainVer, puts, deletes>>

(* The put returns success in any case; a registry error queues a repair.  *)
PutReturns ==
  /\ \/ pc.put = "recorded" /\ NoFault /\ UNCHANGED job
     \/ pc.put \in Recording /\ Fault /\ Enqueue
  /\ Goto("put", "idle")
  /\ acked' = TRUE
  /\ UNCHANGED <<gcOn, have, indexLog, applied, gc, idem, chainVer, puts, deletes>>

---------------------------------------------------------------------------
(* DeleteChunk at HEAD.                                                    *)

DeleteChain ==
  /\ pc.delete = "idle" /\ deletes < MaxDeletes /\ deletes' = deletes + 1
  /\ \/ WriteOk("delete", FALSE) /\ Goto("delete", "unindex")
     \/ WriteFails("delete", FALSE) /\ UNCHANGED pc
  /\ UNCHANGED <<gcOn, indexLog, applied, gc, job, chainVer, puts, acked>>

(* DeleteChunkRegistry takes the chunk out of the index, or fails; the     *)
(* error of SRem itself is ignored.                                        *)
DeleteRecord ==
  /\ pc.delete = "unindex"
  /\ \/ SetIndex(FALSE) /\ NoFault
     \/ UNCHANGED indexLog /\ Fault
  /\ Goto("delete", "idle")
  /\ UNCHANGED <<gcOn, have, applied, gc, job, idem, chainVer, puts, deletes, acked>>

---------------------------------------------------------------------------
(* RunRepair at HEAD, for the job in its Snapshot.                         *)

(* Chunks.Get, or a peer's copy, whose local Put may fail.                 *)
RepairRead ==
  /\ pc.repair = "idle" /\ job
  /\ \/ have[HEAD] /\ UNCHANGED have
     \/ /\ ~have[HEAD] /\ \E n \in Node : have[n]
        /\ have' \in {have, [have EXCEPT ![HEAD] = TRUE]}
  /\ Goto("repair", "write")
  /\ UNCHANGED <<gcOn, indexLog, applied, gc, job, idem, counters, acked>>

(* Fail keeps the job.                                                     *)
RepairWrite ==
  /\ pc.repair = "write"
  /\ \/ WriteOk("repair", TRUE) /\ Goto("repair", "record")
     \/ WriteFails("repair", TRUE) /\ Goto("repair", "idle")
  /\ UNCHANGED <<gcOn, indexLog, applied, gc, job, chainVer, puts, deletes, acked>>

(* Fault: a job is dropped after its first attempt, whatever became of it. *)
RepairOnce ==
  /\ \/ pc.repair = "recorded" /\ NoFault
     \/ pc.repair \in Recording /\ Fault
  /\ job' = FALSE
  /\ Goto("repair", "idle")
  /\ UNCHANGED <<gcOn, have, indexLog, applied, gc, idem, chainVer, puts, deletes, acked>>

(* Done, or Fail after a registry error.                                   *)
RepairReturns ==
  /\ \/ pc.repair = "recorded" /\ job' = FALSE /\ NoFault
     \/ pc.repair \in Recording /\ UNCHANGED job /\ Fault
  /\ Goto("repair", "idle")
  /\ UNCHANGED <<gcOn, have, indexLog, applied, gc, idem, chainVer, puts, deletes, acked>>

---------------------------------------------------------------------------
(* The nodes.                                                              *)

(* Fault: a node goes on applying past the end of the log.                 *)
ApplyPast(n) ==
  /\ applied[n] <= Len(indexLog)
  /\ applied' = [applied EXCEPT ![n] = @ + 1]
  /\ UNCHANGED <<gcOn, have, indexLog, pc, gc, job, idem, counters, acked>>

(* A node applies the next Raft write to its own store.                    *)
Apply(n) ==
  /\ applied[n] < Len(indexLog)
  /\ applied' = [applied EXCEPT ![n] = @ + 1]
  /\ UNCHANGED <<gcOn, have, indexLog, pc, gc, job, idem, counters, acked>>

(* RunGC reads the index of the node's own store ...                       *)
RunGC(n) ==
  /\ gcOn /\ gc[n] = "idle" /\ ~IndexAt(n)
  /\ gc' = [gc EXCEPT ![n] = "orphan"]
  /\ UNCHANGED <<gcOn, have, indexLog, applied, pc, job, idem, counters, acked>>

(* Fault: a chunk with a repair job is left alone.                         *)
GCUnqueued(n) ==
  /\ gc[n] = "orphan"
  /\ have' = [have EXCEPT ![n] = @ /\ job]
  /\ gc' = [gc EXCEPT ![n] = "idle"]
  /\ UNCHANGED <<gcOn, indexLog, applied, pc, job, idem, counters, acked>>

(* ... and deletes every local chunk that is not in it.                    *)
GCOrphans(n) ==
  /\ gc[n] = "orphan"
  /\ have' = [have EXCEPT ![n] = FALSE]
  /\ gc' = [gc EXCEPT ![n] = "idle"]
  /\ UNCHANGED <<gcOn, indexLog, applied, pc, job, idem, counters, acked>>

(* Rebuild of a node that starts: an indexed chunk is pulled from a peer.  *)
Rebuild(n) ==
  /\ IndexAt(n) /\ ~have[n] /\ \E m \in Node : have[m]
  /\ have' = [have EXCEPT ![n] = TRUE]
  /\ UNCHANGED <<gcOn, indexLog, applied, pc, gc, job, idem, counters, acked>>

---------------------------------------------------------------------------
Put == PutChain \/ SetLocation("put") \/ PutReturns
Delete == DeleteChain \/ DeleteRecord
Repair == RepairRead \/ RepairWrite \/ SetLocation("repair") \/ RepairReturns

Next ==
  \/ Put \/ Delete \/ Repair \/ raiseChainVer
  \/ \E n \in Node : Apply(n) \/ RunGC(n) \/ GCOrphans(n) \/ Rebuild(n)

Spec == Init /\ [][Next]_vars

(* The ticker of StartMaintenance runs repairs and GC again and again, and *)
(* every node applies the log.  Nothing is assumed of clients' requests.   *)
FairSpec ==
  /\ Spec
  /\ WF_vars(Repair)
  /\ \A n \in Node : WF_vars(Apply(n)) /\ WF_vars(RunGC(n) \/ GCOrphans(n))

---------------------------------------------------------------------------
TypeOK ==
  /\ gcOn \in BOOLEAN /\ have \in [Node -> BOOLEAN]
  /\ indexLog \in Seq(BOOLEAN) /\ indexLog # <<>>
  /\ applied \in [Node -> 1..Len(indexLog)]
  /\ pc \in [put: {"idle"} \cup Recording,
             delete: {"idle", "unindex"},
             repair: {"idle", "write"} \cup Recording]
  /\ gc \in [Node -> {"idle", "orphan"}]
  /\ job \in BOOLEAN /\ acked \in BOOLEAN
  /\ idem \in [{"put", "delete", "repair"} -> {"none", "ok", "err"}]
  /\ chainVer \in 1..MaxChainVer
  /\ puts \in 0..MaxPuts /\ deletes \in 0..MaxDeletes /\ faults \in 0..MaxFaults

(* Until something is deleted, an acknowledged chunk is in the index or    *)
(* has a repair job, although Enqueue ignores a chunk whose job is being   *)
(* repaired and Done then drops that job (repair.go:30, repair_run.go:22). *)
UnindexedHasJob == acked /\ deletes = 0 => Index \/ job

(* An acknowledged chunk gets into the index in the end (no deletion, no   *)
(* GC), unless HEAD remembers a failure of the repair's chain write, which *)
(* it returns for the rest of the chain version (craq.go:134).             *)
AckedIndexed ==
  acked /\ ~gcOn ~> Index \/ deletes > 0 \/ idem.repair = "err"

(* With GC on, a copy of a chunk that left the index, or never got into    *)
(* it, does not stay (maintenance.go:61-70).                               *)
OrphansCollected ==
  \A n \in Node : gcOn /\ have[n] /\ ~Index ~> ~have[n] \/ Index

(* "GCOrphans removes local chunks not referenced in the registry index"   *)
(* (chunk/store_open.go:58): what it deletes is not in the index.          *)
GCKeepsIndexed == [][\A n \in Node : GCOrphans(n) /\ have[n] => ~Index]_vars
=============================================================================
