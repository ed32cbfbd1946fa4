---------------------------- MODULE ReplicatedKV ----------------------------
(***************************************************************************)
(* The key-value store under the metadata (pkg/kv/memory.go) as the state  *)
(* machine of Raft (pkg/raftnode/fsm.go, pkg/kv/raft_kv.go).  Each node    *)
(* keeps a MemoryKV in memory only: after a restart it is restored from    *)
(* the last snapshot and the log is applied again from there.              *)
(*                                                                         *)
(* hashicorp/raft is external: one committed log, applied in order by      *)
(* every node; snapshots of a node's own state or installed from another.  *)
(***************************************************************************)
EXTENDS Naturals, Sequences, FiniteSets

CONSTANTS
  Replica,
  Key,           \* keys of strings, hashes and sets
  Counter,       \* keys used with Incr
  Field, Value,  \* fields of hashes; values; members of sets are values
  NoValue,       \* no value, and no number
  MaxLog         \* bound: entries in the log

ASSUME KVConstants == Key \cap Counter = {} /\ MaxLog \in Nat

VARIABLES
  log,       \* committed entries, each a batch of operations
  applied,   \* per node: entries applied
  kv,        \* per node: the MemoryKV
  snap       \* per node: the newest snapshot on its disk

kvVars == <<log, applied, kv, snap>>

(* The four maps; a hash without fields and a set without members are      *)
(* deleted by the code, so here an absent one is the empty one.            *)
Empty ==
  [str |-> [k \in Key \union Counter |-> NoValue],
   hash |-> [k \in Key |-> [f \in Field |-> NoValue]],
   sets |-> [k \in Key |-> {}],
   incrs |-> [k \in Counter |-> 0]]

Op == [type : {"set"}, key : Key, value : Value]
  \union [type : {"del"}, key : Key \union Counter]
  \union [type : {"hset"}, key : Key, field : Field, value : Value]
  \union [type : {"hdel"}, key : Key, field : Field]
  \union [type : {"incr"}, key : Counter]
  \union [type : {"sadd", "srem"}, key : Key, value : Value]

Del(m, k) ==
  IF k \in Counter
  THEN [m EXCEPT !.str[k] = NoValue, !.incrs[k] = 0]
  ELSE [m EXCEPT !.str[k] = NoValue, !.hash[k] = [f \in Field |-> NoValue], !.sets[k] = {}]

Incr(m, k) == [m EXCEPT !.incrs[k] = @ + 1, !.str[k] = m.incrs[k] + 1]

applyLocked(m, op) ==
  CASE op.type = "set"  -> [m EXCEPT !.str[op.key] = op.value]
    [] op.type = "del"  -> Del(m, op.key)
    [] op.type = "hset" -> [m EXCEPT !.hash[op.key][op.field] = op.value]
    [] op.type = "hdel" -> [m EXCEPT !.hash[op.key][op.field] = NoValue]
    [] op.type = "incr" -> Incr(m, op.key)
    [] op.type = "sadd" -> [m EXCEPT !.sets[op.key] = @ \union {op.value}]
    [] op.type = "srem" -> [m EXCEPT !.sets[op.key] = @ \ {op.value}]

(* FSM.Apply: the operations of one entry in order, under one lock.        *)
Batch(m, ops) ==
  LET after[i \in 0..Len(ops)] == IF i = 0 THEN m ELSE applyLocked(after[i - 1], ops[i])
  IN  after[Len(ops)]

ListOf(S) ==
  CHOOSE s \in [1..Cardinality(S) -> S] : \A i, j \in DOMAIN s : s[i] = s[j] => i = j
SetOf(s) == {s[i] : i \in DOMAIN s}

(* MemoryKV.Snapshot writes the four maps as JSON, a set as a list of its  *)
(* members (sorted; here in any fixed order).                              *)
snapshotData(m) ==
  [str |-> m.str, hash |-> m.hash, incrs |-> m.incrs,
   sets |-> [k \in Key |-> ListOf(m.sets[k])]]

(* Fault: Restore forgets one of the maps.                                 *)
RestoreNoIncrs(data) ==
  [str |-> data.str, hash |-> data.hash, incrs |-> Empty.incrs,
   sets |-> [k \in Key |-> SetOf(data.sets[k])]]

(* MemoryKV.Restore replaces all four maps and makes sets of the lists.    *)
Restore(data) ==
  [str |-> data.str, hash |-> data.hash, incrs |-> data.incrs,
   sets |-> [k \in Key |-> SetOf(data.sets[k])]]

KVInit ==
  /\ log = <<>>
  /\ applied = [n \in Replica |-> 0]
  /\ kv = [n \in Replica |-> Empty]
  /\ snap = [n \in Replica |-> [index |-> 0, data |-> snapshotData(Empty)]]

(* RaftKV.apply and applyBatch on the leader, once committed.              *)
Commit(ops) ==
  /\ Len(log) < MaxLog
  /\ log' = Append(log, ops)
  /\ UNCHANGED <<applied, kv, snap>>

Apply(n) ==
  /\ applied[n] < Len(log)
  /\ applied' = [applied EXCEPT ![n] = @ + 1]
  /\ kv' = [kv EXCEPT ![n] = Batch(@, log[applied[n] + 1])]
  /\ UNCHANGED <<log, snap>>

Snapshot(n) ==
  /\ snap[n].index < applied[n]
  /\ snap' = [snap EXCEPT ![n] = [index |-> applied[n], data |-> snapshotData(kv[n])]]
  /\ UNCHANGED <<log, applied, kv>>

(* Start: NewFSM, then FSM.Restore of the snapshot if there is one.        *)
Restart(n) ==
  /\ kv' = [kv EXCEPT ![n] = IF snap[n].index = 0 THEN Empty ELSE Restore(snap[n].data)]
  /\ applied' = [applied EXCEPT ![n] = snap[n].index]
  /\ UNCHANGED <<log, snap>>

(* A follower that is far behind gets the snapshot of another node.        *)
InstallSnapshot(m, n) ==
  /\ applied[n] < snap[m].index
  /\ kv' = [kv EXCEPT ![n] = Restore(snap[m].data)]
  /\ applied' = [applied EXCEPT ![n] = snap[m].index]
  /\ snap' = [snap EXCEPT ![n] = snap[m]]
  /\ UNCHANGED log

(* The operations of a batch touch different keys: their order is          *)
(* immaterial, and one order stands for both.                              *)
KVNext ==
  \/ \E op \in Op : Commit(<<op>>)
  \/ \E op1, op2 \in Op : op1.key \in Key /\ op2.key \in Counter /\ Commit(<<op1, op2>>)
  \/ \E n \in Replica : Apply(n) \/ Snapshot(n) \/ Restart(n)
  \/ \E m, n \in Replica : InstallSnapshot(m, n)

KVSpec == KVInit /\ [][KVNext]_kvVars

---------------------------------------------------------------------------
KVTypeOK ==
  /\ log \in Seq(Seq(Op)) /\ applied \in [Replica -> 0..Len(log)]
  /\ \A n \in Replica : snap[n].index \in 0..Len(log)

(* What the first i entries mean, from the empty store.                    *)
Replay(entries, i) ==
  LET state[j \in 0..Len(entries)] == IF j = 0 THEN Empty ELSE Batch(state[j - 1], entries[j])
  IN  state[i]

(* Every node's store is exactly the outcome of the entries it has applied, *)
(* whatever restarts, snapshots and installations happened: nothing is     *)
(* applied twice and nothing lost (fsm.go:25-55, memory.go:278-330).  And  *)
(* the string RaftKV.Incr reads agrees with the counter map, also after    *)
(* deletes and restores (raft_kv.go:74-85).                                *)
StoreIsReplay ==
  \A n \in Replica :
    /\ kv[n] = Replay(log, applied[n])
    /\ \A k \in Counter :
         kv[n].str[k] = IF kv[n].incrs[k] = 0 THEN NoValue ELSE kv[n].incrs[k]
=============================================================================
