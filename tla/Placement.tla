----------------------------- MODULE Placement -----------------------------
(***************************************************************************)
(* Who computes which chain.  The node list is a hash in the replicated    *)
(* KV: every node reads its own, possibly lagging, copy, and a mount works *)
(* from its seeds and the list it last fetched.  HGetAll returns a map in  *)
(* Go's iteration order, so a list is a set here and a reader gets it as   *)
(* any of its orderings.  A PUT or DELETE of the mount changes nothing of  *)
(* this, so the invariants quantify over every request possible in a state *)
(* instead of remembering the last one.  Module MountClient adds the       *)
(* mount's side of it and the nodes that answer.                           *)
(***************************************************************************)
EXTENDS ChainTable, FiniteSets, SequencesExt

CONSTANTS
  Node,            \* naturals: a node is its rank among the sorted URLs
  Boot,            \* the registered nodes when the mount starts
  ReplicaFactor,   \* per node: its flag, or what LoadClusterConfig found
  MountRF,         \* the replica factor of the mount, from the seed's overview
  Hash             \* hashes of the chunk ids that are written

ASSUME PlacementOK ==
  /\ Node \subseteq Nat /\ IsFiniteSet(Node) /\ Boot \subseteq Node /\ Boot # {}
  /\ ReplicaFactor \in [Node -> Nat] /\ MountRF \in Nat
  /\ Hash \subseteq Nat

VARIABLES
  members,   \* the hash memoryfs:nodes after each committed Raft entry
  applied,   \* per node: how many entries its replica has applied
  seeds,     \* ChunkStore.seeds of the mount
  nodes      \* ChunkStore.nodes of the mount

placementVars == <<members, applied, seeds, nodes>>

View(n) == members[applied[n]]
Current == Last(members)

ListNodeHTTPAddrs(view) == SetToSeqs(view)

(* sort.Strings, of a list that names no node twice.                       *)
sort(list) ==
  CHOOSE s \in SetToSeqs(ToSet(list)) : \A i, j \in DOMAIN s : i < j => s[i] < s[j]

(* Fault: the list is used in the order it arrives.                        *)
ChainForUnsorted(list, hash, rf) == SelectChain(list, hash, rf)

ChainFor(list, hash, rf) == SelectChain(sort(list), hash, rf)

(* Fault: the discovered list replaces the seeds.                          *)
mergeDiscoveredOnly(existing, discovered) == discovered

mergeNodeURLs(existing, discovered) == existing \union discovered

(* The first entry is the empty store of a node that has applied nothing.  *)
PlacementInit ==
  /\ members = <<{}, Boot>>
  /\ applied = [n \in Node |-> IF n \in Boot THEN 2 ELSE 1]
  /\ seeds = {} /\ nodes = {}

Commit(view) == members' = Append(members, view)

(* Fault: an off-by-one in the applied index.                              *)
ApplyPast(n) ==
  /\ applied[n] <= Len(members)
  /\ applied' = [applied EXCEPT ![n] = @ + 1]
  /\ UNCHANGED <<members, seeds, nodes>>

(* FSM.Apply of the next entry on one node.                                *)
ApplyNext(n) ==
  /\ applied[n] < Len(members)
  /\ applied' = [applied EXCEPT ![n] = @ + 1]
  /\ UNCHANGED <<members, seeds, nodes>>

(* The mount's side: the chain of a chunk, HEAD first.                     *)
writeTargetsForChunk(list, hash) == ChainFor(list, hash, MountRF)

(* The checks of putChunk and DeleteChunk at node n: with an empty list    *)
(* the request is for the node alone; otherwise only the HEAD of its own   *)
(* view accepts, and the chain is the one this node computes.              *)
putChunk(n, list, hash) ==
  IF list = <<>> THEN [ok |-> TRUE, replicas |-> <<n>>]
  ELSE LET chain == ChainFor(list, hash, ReplicaFactor[n])
       IN  [ok |-> Head_(chain) = n, replicas |-> chain]

---------------------------------------------------------------------------
PlacementTypeOK ==
  /\ members \in Seq(SUBSET Node) /\ members # <<>>
  /\ applied \in [Node -> 1..Len(members)]
  /\ seeds \subseteq Node /\ nodes \subseteq Node

(* A mount and the nodes that work from the same set of nodes agree on the *)
(* HEAD, whatever order the maps were iterated in and even if their        *)
(* replica factors differ, and on the chain if those are equal: the PUT is *)
(* accepted, and of the DELETEs sent to every target exactly HEAD's is     *)
(* ("deterministic", chain.go:83; storage/chunk.go:387,418).               *)
SameNodesSameChain ==
  \A hash \in Hash : nodes # {} =>
    \A mine \in ListNodeHTTPAddrs(nodes) :
      LET targets == writeTargetsForChunk(mine, hash)
      IN  \A n \in ToSet(targets) : View(n) = nodes =>
            \A list \in ListNodeHTTPAddrs(View(n)) :
              LET reply == putChunk(n, list, hash)
              IN  /\ reply.ok <=> n = Head_(targets)
                  /\ ReplicaFactor[n] = MountRF => reply.replicas = targets

(* Whatever the mount believes, a node that has a list accepts a client    *)
(* write only as the HEAD of a chain of distinct targets that are all in   *)
(* its own list (service.go:232).                                          *)
HeadAccepts ==
  \A n \in Node, hash \in Hash : View(n) # {} =>
    \A list \in ListNodeHTTPAddrs(View(n)) :
      LET reply == putChunk(n, list, hash)
      IN  reply.ok =>
            /\ Head_(reply.replicas) = n
            /\ Injective(reply.replicas)
            /\ ToSet(reply.replicas) \subseteq View(n)
            /\ ReplicaFactor[n] \in 1..Cardinality(View(n)) =>
                 Len(reply.replicas) = ReplicaFactor[n]

(* Both: how a put is routed while lists lag and factors differ.           *)
RoutingAgrees == SameNodesSameChain /\ HeadAccepts
=============================================================================
