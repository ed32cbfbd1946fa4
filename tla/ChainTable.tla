---------------------------- MODULE ChainTable ----------------------------
(***************************************************************************)
(* How chunks are placed on nodes (pkg/chunk/chain.go).  A node is its     *)
(* rank in the order of sort.Strings, so a node list is a sequence of      *)
(* naturals; a chunk is its FNV-1a hash.  Chains and targets are numbered  *)
(* from 0 as in the code, sequences from 1 as in TLA+.                     *)
(***************************************************************************)
EXTENDS Naturals, Sequences

(* The replica factor BuildChainTable works with.                          *)
EffectiveRF(n, rf) == IF rf = 0 THEN 1 ELSE IF rf > n THEN n ELSE rf

(* Target j of chain i, over the sorted node list.                         *)
TargetNode(sorted, i, j) == sorted[((i + j) % Len(sorted)) + 1]

(* The node URLs of chain i, HEAD first.                                   *)
Chain(sorted, i, rf) ==
  [j \in 1..EffectiveRF(Len(sorted), rf) |-> TargetNode(sorted, i, j - 1)]

Role(chain, j) ==
  CASE j = 1 -> "HEAD"
    [] j # 1 /\ j = Len(chain) -> "TAIL"
    [] OTHER -> "MIDDLE"

Head_(chain) == chain[1]
Tail_(chain) == chain[Len(chain)]

ContainsNode(chain, node) == \E j \in 1..Len(chain) : chain[j] = node

(* NextOf, and the loop of applyReplicaWrite that looks for the successor: *)
(* the target after the first occurrence of node, if there is one.         *)
First(chain, node) ==
  CHOOSE j \in 1..Len(chain) :
    chain[j] = node /\ \A k \in 1..(j - 1) : chain[k] # node

HasNext(chain, node) == ContainsNode(chain, node) /\ First(chain, node) < Len(chain)
NextOf(chain, node) == chain[First(chain, node) + 1]

(* SelectChain: hash is the 32-bit sum of the chunk id.                    *)
SelectChain(sorted, hash, rf) == Chain(sorted, hash % Len(sorted), rf)

---------------------------------------------------------------------------
(* What the placement promises, for a sorted list without repetitions.     *)

Injective(s) == \A j, k \in 1..Len(s) : s[j] = s[k] => j = k

(* "All targets in a chain must reside on different nodes."                *)
TargetsDistinct(sorted, rf) ==
  \A i \in 0..(Len(sorted) - 1) : Injective(Chain(sorted, i, rf))

(* "Every node is the HEAD of exactly one chain", and so for TAIL.         *)
HeadsBalanced(sorted, rf) ==
  \A k \in 1..Len(sorted) :
    /\ \E i \in 0..(Len(sorted) - 1) : Head_(Chain(sorted, i, rf)) = sorted[k]
    /\ \E i \in 0..(Len(sorted) - 1) : Tail_(Chain(sorted, i, rf)) = sorted[k]
    /\ \A i, h \in 0..(Len(sorted) - 1) :
         (\/ Head_(Chain(sorted, i, rf)) = Head_(Chain(sorted, h, rf))
          \/ Tail_(Chain(sorted, i, rf)) = Tail_(Chain(sorted, h, rf))) => i = h

(* The successor a target finds in req.Replicas is the next target of the  *)
(* chain, and only TAIL finds none: what module Craq takes for granted.    *)
SuccessorIsNext(sorted, rf) ==
  \A i \in 0..(Len(sorted) - 1) : \A j \in 1..EffectiveRF(Len(sorted), rf) :
    LET c == Chain(sorted, i, rf)
    IN  /\ HasNext(c, c[j]) <=> j < Len(c)
        /\ j < Len(c) => NextOf(c, c[j]) = c[j + 1]
=============================================================================
