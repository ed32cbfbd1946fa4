------------------------- MODULE MountClientProofs -------------------------
(***************************************************************************)
(* Proofs about ChainTable, Placement and MountClient, for every set of    *)
(* nodes and URLs, every replica factor, every number of membership        *)
(* changes and faults, and any of the operations.                          *)
(***************************************************************************)
EXTENDS MountClient, Induction, TLAPS

---------------------------------------------------------------------------
(* ChainTable: every node list and replica factor.                         *)

(* Indices of a chain stay below 2n, where % subtracts at most once.       *)
LEMMA ModBelowTwice ==
  ASSUME NEW n \in Nat \ {0}, NEW a \in Nat, a < 2 * n
  PROVE  a % n = IF a < n THEN a ELSE a - n
<1>1. CASE a < n
  BY <1>1
<1>2. CASE a >= n
  BY <1>2
<1> QED BY <1>1, <1>2

(* The ring position of target j of chain i.                               *)
LEMMA RingSum ==
  ASSUME NEW n \in Nat \ {0}, NEW i \in 0..(n - 1), NEW j \in 0..(n - 1)
  PROVE  /\ (i + j) % n = IF i + j < n THEN i + j ELSE i + j - n
         /\ (i + j) % n \in 0..(n - 1)
<1> DEFINE a == i + j
<1>1. a \in Nat /\ a < 2 * n
  OBVIOUS
<1>2. a % n = IF a < n THEN a ELSE a - n
  <2> HIDE DEF a
  <2> QED BY Zenon, <1>1, ModBelowTwice
<1> QED BY <1>1, <1>2

(* Adding the same offset does not make two ring positions meet.           *)
LEMMA RingInjective ==
  ASSUME NEW n \in Nat \ {0}, NEW i \in 0..(n - 1),
         NEW j \in 0..(n - 1), NEW k \in 0..(n - 1), (i + j) % n = (i + k) % n
  PROVE  j = k
<1> DEFINE a == (i + j) % n  b == (i + k) % n
<1>1. /\ a = IF i + j < n THEN i + j ELSE i + j - n
      /\ b = IF i + k < n THEN i + k ELSE i + k - n
  BY Zenon, RingSum
<1>2. a = b
  OBVIOUS
<1> HIDE DEF a, b
<1> QED BY <1>1, <1>2

(* The replica factor is clamped to 1..n, and a chain has that many targets. *)
LEMMA ChainLen ==
  ASSUME NEW sorted \in Seq(Nat), sorted # <<>>, NEW rf \in Nat, NEW i \in Nat
  PROVE  /\ Len(sorted) \in Nat \ {0}
         /\ EffectiveRF(Len(sorted), rf) \in 1..Len(sorted)
         /\ Len(Chain(sorted, i, rf)) = EffectiveRF(Len(sorted), rf)
         /\ \A j \in 1..EffectiveRF(Len(sorted), rf) :
              Chain(sorted, i, rf)[j] = TargetNode(sorted, i, j - 1)
<1>1. Len(sorted) \in Nat \ {0}
  OBVIOUS
<1>2. EffectiveRF(Len(sorted), rf) \in 1..Len(sorted)
  BY <1>1 DEF EffectiveRF
<1> DEFINE m == EffectiveRF(Len(sorted), rf)
<1>3. m \in Nat
  BY <1>2
<1> HIDE DEF m
<1>4. Len([j \in 1..m |-> TargetNode(sorted, i, j - 1)]) = m
  BY <1>3
<1> QED BY Zenon, <1>1, <1>2, <1>4 DEF Chain, m

(* Two targets of the table on the same node have the same position, up to *)
(* one turn of the ring.                                                   *)
LEMMA SameTarget ==
  ASSUME NEW sorted \in Seq(Nat), sorted # <<>>, Injective(sorted),
         NEW i \in 0..(Len(sorted) - 1), NEW j \in 0..(Len(sorted) - 1),
         NEW h \in 0..(Len(sorted) - 1), NEW k \in 0..(Len(sorted) - 1),
         TargetNode(sorted, i, j) = TargetNode(sorted, h, k)
  PROVE  (i + j) % Len(sorted) = (h + k) % Len(sorted)
<1> DEFINE n == Len(sorted)
<1>1. n \in Nat \ {0}
  OBVIOUS
<1>2. (i + j) % n \in 0..(n - 1) /\ (h + k) % n \in 0..(n - 1)
  BY Zenon, <1>1, RingSum
<1>3. ((i + j) % n) + 1 \in 1..n /\ ((h + k) % n) + 1 \in 1..n
  BY SMTT(30), <1>1, <1>2
<1>4. ((i + j) % n) + 1 = ((h + k) % n) + 1
  BY SMTT(30), <1>3 DEF TargetNode, Injective
<1> DEFINE a == (i + j) % n  b == (h + k) % n
<1>5. a \in Nat /\ b \in Nat /\ a + 1 = b + 1
  BY <1>2, <1>4
<1> HIDE DEF a, b
<1>6. a = b
  BY <1>5
<1> QED BY Zenon, <1>6 DEF a, b

(* All targets of a chain are on different nodes (chain.go:35-36).         *)
THEOREM ChainsHaveDistinctTargets ==
  ASSUME NEW sorted \in Seq(Nat), sorted # <<>>, Injective(sorted), NEW rf \in Nat
  PROVE  TargetsDistinct(sorted, rf)
<1> DEFINE n == Len(sorted)  m == EffectiveRF(n, rf)
<1> SUFFICES ASSUME NEW i \in 0..(n - 1), NEW j \in 1..m, NEW k \in 1..m,
                    Chain(sorted, i, rf)[j] = Chain(sorted, i, rf)[k]
             PROVE  j = k
  <2>1. \A i \in 0..(n - 1) : i \in Nat
    OBVIOUS
  <2> QED BY Zenon, <2>1, ChainLen DEF TargetsDistinct, Injective
<1>1. n \in Nat \ {0} /\ m \in 1..n
  BY Zenon, ChainLen
<1>2. j - 1 \in 0..(n - 1) /\ k - 1 \in 0..(n - 1)
  BY <1>1
<1>3. TargetNode(sorted, i, j - 1) = TargetNode(sorted, i, k - 1)
  BY ChainLen
<1>4. (i + (j - 1)) % n = (i + (k - 1)) % n
  BY SMTT(30), <1>2, <1>3, SameTarget
<1> HIDE DEF n, m
<1>5. j - 1 = k - 1
  BY Zenon, <1>1, <1>2, <1>4, RingInjective
<1> QED BY <1>1, <1>5

(* The successor found in req.Replicas is the next target of the chain.    *)
THEOREM SuccessorFound ==
  ASSUME NEW sorted \in Seq(Nat), sorted # <<>>, Injective(sorted), NEW rf \in Nat
  PROVE  SuccessorIsNext(sorted, rf)
<1> DEFINE n == Len(sorted)  m == EffectiveRF(n, rf)
<1> SUFFICES ASSUME NEW i \in 0..(n - 1), NEW j \in 1..m
             PROVE  LET c == Chain(sorted, i, rf)
                    IN  /\ HasNext(c, c[j]) <=> j < Len(c)
                        /\ j < Len(c) => NextOf(c, c[j]) = c[j + 1]
  BY Zenon DEF SuccessorIsNext
<1> DEFINE c == Chain(sorted, i, rf)
<1>1. m \in Nat /\ Len(c) = m
  BY ChainLen
<1>2. Injective(c)
  BY Zenon, ChainsHaveDistinctTargets DEF TargetsDistinct
<1> HIDE DEF c, m
<1>3. \A k \in 1..m : c[k] = c[j] => k = j
  BY Zenon, <1>1, <1>2 DEF Injective
<1>4. First(c, c[j]) = j
  <2>1. \A k \in 1..(j - 1) : c[k] # c[j]
    BY <1>1, <1>3
  <2> QED BY Zenon, <1>1, <1>3, <2>1 DEF First
<1>5. ContainsNode(c, c[j])
  BY Zenon, <1>1 DEF ContainsNode
<1> QED BY Zenon, <1>1, <1>4, <1>5 DEF HasNext, NextOf, c

(* Every node is HEAD of exactly one chain and TAIL of exactly one.        *)
THEOREM HeadsAndTailsBalanced ==
  ASSUME NEW sorted \in Seq(Nat), sorted # <<>>, Injective(sorted), NEW rf \in Nat
  PROVE  HeadsBalanced(sorted, rf)
<1> DEFINE n == Len(sorted)  m == EffectiveRF(n, rf)
<1>1. n \in Nat \ {0} /\ m \in 1..n
  BY SMTT(30), ChainLen
<1>2. ASSUME NEW i \in 0..(n - 1)
      PROVE  /\ Head_(Chain(sorted, i, rf)) = TargetNode(sorted, i, 0)
             /\ Tail_(Chain(sorted, i, rf)) = TargetNode(sorted, i, m - 1)
  <2>1. i \in Nat
    BY <1>1
  <2>2. /\ Len(Chain(sorted, i, rf)) = m
        /\ Chain(sorted, i, rf)[1] = TargetNode(sorted, i, 1 - 1)
        /\ Chain(sorted, i, rf)[m] = TargetNode(sorted, i, m - 1)
    <3>1. 1 \in 1..m /\ m \in 1..m
      BY <1>1
    <3> QED BY Zenon, <2>1, <3>1, ChainLen
  <2>3. 1 - 1 = 0
    OBVIOUS
  <2> QED BY Zenon, <2>2, <2>3 DEF Head_, Tail_
<1>3. ASSUME NEW k \in 1..n PROVE \E i \in 0..(n - 1) : Head_(Chain(sorted, i, rf)) = sorted[k]
  <2>1. k - 1 \in 0..(n - 1) /\ ((k - 1) + 0) % n = k - 1
    BY <1>1, ModBelowTwice
  <2>2. TargetNode(sorted, k - 1, 0) = sorted[k]
    BY <2>1 DEF TargetNode
  <2> QED BY Zenon, <1>2, <2>1, <2>2
<1>4. ASSUME NEW k \in 1..n PROVE \E i \in 0..(n - 1) : Tail_(Chain(sorted, i, rf)) = sorted[k]
  <2> DEFINE i == IF k >= m THEN k - m ELSE k - m + n
  <2>1. i \in 0..(n - 1) /\ m - 1 \in 0..(n - 1)
        /\ (IF i + (m - 1) < n THEN i + (m - 1) ELSE i + (m - 1) - n) = k - 1
    <3> HIDE DEF n, m
    <3> QED BY <1>1
  <2>2. (i + (m - 1)) % n = k - 1
    <3> HIDE DEF n, m, i
    <3> QED BY Zenon, <1>1, <2>1, RingSum
  <2>3. TargetNode(sorted, i, m - 1) = sorted[k]
    <3>1. (k - 1) + 1 = k
      OBVIOUS
    <3> HIDE DEF i, m
    <3> QED BY Zenon, <2>2, <3>1 DEF TargetNode
  <2> HIDE DEF i
  <2> QED BY Zenon, <1>2, <2>1, <2>3
<1>5. ASSUME NEW i \in 0..(n - 1), NEW h \in 0..(n - 1), NEW j \in 0..(n - 1),
             TargetNode(sorted, i, j) = TargetNode(sorted, h, j)
      PROVE  i = h
  <2>1. (i + j) % n = (h + j) % n
    BY <1>5, SameTarget
  <2> HIDE DEF n
  <2>2. i + j = j + i /\ h + j = j + h
    OBVIOUS
  <2>3. (j + i) % n = (j + h) % n
    BY Zenon, <2>1, <2>2
  <2> QED BY Zenon, <1>1, <2>3, RingInjective
<1>6. ASSUME NEW i \in 0..(n - 1), NEW h \in 0..(n - 1),
             \/ Head_(Chain(sorted, i, rf)) = Head_(Chain(sorted, h, rf))
             \/ Tail_(Chain(sorted, i, rf)) = Tail_(Chain(sorted, h, rf))
      PROVE  i = h
  <2>1. 0 \in 0..(n - 1) /\ m - 1 \in 0..(n - 1)
    BY <1>1
  <2> QED BY <1>2, <1>5, <1>6, <2>1
<1> HIDE DEF m
<1> QED BY Zenon, <1>3, <1>4, <1>6 DEF HeadsBalanced

---------------------------------------------------------------------------
(* Placement: lists that arrive in any order.                              *)

(* Every ordering of a list names every node once.                         *)
LEMMA Orderings ==
  ASSUME NEW V, IsFiniteSet(V), NEW list \in ListNodeHTTPAddrs(V)
  PROVE  /\ list \in [1..Cardinality(V) -> V] /\ ToSet(list) = V
         /\ \A i, j \in 1..Cardinality(V) : list[i] = list[j] => i = j
         /\ \A x \in V : \E i \in 1..Cardinality(V) : list[i] = x
<1> DEFINE n == Cardinality(V)
<1>1. n \in Nat /\ IsFiniteSet(1..n) /\ Cardinality(1..n) = n
  <2>1. n \in Nat
    BY Zenon, FS_CardinalityType
  <2> QED BY <2>1, FS_Interval
<1>2. list \in [1..n -> V] /\ \A i, j \in 1..n : i # j => list[i] # list[j]
  BY Zenon DEF ListNodeHTTPAddrs, SetToSeqs
<1> HIDE DEF n
<1>3. list \in Injection(1..n, V)
  BY Zenon, <1>2 DEF Injection, IsInjective
<1>4. list \in Surjection(1..n, V)
  BY Zenon, <1>1, <1>3, FS_Injection DEF n
<1>5. \A x \in V : \E i \in 1..n : list[i] = x
  BY Zenon, <1>4 DEF Surjection
<1>6. ToSet(list) = V
  BY <1>2, <1>5 DEF ToSet
<1> QED BY Zenon, <1>2, <1>5, <1>6 DEF n

LEMMA SortAscends ==
  ASSUME NEW V, V \subseteq Nat, IsFiniteSet(V), NEW list \in ListNodeHTTPAddrs(V)
  PROVE  Ascends(sort(list), Cardinality(V), V)
<1> DEFINE n == Cardinality(V)
           Asc(s) == \A i, j \in DOMAIN s : i < j => s[i] < s[j]
<1>0. n \in Nat
  BY Zenon, FS_CardinalityType
<1>1. PICK g : Ascends(g, n, V)
  BY Zenon, Ascending
<1>2. g \in [1..n -> V] /\ Asc(g)
  BY Zenon, <1>1 DEF Ascends
<1>3. \A i, j \in 1..n : i # j => g[i] # g[j]
  <2> SUFFICES ASSUME NEW i \in 1..n, NEW j \in 1..n, i # j PROVE g[i] # g[j]
    OBVIOUS
  <2>1. g[i] \in Nat /\ g[j] \in Nat
    BY Zenon, <1>2
  <2>2. i < j \/ j < i
    BY <1>0
  <2>3. g[i] < g[j] \/ g[j] < g[i]
    BY Zenon, <1>1, <2>2 DEF Ascends
  <2> QED BY <2>1, <2>3
<1>4. g \in ListNodeHTTPAddrs(V)
  BY Zenon, <1>2, <1>3 DEF ListNodeHTTPAddrs, SetToSeqs
<1> DEFINE s == sort(list)
<1>5. s = CHOOSE t \in ListNodeHTTPAddrs(V) : Asc(t)
  <2>1. ToSet(list) = V
    BY Zenon, Orderings
  <2> QED BY Zenon, <2>1 DEF sort, ListNodeHTTPAddrs
<1> HIDE DEF s
<1>6. s \in ListNodeHTTPAddrs(V) /\ Asc(s)
  <2> HIDE DEF Asc
  <2> QED BY Zenon, <1>2, <1>4, <1>5
<1>7. /\ s \in [1..n -> V] /\ \A x \in V : \E i \in 1..n : s[i] = x
  BY Zenon, <1>6, Orderings
<1>8. DOMAIN s = 1..n
  BY Zenon, <1>7
<1> HIDE DEF n
<1>9. Ascends(s, n, V)
  BY Zenon, <1>6, <1>7, <1>8 DEF Ascends
<1> QED BY Zenon, <1>9 DEF s, n

(* sort has no choice: there is one sorted list of the nodes.              *)
LEMMA SortDetermined ==
  ASSUME NEW V, V \subseteq Nat, IsFiniteSet(V), NEW list \in ListNodeHTTPAddrs(V),
         NEW s, Ascends(s, Cardinality(V), V)
  PROVE  s = sort(list)
<1>1. Cardinality(V) \in Nat /\ Ascends(sort(list), Cardinality(V), V)
  BY Zenon, SortAscends, FS_CardinalityType
<1> QED BY Zenon, <1>1, AscendsOnce

(* The order a list arrives in does not matter.                            *)
LEMMA SortSame ==
  ASSUME NEW V, IsFiniteSet(V), NEW a \in ListNodeHTTPAddrs(V), NEW b \in ListNodeHTTPAddrs(V)
  PROVE  sort(a) = sort(b)
<1>1. ToSet(a) = ToSet(b)
  BY Zenon, Orderings
<1> QED BY Zenon, <1>1 DEF sort

(* What a sorted list of nodes is to ChainTable.                           *)
LEMMA SortedList ==
  ASSUME NEW V, V \subseteq Nat, V # {}, IsFiniteSet(V), NEW s, Ascends(s, Cardinality(V), V)
  PROVE  s \in Seq(Nat) /\ s # <<>> /\ Len(s) = Cardinality(V) /\ Injective(s) /\ Cardinality(V) # 0
<1> DEFINE n == Cardinality(V)
<1>1. n \in Nat
  BY Zenon, FS_CardinalityType
<1>2. n # 0
  BY Zenon, FS_EmptySet
<1> HIDE DEF n
<1>3. s \in [1..n -> V] /\ \A i, j \in 1..n : i < j => s[i] < s[j]
  BY Zenon DEF Ascends, n
<1>4. s \in Seq(Nat) /\ Len(s) = n
  <2>1. s = [i \in 1..n |-> s[i]] /\ \A i \in 1..n : s[i] \in Nat
    BY Zenon, <1>3
  <2>2. [i \in 1..n |-> s[i]] \in Seq(Nat) /\ Len([i \in 1..n |-> s[i]]) = n
    BY <1>1, <2>1
  <2> QED BY Zenon, <2>1, <2>2
<1>5. s # <<>>
  BY <1>1, <1>2, <1>4
<1>6. ASSUME NEW i \in 1..n, NEW j \in 1..n, s[i] = s[j] PROVE i = j
  <2>1. s[i] \in Nat /\ s[j] \in Nat
    BY Zenon, <1>3
  <2>2. ~(i < j) /\ ~(j < i)
    BY <1>3, <1>6, <2>1
  <2> QED BY <1>1, <2>2
<1>7. Injective(s)
  BY Zenon, <1>4, <1>6 DEF Injective
<1> QED BY Zenon, <1>2, <1>4, <1>5, <1>7 DEF n

(* The chain a node list gives: HEAD does not depend on the replica factor, *)
(* the targets are distinct members of the list.                            *)
LEMMA ChainOf ==
  ASSUME NEW V, V \subseteq Nat, V # {}, IsFiniteSet(V), NEW list \in ListNodeHTTPAddrs(V),
         NEW hash \in Nat, NEW rf \in Nat
  PROVE  LET c == ChainFor(list, hash, rf)
         IN  /\ list # <<>>
             /\ Len(c) = EffectiveRF(Cardinality(V), rf)
             /\ Head_(c) = TargetNode(sort(list), hash % Cardinality(V), 0)
             /\ Injective(c) /\ ToSet(c) \subseteq V
<1> DEFINE n == Cardinality(V)  s == sort(list)  i == hash % n  c == Chain(s, i, rf)
<1>1. Ascends(s, n, V)
  BY Zenon, SortAscends
<1>2. s \in Seq(Nat) /\ s # <<>> /\ Len(s) = n /\ Injective(s) /\ n # 0 /\ n \in Nat
  BY Zenon, <1>1, SortedList, FS_CardinalityType
<1>3. list # <<>>
  <2>1. list \in [1..n -> V]
    BY Zenon, Orderings
  <2> HIDE DEF n
  <2>2. 1 \in DOMAIN list
    BY <1>2, <2>1
  <2> QED BY <2>2
<1>4. s \in [1..n -> V]
  BY Zenon, <1>1 DEF Ascends
<1>5. ChainFor(list, hash, rf) = c
  BY Zenon, <1>2 DEF ChainFor, SelectChain
<1> HIDE DEF n, s
<1>6. i \in 0..(n - 1) /\ i \in Nat
  BY <1>2
<1> HIDE DEF i
<1>7. /\ EffectiveRF(n, rf) \in 1..n /\ Len(c) = EffectiveRF(n, rf)
      /\ \A j \in 1..EffectiveRF(n, rf) : c[j] = TargetNode(s, i, j - 1)
  BY Zenon, <1>2, <1>6, ChainLen
<1>8. Injective(c)
  BY Zenon, <1>2, <1>6, ChainsHaveDistinctTargets DEF TargetsDistinct
<1>9. Head_(c) = TargetNode(s, i, 0)
  <2>1. 1 \in 1..EffectiveRF(n, rf) /\ 1 - 1 = 0
    BY <1>2, <1>7
  <2> QED BY Zenon, <1>7, <2>1 DEF Head_
<1>10. ASSUME NEW j \in 1..EffectiveRF(n, rf) PROVE c[j] \in V
  <2>1. j - 1 \in 0..(n - 1) /\ n \in Nat \ {0}
    BY <1>2, <1>7
  <2>2. (i + (j - 1)) % n \in 0..(n - 1)
    BY Zenon, <1>6, <2>1, RingSum
  <2>3. ((i + (j - 1)) % n) + 1 \in 1..n
    BY <1>2, <2>2
  <2> QED BY Zenon, <1>2, <1>4, <1>7, <2>3 DEF TargetNode
<1>11. DOMAIN c = 1..EffectiveRF(n, rf)
  BY Zenon, <1>2 DEF Chain
<1>12. ToSet(c) \subseteq V
  BY Zenon, <1>10, <1>11 DEF ToSet
<1> QED BY Zenon, <1>3, <1>5, <1>7, <1>8, <1>9, <1>12 DEF n, s, i

LEMMA ViewList ==
  ASSUME PlacementTypeOK, NEW n \in Node
  PROVE  View(n) \subseteq Nat /\ IsFiniteSet(View(n)) /\ View(n) \subseteq Node
<1>1. applied[n] \in 1..Len(members) /\ members \in Seq(SUBSET Node)
  BY Zenon DEF PlacementTypeOK
<1>2. View(n) \in SUBSET Node
  BY <1>1 DEF View
<1>3. Node \subseteq Nat /\ IsFiniteSet(Node)
  BY Zenon, PlacementOK
<1>4. IsFiniteSet(View(n))
  BY Zenon, <1>2, <1>3, FS_Subset
<1> QED BY Zenon, <1>2, <1>3, <1>4

LEMMA PutReply ==
  ASSUME NEW n, NEW list, list # <<>>, NEW hash
  PROVE  /\ putChunk(n, list, hash).ok <=> Head_(ChainFor(list, hash, ReplicaFactor[n])) = n
         /\ putChunk(n, list, hash).replicas = ChainFor(list, hash, ReplicaFactor[n])
<1> DEFINE c == ChainFor(list, hash, ReplicaFactor[n])
<1>1. putChunk(n, list, hash) = [ok |-> Head_(c) = n, replicas |-> c]
  BY Zenon DEF putChunk
<1> HIDE DEF c
<1>2. /\ [ok |-> Head_(c) = n, replicas |-> c].ok <=> Head_(c) = n
      /\ [ok |-> Head_(c) = n, replicas |-> c].replicas = c
  BY Zenon
<1> QED BY Zenon, <1>1, <1>2 DEF c

LEMMA SameChain == PlacementTypeOK => SameNodesSameChain
<1> SUFFICES ASSUME PlacementTypeOK, NEW hash \in Hash, nodes # {},
                    NEW mine \in ListNodeHTTPAddrs(nodes),
                    NEW n \in ToSet(writeTargetsForChunk(mine, hash)), View(n) = nodes,
                    NEW list \in ListNodeHTTPAddrs(View(n))
             PROVE  /\ putChunk(n, list, hash).ok <=> n = Head_(writeTargetsForChunk(mine, hash))
                    /\ ReplicaFactor[n] = MountRF =>
                         putChunk(n, list, hash).replicas = writeTargetsForChunk(mine, hash)
  BY Zenon DEF SameNodesSameChain
<1>1. /\ nodes \subseteq Nat /\ IsFiniteSet(nodes) /\ nodes \subseteq Node /\ hash \in Nat /\ MountRF \in Nat
      /\ list \in ListNodeHTTPAddrs(nodes)
  <2>1. nodes \subseteq Node /\ Node \subseteq Nat /\ IsFiniteSet(Node) /\ Hash \subseteq Nat /\ MountRF \in Nat
    BY Zenon, PlacementOK DEF PlacementTypeOK
  <2>2. IsFiniteSet(nodes)
    BY Zenon, <2>1, FS_Subset
  <2> QED BY Zenon, <2>1, <2>2
<1> DEFINE targets == ChainFor(mine, hash, MountRF)
           head == TargetNode(sort(mine), hash % Cardinality(nodes), 0)
<1>2. Head_(targets) = head /\ ToSet(targets) \subseteq nodes
  BY Zenon, <1>1, ChainOf
<1>3. n \in Node /\ ReplicaFactor[n] \in Nat
  <2>1. n \in Node
    BY Zenon, <1>1, <1>2 DEF writeTargetsForChunk
  <2> QED BY Zenon, <2>1, PlacementOK
<1>4. sort(list) = sort(mine)
  BY Zenon, <1>1, SortSame
<1>5. list # <<>> /\ Head_(ChainFor(list, hash, ReplicaFactor[n])) = head
  BY Zenon, <1>1, <1>3, <1>4, ChainOf
<1>6. ReplicaFactor[n] = MountRF => ChainFor(list, hash, ReplicaFactor[n]) = targets
  BY Zenon, <1>4 DEF ChainFor
<1> HIDE DEF head
<1> QED BY Zenon, <1>2, <1>5, <1>6, PutReply DEF writeTargetsForChunk

LEMMA AcceptedByHead == PlacementTypeOK => HeadAccepts
<1> SUFFICES ASSUME PlacementTypeOK, NEW n \in Node, NEW hash \in Hash, View(n) # {},
                    NEW list \in ListNodeHTTPAddrs(View(n)), putChunk(n, list, hash).ok
             PROVE  LET c == putChunk(n, list, hash).replicas
                    IN  /\ Head_(c) = n /\ Injective(c) /\ ToSet(c) \subseteq View(n)
                        /\ ReplicaFactor[n] \in 1..Cardinality(View(n)) => Len(c) = ReplicaFactor[n]
  BY Zenon DEF HeadAccepts
<1> DEFINE c == ChainFor(list, hash, ReplicaFactor[n])
           V == View(n)
<1>1. V \subseteq Nat /\ IsFiniteSet(V) /\ hash \in Nat /\ ReplicaFactor[n] \in Nat
  <2>1. V \subseteq Nat /\ IsFiniteSet(V)
    BY Zenon, ViewList
  <2> QED BY Zenon, <2>1, PlacementOK
<1>2. /\ list # <<>> /\ Len(c) = EffectiveRF(Cardinality(V), ReplicaFactor[n])
      /\ Injective(c) /\ ToSet(c) \subseteq V
  BY Zenon, <1>1, ChainOf
<1>3. Head_(c) = n /\ putChunk(n, list, hash).replicas = c
  BY Zenon, <1>2, PutReply
<1>4. ReplicaFactor[n] \in 1..Cardinality(V) => Len(c) = ReplicaFactor[n]
  <2> DEFINE k == Cardinality(V)
  <2>1. k \in Nat
    BY Zenon, <1>1, FS_CardinalityType
  <2> HIDE DEF k
  <2>2. \A r \in Nat : r \in 1..k => EffectiveRF(k, r) = r
    BY <2>1 DEF EffectiveRF
  <2> QED BY Zenon, <1>1, <1>2, <2>2 DEF k
<1> QED BY Zenon, <1>2, <1>3, <1>4

---------------------------------------------------------------------------
(* MountClient.                                                            *)

Url == Node \union {NoNode}
Message == {"", "file exists", "entry not found", "other"}
Errno == {"OK", "EEXIST", "ENOENT", "EIO"}
Reply == [code : Nat, leader : Url, error : Message]
Known == {0} \union {Cardinality(S) : S \in SUBSET Node}

Call == [op : WriteOp \union ReadOp \union {"none"}, at : Url, todo : SUBSET Node,
         redirected : BOOLEAN, resp : [leader : Url, error : Message], errno : Errno,
         pin : Url, known : Known, runs : Nat, commits : Nat]

(* A pinned write has no second node to try, and until it is redirected it *)
(* has been told of no leader: so it goes on only before a handler ran.    *)
Pinned(c) ==
  c.pin # NoNode =>
    /\ c.op \in WriteOp => c.todo = {} /\ (~c.redirected => c.resp.leader = NoNode)
    /\ c.runs = 0

CallInv == call \in Call /\ (Busy => Pinned(call))

---------------------------------------------------------------------------
LEMMA IdleType == Idle \in Call /\ Idle.at = NoNode /\ Idle.runs = 0
BY Zenon DEF Idle, Call, Url, Known, Message, Errno

LEMMA NoReplyType == NoReply \in Reply
BY Zenon DEF NoReply, Reply, Url, Message

LEMMA DecodeType ==
  ASSUME NEW resp \in [leader : Url, error : Message], NEW reply \in Reply
  PROVE  Decode(resp, reply) \in [leader : Url, error : Message]
BY ZenonT(40) DEF Decode, Reply

(* The outcomes of a reply: the call follows the leader it was told of,    *)
(* tries the next node, or ends.                                           *)
Follows(c, resp) ==
  /\ c.op \in WriteOp /\ ~c.redirected /\ resp.leader # NoNode /\ pinned' = resp.leader
  /\ call' = [c EXCEPT !.at = resp.leader, !.redirected = TRUE, !.resp = resp]

TriesNext(c, resp) ==
  /\ UNCHANGED pinned
  /\ \E n \in c.todo :
       call' = [c EXCEPT !.at = n, !.todo = @ \ {n}, !.redirected = FALSE, !.resp = resp]

EndsWith(c, resp, err) ==
  /\ UNCHANGED pinned
  /\ call' = [Idle EXCEPT !.op = c.op, !.errno = errno(c.op, err),
                          !.commits = c.commits, !.resp.error = resp.error]

LEMMA ContinueCases ==
  ASSUME NEW c, NEW reply, Continue(c, reply)
  PROVE  LET resp == Decode(c.resp, reply)
         IN  \/ Follows(c, resp) \/ TriesNext(c, resp)
             \/ EndsWith(c, resp, doPost(resp, reply))
BY Zenon DEF Continue, Follows, TriesNext, EndsWith

LEMMA errnoType == ASSUME NEW op, NEW err PROVE errno(op, err) \in Errno
BY Zenon DEF errno, mapMetaErr, Errno

LEMMA ContinueType ==
  ASSUME MountOK, pinned \in Url, NEW c \in Call, NEW reply \in Reply, Continue(c, reply)
  PROVE  call' \in Call /\ pinned' \in Url
<1> DEFINE resp == Decode(c.resp, reply)
           err == doPost(resp, reply)
<1>1. resp \in [leader : Url, error : Message]
  BY Zenon, DecodeType DEF Call
<1> HIDE DEF resp, err
<1>2. CASE Follows(c, resp)
  BY Zenon, <1>1, <1>2 DEF Follows, Call
<1>3. CASE TriesNext(c, resp)
  <2>1. PICK n \in c.todo :
          call' = [c EXCEPT !.at = n, !.todo = @ \ {n}, !.redirected = FALSE, !.resp = resp]
    BY Zenon, <1>3 DEF TriesNext
  <2>2. n \in Url /\ c.todo \ {n} \in SUBSET Node
    BY Zenon DEF Call, Url
  <2> QED BY ZenonT(40), <1>1, <1>3, <2>1, <2>2 DEF TriesNext, Call
<1>4. CASE EndsWith(c, resp, err)
  <2>1. errno(c.op, err) \in Errno
    BY Zenon, errnoType
  <2> QED BY Zenon, <1>1, <1>4, <2>1, IdleType DEF EndsWith, Call
<1> QED BY SMTT(30), <1>2, <1>3, <1>4, ContinueCases DEF resp, err

(* A pinned call whose handler has not run, or that the reply tells of no  *)
(* leader, keeps to one execution.                                         *)
LEMMA ContinuePinned ==
  ASSUME MountOK, NEW c \in Call, Pinned([c EXCEPT !.runs = 0]), NEW reply \in Reply,
         c.pin # NoNode => c.runs = 0 \/ (c.op \in WriteOp /\ reply.leader = NoNode),
         Continue(c, reply)
  PROVE  call'.at # NoNode => Pinned(call')
<1> DEFINE resp == Decode(c.resp, reply)
           err == doPost(resp, reply)
<1>1. resp \in [leader : Url, error : Message]
  BY Zenon, DecodeType DEF Call
<1>2. c.pin # NoNode /\ ~c.redirected /\ c.runs # 0 => resp.leader = NoNode
  BY Zenon DEF Pinned, Decode, Call
<1>3. c.pin # NoNode /\ c.op \in WriteOp => c.todo = {}
  BY Zenon DEF Pinned, Call
<1> HIDE DEF resp, err
<1>4. CASE Follows(c, resp)
  BY SMTT(30), <1>1, <1>2, <1>3, <1>4 DEF Follows, Call, Pinned
<1>5. CASE TriesNext(c, resp)
  BY <1>1, <1>3, <1>5 DEF TriesNext, Call, Pinned
<1>6. CASE EndsWith(c, resp, err)
  BY Zenon, <1>6, IdleType DEF EndsWith, Call
<1> QED BY SMTT(30), <1>4, <1>5, <1>6, ContinueCases DEF resp, err

(* A write ends with errno 0 only after a reply without an error.          *)
LEMMA ContinueOk ==
  ASSUME MountOK, NEW c \in Call, NEW reply \in Reply, c.op \in WriteOp,
         Continue(c, reply), call'.at = NoNode, call'.errno = "OK"
  PROVE  /\ call'.commits = c.commits
         /\ reply # NoReply /\ reply.code \notin {307, 409} /\ reply.error = ""
<1> DEFINE resp == Decode(c.resp, reply)
           err == doPost(resp, reply)
<1>1. resp \in [leader : Url, error : Message]
  BY Zenon, DecodeType DEF Call
<1>2. EndsWith(c, resp, err)
  <2> HIDE DEF resp, err
  <2>1. ~Follows(c, resp)
    BY Zenon DEF Follows, Call
  <2>2. ~TriesNext(c, resp)
    BY Zenon DEF TriesNext, Call, MountOK
  <2> QED BY Zenon, <2>1, <2>2, ContinueCases DEF resp, err
<1>3. call'.commits = c.commits /\ errno(c.op, err) = "OK"
  BY Zenon, <1>1, <1>2, IdleType DEF EndsWith, Call
<1>4. err = ""
  BY Zenon, <1>1, <1>3 DEF errno, mapMetaErr, WriteOp
<1>5. reply # NoReply /\ reply.code \notin {307, 409} /\ resp.error = ""
  BY ZenonT(40), <1>4 DEF doPost
<1> QED BY Zenon, <1>3, <1>5 DEF Decode, Reply

---------------------------------------------------------------------------
LEMMA ViewType == ASSUME TypeOK, NEW n \in Node PROVE View(n) \subseteq Node
BY DEF TypeOK, PlacementTypeOK, View

LEMMA CurrentType == ASSUME TypeOK PROVE Current \subseteq Node
BY DEF TypeOK, PlacementTypeOK, Current, Last

LEMMA ListNodesType ==
  ASSUME TypeOK, NEW list \in SUBSET Node, NEW answer \in Answers(list) \union {{}}
  PROVE  answer \subseteq Node /\ ListNodes(list, answer) \subseteq Node
BY Zenon, ViewType DEF Answers, ListNodes, TypeOK

LEMMA LeaderType ==
  ASSUME TypeOK, NEW n \in Node, NEW l \in LeaderHTTPAddr(n)
  PROVE  l \in Url
<1>1. leader \in Url /\ former \in Url
  BY Zenon DEF TypeOK, Url
<1> QED BY Zenon, <1>1 DEF LeaderHTTPAddr, Url

LEMMA CommitType ==
  ASSUME TypeOK, NEW view \in SUBSET Node, Commit(view), UNCHANGED <<applied, seeds, nodes>>
  PROVE  PlacementTypeOK'
<1>1. members' \in Seq(SUBSET Node) /\ Len(members') = Len(members) + 1
  BY DEF TypeOK, PlacementTypeOK, Commit
<1>2. applied' \in [Node -> 1..Len(members')]
  BY <1>1 DEF TypeOK, PlacementTypeOK
<1> QED BY <1>1, <1>2 DEF TypeOK, PlacementTypeOK

LEMMA AppliesOneMore ==
  ASSUME PlacementTypeOK, NEW n \in Node, applied[n] < Len(members),
         applied' = [applied EXCEPT ![n] = @ + 1], UNCHANGED <<members, seeds, nodes>>
  PROVE  PlacementTypeOK'
<1>1. applied[n] \in 1..Len(members) /\ Len(members) \in Nat
  BY DEF PlacementTypeOK
<1>2. applied[n] + 1 \in 1..Len(members)
  BY <1>1
<1>3. applied' \in [Node -> 1..Len(members)]
  BY Zenon, <1>2 DEF PlacementTypeOK
<1> QED BY Zenon, <1>3 DEF PlacementTypeOK

(* The steps of the cluster and of the mount's lists leave the call alone. *)
ClusterStep ==
  \/ LoseLeadership \/ Hear \/ Mount \/ RefreshNodes
  \/ \E n \in Node :
       Elect(n) \/ Crash(n) \/ Restart(n) \/ Register(n) \/ Deregister(n) \/ Apply(n)

CallStep == RequestLost \/ Redirect \/ Reject \/ Execute \/ ExecuteDeposed \/ Read

LEMMA NextSplit == Next <=> ClusterStep \/ CallStep \/ \E op \in Op : Begin(op)
BY Zenon DEF Next, Serve, ClusterStep, CallStep

LEMMA ClusterCall == ASSUME ClusterStep PROVE UNCHANGED call
BY Zenon DEF ClusterStep, LoseLeadership, Hear, Mount, RefreshNodes, Elect, Crash, Restart, Register,
       Deregister, Apply

LEMMA MountInit == PlacementOK /\ MountOK /\ Init => TypeOK /\ CallInv
<1> SUFFICES ASSUME PlacementOK, MountOK, Init PROVE TypeOK /\ CallInv
  OBVIOUS
<1>1. PlacementTypeOK
  <2>1. members \in Seq(SUBSET Node) /\ Len(members) = 2
    BY DEF PlacementOK, Init, PlacementInit
  <2>2. applied \in [Node -> 1..2] /\ seeds = {} /\ nodes = {}
    BY DEF Init, PlacementInit
  <2> QED BY SMTT(30), <2>1, <2>2 DEF PlacementTypeOK
<1>2. TypeOK
  <2>1. up = Node /\ leader \in up \union {NoNode} /\ former = NoNode /\ settled \in BOOLEAN
    BY Zenon DEF Init, PlacementOK
  <2>2. metaNodes = {} /\ pinned = NoNode /\ call.at = NoNode /\ call.todo = {}
    BY Zenon DEF Init, Idle
  <2>3. bound \in Bounds /\ bound.faults \in Nat /\ faults = 0
    BY DEF Init, MountOK
  <2> QED BY <1>1, <2>1, <2>2, <2>3 DEF TypeOK
<1> QED BY Zenon, <1>2, IdleType DEF Init, CallInv, Busy

---------------------------------------------------------------------------
LEMMA ClusterType ==
  ASSUME PlacementOK, MountOK, TypeOK, ClusterStep
  PROVE  TypeOK'
<1> USE DEF TypeOK
<1>1. faults \in Nat /\ bound.faults \in Nat
  BY DEF MountOK
<1>2. CASE LoseLeadership
  <2>1. PlacementTypeOK'
    BY Zenon, <1>2 DEF LoseLeadership, mountVars, PlacementTypeOK
  <2>2. leader' \in up' \union {NoNode} /\ former' \in Node \union {NoNode} /\ settled' \in BOOLEAN
    BY Zenon, <1>2 DEF LoseLeadership, Depose
  <2> QED BY SMTT(30), <1>1, <1>2, <2>1, <2>2 DEF LoseLeadership, Fault, mountVars
<1>3. CASE Hear
  BY Zenon, <1>3 DEF Hear, mountVars, PlacementTypeOK
<1>4. CASE Mount
  <2>1. ToSet(Urls) \in SUBSET Node /\ Urls[1] \in Node
    BY DEF MountOK, ToSet
  <2>2. pinned' \in Node \union {NoNode}
    BY Zenon, <1>4, <2>1, LeaderType DEF Mount, Url
  <2>3. PICK first \in Answers(ToSet(Urls)) \union {{}} :
          /\ seeds' = ListNodes(ToSet(Urls), first)
          /\ \E second \in Answers(seeds') \union {{}} :
               /\ metaNodes' = ListNodes(seeds', second)
               /\ nodes' = mergeNodeURLs(seeds', second)
    BY Zenon, <1>4 DEF Mount
  <2>4. seeds' \in SUBSET Node
    BY Zenon, <2>1, <2>3, ListNodesType
  <2>5. metaNodes' \subseteq Node /\ nodes' \subseteq Node
    BY SMTT(30), <2>3, <2>4, ListNodesType DEF mergeNodeURLs
  <2> QED BY SMTT(30), <1>4, <2>2, <2>4, <2>5 DEF Mount, leadVars, PlacementTypeOK
<1>5. CASE RefreshNodes
  <2>1. metaNodes' \subseteq Node /\ nodes' \subseteq Node
    BY Zenon, <1>5, ListNodesType DEF RefreshNodes, mergeNodeURLs, PlacementTypeOK
  <2> QED BY SMTT(30), <1>5, <2>1 DEF RefreshNodes, leadVars, PlacementTypeOK
<1>6. ASSUME NEW n \in Node, Elect(n) PROVE TypeOK'
  BY Zenon, <1>6 DEF Elect, mountVars, PlacementTypeOK
<1>7. ASSUME NEW n \in Node, Crash(n) PROVE TypeOK'
  <2>1. PlacementTypeOK'
    BY SMTT(30), <1>7 DEF Crash, mountVars, PlacementTypeOK
  <2>2. leader' \in up' \union {NoNode} /\ former' \in Node \union {NoNode} /\ settled' \in BOOLEAN
    BY Zenon, <1>7 DEF Crash, Depose, leadVars
  <2> QED BY SMTT(30), <1>1, <1>7, <2>1, <2>2 DEF Crash, Fault, mountVars
<1>8. ASSUME NEW n \in Node, Restart(n) PROVE TypeOK'
  <2>1. applied' \in [Node -> 1..Len(members')] /\ UNCHANGED members
    BY <1>8 DEF Restart, PlacementTypeOK
  <2> QED BY Zenon, <1>8, <2>1 DEF Restart, leadVars, mountVars, PlacementTypeOK
<1>9. ASSUME NEW n \in Node, Register(n) PROVE TypeOK'
  <2>1. PlacementTypeOK'
    BY SMTT(30), <1>9, CurrentType, CommitType DEF Register, mountVars
  <2> QED BY SMTT(30), <1>9, <2>1 DEF Register, leadVars, mountVars
<1>10. ASSUME NEW n \in Node, Deregister(n) PROVE TypeOK'
  <2>1. PlacementTypeOK'
    BY SMTT(30), <1>10, CurrentType, CommitType DEF Deregister, mountVars
  <2> QED BY Zenon, <1>10, <2>1 DEF Deregister, Depose, leadVars, mountVars
<1>11. ASSUME NEW n \in Node, Apply(n) PROVE TypeOK'
  <2>1. PlacementTypeOK'
    <3>1. applied' = [applied EXCEPT ![n] = @ + 1] /\ applied[n] < Len(members)
          /\ UNCHANGED <<members, seeds, nodes>>
      BY Zenon, <1>11 DEF Apply, ApplyNext
    <3> QED BY ZenonT(40), <3>1, AppliesOneMore DEF TypeOK
  <2> QED BY SMTT(30), <1>11, <2>1 DEF Apply, ApplyNext, leadVars
<1> QED
  BY SMTT(30), <1>2, <1>3, <1>4, <1>5, <1>6, <1>7, <1>8, <1>9, <1>10, <1>11 DEF ClusterStep

---------------------------------------------------------------------------
(* What every step of a call in progress has in common: the client goes on *)
(* from c with a reply, or with none.                                      *)
GoesOn(c, reply) ==
  /\ c \in Call /\ reply \in Reply /\ Continue(c, reply)
  /\ c.op = call.op /\ Pinned([c EXCEPT !.runs = 0])
  /\ c.pin # NoNode => c.runs = 0 \/ (c.op \in WriteOp /\ reply.leader = NoNode)
  /\ c.op \in WriteOp =>
       c.commits >= 1 \/ reply = NoReply \/ reply.code \in {307, 409} \/ reply.error # ""

LEMMA CallGoesOn ==
  ASSUME MountOK, TypeOK, CallInv, CallStep
  PROVE  \E c, reply : GoesOn(c, reply)
<1>1. Busy /\ call \in Call /\ Pinned(call) /\ call.at \in Node
  BY Zenon DEF CallStep, RequestLost, Redirect, Reject, Execute, ExecuteDeposed, Read, CallInv, Busy, TypeOK
<1>2. Running \in Call /\ Running.op = call.op /\ Running.pin = call.pin
  BY SMTT(30), <1>1 DEF Running, Call
<1>3. Committed \in Call /\ Committed.op = call.op /\ Committed.pin = call.pin
      /\ Committed.commits >= 1
  <2>1. Running.commits = call.commits /\ call.commits \in Nat
    BY <1>1 DEF Running, Call
  <2> QED BY SMTT(30), <1>2, <2>1 DEF Committed, Call
<1>4. Pinned([call EXCEPT !.runs = 0]) /\ Pinned([Running EXCEPT !.runs = 0])
      /\ Pinned([Committed EXCEPT !.runs = 0])
  <2>1. ASSUME NEW c \in Call, c.pin = call.pin, c.op = call.op, c.todo = call.todo,
               c.redirected = call.redirected, c.resp = call.resp
        PROVE  Pinned([c EXCEPT !.runs = 0])
    BY Zenon, <1>1, <2>1 DEF Call, Pinned
  <2>2. /\ Running.todo = call.todo /\ Running.redirected = call.redirected /\ Running.resp = call.resp
    BY Zenon, <1>1 DEF Running, Call
  <2>3. /\ Committed.todo = call.todo /\ Committed.redirected = call.redirected
        /\ Committed.resp = call.resp
    BY Zenon, <1>2, <2>2 DEF Committed, Call
  <2> QED BY SMTT(30), <1>1, <1>2, <1>3, <2>1, <2>2, <2>3
<1>5. ASSUME NEW err \in Message PROVE ErrorReply(err) \in Reply /\ ErrorReply(err).leader = NoNode
                                       /\ ErrorReply(err).error = err
  BY DEF ErrorReply, ErrorCode, Reply, Url
<1>6. NoReply \in Reply /\ NoReply.leader = NoNode
  BY Zenon, NoReplyType DEF NoReply
<1>7. CASE RequestLost
  <2>1. GoesOn(call, NoReply)
    BY SMTT(30), <1>1, <1>4, <1>6, <1>7 DEF RequestLost, GoesOn, Pinned
  <2> QED BY Zenon, <2>1
<1>8. CASE Redirect
  <2>1. PICK l \in LeaderHTTPAddr(call.at) :
          Deliver(call, [code |-> 307, leader |-> l, error |-> ""])
    BY Zenon, <1>8 DEF Redirect
  <2> DEFINE reply == [code |-> 307, leader |-> l, error |-> ""]
  <2>2. reply \in Reply /\ reply.code = 307
    BY <1>1, LeaderType DEF Reply, Message
  <2> HIDE DEF reply
  <2>3. GoesOn(call, reply) \/ GoesOn(call, NoReply)
    BY Zenon, <1>1, <1>4, <1>6, <2>1, <2>2 DEF Deliver, GoesOn, Pinned, reply
  <2> QED BY Zenon, <2>3
<1>9. CASE Reject
  <2>1. PICK err \in {"file exists", "entry not found", "other"} : Deliver(Running, ErrorReply(err))
    BY Zenon, <1>9 DEF Reject
  <2>2. call.op \in WriteOp /\ err \in Message /\ err # ""
    BY Zenon, <1>9 DEF Reject, Message
  <2>3. GoesOn(Running, ErrorReply(err)) \/ GoesOn(Running, NoReply)
    BY ZenonT(40), <1>2, <1>4, <1>5, <1>6, <2>1, <2>2 DEF Deliver, GoesOn
  <2> QED BY Zenon, <2>3
<1>10. CASE Execute
  <2> DEFINE reply == [code |-> 200, leader |-> NoNode, error |-> ""]
  <2>1. reply \in Reply /\ reply.leader = NoNode
    BY DEF Reply, Url, Message
  <2>2. call.op \in WriteOp /\ Deliver(Committed, reply)
    BY Zenon, <1>10 DEF Execute
  <2> HIDE DEF reply
  <2>3. GoesOn(Committed, reply) \/ GoesOn(Committed, NoReply)
    BY ZenonT(40), <1>3, <1>4, <1>6, <2>1, <2>2 DEF Deliver, GoesOn
  <2> QED BY Zenon, <2>3
<1>11. CASE ExecuteDeposed
  <2>1. PICK c \in {Running, Committed} : Continue(c, ErrorReply("other"))
    BY Zenon, <1>11 DEF ExecuteDeposed
  <2>2. call.op \in WriteOp /\ "other" \in Message
    BY Zenon, <1>11 DEF ExecuteDeposed, Message
  <2>3. GoesOn(c, ErrorReply("other"))
    BY ZenonT(40), <1>2, <1>3, <1>4, <1>5, <2>1, <2>2 DEF GoesOn
  <2> QED BY Zenon, <2>3
<1>12. CASE Read
  <2> DEFINE ok == [code |-> 200, leader |-> NoNode, error |-> ""]
  <2>1. ok \in Reply /\ "entry not found" \in Message
    BY DEF Reply, Url, Message
  <2>2. PICK reply \in {ok, ErrorReply("entry not found")} : Deliver(call, reply)
    BY Zenon, <1>12 DEF Read
  <2>3. call.op \notin WriteOp
    BY Zenon, <1>12 DEF Read, WriteOp, ReadOp
  <2>4. reply \in Reply
    BY Zenon, <1>5, <2>1, <2>2
  <2>5. GoesOn(call, reply) \/ GoesOn(call, NoReply)
    BY ZenonT(40), <1>1, <1>4, <1>6, <2>2, <2>3, <2>4 DEF Deliver, GoesOn, Pinned
  <2> QED BY Zenon, <2>5
<1> QED BY SMTT(30), <1>7, <1>8, <1>9, <1>10, <1>11, <1>12 DEF CallStep

LEMMA CallStepType ==
  ASSUME MountOK, TypeOK, CallInv, CallStep
  PROVE  TypeOK' /\ CallInv'
<1>1. PICK c, reply : GoesOn(c, reply)
  BY Zenon, CallGoesOn
<1>2. call' \in Call /\ pinned' \in Url
  BY Zenon, <1>1, ContinueType DEF GoesOn, TypeOK, Url
<1>3. call'.at # NoNode => Pinned(call')
  BY Zenon, <1>1, ContinuePinned DEF GoesOn
<1>4. /\ UNCHANGED <<members, applied, up, seeds, nodes, metaNodes, bound>>
      /\ UNCHANGED leadVars \/ Depose
      /\ UNCHANGED faults \/ Fault
  BY Zenon DEF CallStep, RequestLost, Redirect, Reject, Execute, ExecuteDeposed, Read, Deliver, mountVars
<1>5. PlacementTypeOK'
  BY Zenon, <1>4 DEF TypeOK, PlacementTypeOK
<1>6. leader' \in up' \union {NoNode} /\ former' \in Node \union {NoNode} /\ settled' \in BOOLEAN
  BY Zenon, <1>4 DEF TypeOK, leadVars, Depose
<1>7. faults' \in 0..bound'.faults
  BY <1>4 DEF TypeOK, Fault, MountOK
<1>8. call'.at \in Url /\ call'.todo \subseteq Node
  BY Zenon, <1>2 DEF Call
<1> QED BY SMTT(30), <1>2, <1>3, <1>4, <1>5, <1>6, <1>7, <1>8 DEF TypeOK, CallInv, Busy, Url

LEMMA BeginType ==
  ASSUME MountOK, TypeOK, CallInv, NEW op \in Op, Begin(op)
  PROVE  TypeOK' /\ CallInv'
<1>1. PICK n \in nodeList(op) :
        call' = [Idle EXCEPT !.op = op, !.at = n, !.todo = nodeList(op) \ {n},
                             !.pin = pinned, !.known = Cardinality(metaNodes)]
  BY Zenon DEF Begin
<1>2. nodeList(op) \subseteq Node /\ pinned \in Url /\ op \in WriteOp \union ReadOp
  BY Zenon DEF TypeOK, nodeList, MountOK, Url
<1>3. Cardinality(metaNodes) \in Known
  BY Zenon DEF TypeOK, Known
<1>4. call' \in Call
  BY Zenon, <1>1, <1>2, <1>3, IdleType DEF Call, Url
<1>5. /\ call'.op = op /\ call'.at = n /\ call'.todo = nodeList(op) \ {n} /\ call'.pin = pinned
      /\ call'.runs = 0 /\ call'.resp.leader = NoNode
  BY Zenon, <1>1, IdleType DEF Idle
<1>6. Pinned(call')
  BY Zenon, <1>5 DEF Pinned, nodeList
<1> QED BY SMTT(30), <1>2, <1>4, <1>5, <1>6
        DEF Begin, TypeOK, CallInv, leadVars, mountVars, PlacementTypeOK

LEMMA MountStep == PlacementOK /\ MountOK /\ TypeOK /\ CallInv /\ [Next]_vars => TypeOK' /\ CallInv'
<1> SUFFICES ASSUME PlacementOK, MountOK, TypeOK, CallInv, [Next]_vars PROVE TypeOK' /\ CallInv'
  OBVIOUS
<1>1. CASE ClusterStep
  BY SMTT(30), <1>1, ClusterType, ClusterCall DEF CallInv, Busy, Pinned
<1>2. CASE UNCHANGED vars
  BY Zenon, <1>2 DEF vars, leadVars, mountVars, TypeOK, PlacementTypeOK, CallInv, Busy, Pinned
<1> QED BY SMTT(30), <1>1, <1>2, NextSplit, CallStepType, BeginType

(* Every variable of the mount and of the cluster keeps its type: lists    *)
(* and pins hold nodes, a node's applied index stays within the log, and a *)
(* leader is running.                                                      *)
THEOREM MountTypeCorrect == Spec => []TypeOK
BY MountInit, MountStep, PlacementOK, MountOK, PTL DEF Spec

(* A call that starts with a pinned leader is never executed twice, with   *)
(* any number of nodes, faults and leaders (client/meta.go:206-256).       *)
THEOREM PinnedCallsRunOnce == Spec => []AtMostOnce
<1>1. CallInv => AtMostOnce
  BY Zenon DEF CallInv, Pinned, AtMostOnce
<1> QED BY <1>1, MountInit, MountStep, PlacementOK, MountOK, PTL DEF Spec

(* A FUSE operation that returns 0 has been committed by some leader, for  *)
(* any number of lost messages, redirects and replies decoded into the     *)
(* same response (client/meta.go:235-256, 290-328).                        *)
THEOREM SuccessMeansCommitted == Spec => SuccessCommitted
<1> DEFINE Step == Busy /\ call'.at = NoNode /\ call.op \in WriteOp /\ call'.errno = "OK" =>
                     call'.commits >= 1
<1>1. MountOK /\ TypeOK /\ CallInv /\ [Next]_vars => [Step]_vars
  <2> SUFFICES ASSUME MountOK, TypeOK, CallInv, [Next]_vars, Busy, call'.at = NoNode,
                      call.op \in WriteOp, call'.errno = "OK"
               PROVE  call'.commits >= 1
    OBVIOUS
  <2>1. CallStep
    <3>1. call' # call
      BY Zenon DEF Busy
    <3>2. ~ClusterStep /\ ~UNCHANGED vars
      BY Zenon, <3>1, ClusterCall DEF vars
    <3>3. \A op \in Op : ~Begin(op)
      BY Zenon DEF Begin
    <3> QED BY SMTT(30), <3>2, <3>3, NextSplit
  <2>2. PICK c, reply : GoesOn(c, reply)
    BY SMTT(30), <2>1, CallGoesOn
  <2>3. /\ call'.commits = c.commits
        /\ reply # NoReply /\ reply.code \notin {307, 409} /\ reply.error = ""
    <3>1. c \in Call /\ reply \in Reply /\ c.op \in WriteOp /\ Continue(c, reply)
      BY Zenon, <2>2 DEF GoesOn
    <3> QED BY <3>1, MountOK, ContinueOk, ZenonT(60)
  <2> QED BY Zenon, <2>2, <2>3 DEF GoesOn
<1> QED BY <1>1, MountInit, MountStep, PlacementOK, MountOK, PTL DEF Spec, SuccessCommitted

(* A mount and a node with the same members agree on HEAD whatever order   *)
(* their maps come in, on the chain if their replica factors are equal,    *)
(* and a node accepts a write only as HEAD of distinct targets from its    *)
(* own list (chain.go:83, service.go:232).                                 *)
THEOREM RoutingCorrect == Spec => []RoutingAgrees
<1>1. TypeOK => RoutingAgrees
  BY Zenon, SameChain, AcceptedByHead DEF TypeOK, RoutingAgrees
<1> QED BY <1>1, MountTypeCorrect, PTL
=============================================================================
