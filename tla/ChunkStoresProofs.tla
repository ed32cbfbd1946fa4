------------------------- MODULE ChunkStoresProofs -------------------------
(***************************************************************************)
(* Proofs about ChunkStores, for every set of chunks and payloads, every   *)
(* quota, and any number of puts, deletions and kills.                     *)
(***************************************************************************)
EXTENDS ChunkStores, Induction, TLAPS

---------------------------------------------------------------------------
(* The total of what the chunks hold, and the largest payload.             *)

Pick == [s \in SUBSET Chunk |-> CHOOSE x \in s : TRUE]

LEMMA PickOK == IsFiniteSet(Chunk) /\ Picks(Pick, Chunk)
<1>1. IsFiniteSet(Chunk)
  BY Zenon, StoreConstants
<1>2. Picks(Pick, Chunk)
  BY DEF Picks, Pick
<1> QED BY <1>1, <1>2

(* Total is a sum in the sense of Adds.                                    *)
LEMMA TotalAdds ==
  ASSUME NEW held
  PROVE  \E g : Adds(g, held, Pick, Chunk) /\ Total(held) = g[Chunk]
<1> DEFINE F(i) == [s \in SUBSET Chunk |-> IF s = {} THEN 0
                      ELSE LET x == CHOOSE x \in s : TRUE IN held[x] + i[s \ {x}]]
           iter == CHOOSE i : i = F(i)
<1>1. Total(held) = iter[Chunk]
  BY DEF Total, MapThenSumSet, MapThenFoldSet
<1>2. \A i : F(i) = [s \in SUBSET Chunk |->
                       IF s = {} THEN 0 ELSE held[Pick[s]] + i[s \ {Pick[s]}]]
  <2>1. \A s \in SUBSET Chunk : Pick[s] = CHOOSE x \in s : TRUE
    BY Zenon DEF Pick
  <2> QED BY Zenon, <2>1
<1>3. \E i : i = F(i)
  <2>1. \E i : Adds(i, held, Pick, Chunk)
    BY Zenon, PickOK, SumExists
  <2>2. PICK i : Adds(i, held, Pick, Chunk)
    BY Zenon, <2>1
  <2>3. i = F(i)
    <3>1. F(i) = [s \in SUBSET Chunk |->
                    IF s = {} THEN 0 ELSE held[Pick[s]] + i[s \ {Pick[s]}]]
      BY Zenon, <1>2
    <3> HIDE DEF F
    <3> QED BY Zenon, <2>2, <3>1 DEF Adds
  <2> HIDE DEF F
  <2> QED BY Zenon, <2>3
<1>4. iter = F(iter)
  <2> HIDE DEF F
  <2> QED BY Zenon, <1>3
<1>5. Adds(iter, held, Pick, Chunk)
  <2> HIDE DEF iter
  <2>1. F(iter) = [s \in SUBSET Chunk |->
                       IF s = {} THEN 0 ELSE held[Pick[s]] + iter[s \ {Pick[s]}]]
    BY Zenon, <1>2
  <2> HIDE DEF F
  <2> QED BY Zenon, <1>4, <2>1 DEF Adds
<1> HIDE DEF iter
<1> QED BY Zenon, <1>1, <1>5

LEMMA TotalInt ==
  ASSUME NEW f \in [Chunk -> Int]
  PROVE  Total(f) \in Int
<1>1. PICK g : Adds(g, f, Pick, Chunk) /\ Total(f) = g[Chunk]
  BY Zenon, TotalAdds
<1>2. g \in [SUBSET Chunk -> Int]
  BY Zenon, <1>1, PickOK, SumType
<1> QED BY <1>1, <1>2

(* Where f exceeds e by no more than b, and only within T, its total       *)
(* exceeds that of e by no more than b for each element of T.              *)
LEMMA TotalCompare ==
  ASSUME NEW f \in [Chunk -> Int], NEW e \in [Chunk -> Int], NEW T \in SUBSET Chunk, NEW b \in Nat,
         \A x \in Chunk : f[x] <= e[x] + (IF x \in T THEN b ELSE 0)
  PROVE  Total(f) <= Total(e) + b * Cardinality(T)
<1>1. PICK g : Adds(g, f, Pick, Chunk) /\ Total(f) = g[Chunk]
  BY Zenon, TotalAdds
<1>2. PICK h : Adds(h, e, Pick, Chunk) /\ Total(e) = h[Chunk]
  BY Zenon, TotalAdds
<1>3. \A s \in SUBSET Chunk : g[s] <= h[s] + b * Cardinality(s \cap T)
  BY Zenon, <1>1, <1>2, PickOK, SumCompare
<1>4. Chunk \cap T = T
  OBVIOUS
<1> QED BY Zenon, <1>1, <1>2, <1>3, <1>4, Chunk \in SUBSET Chunk

LEMMA TotalMonotone ==
  ASSUME NEW f \in [Chunk -> Int], NEW e \in [Chunk -> Int], \A x \in Chunk : f[x] <= e[x]
  PROVE  Total(f) <= Total(e)
<1>1. \A x \in Chunk : f[x] <= e[x] + (IF x \in {} THEN 0 ELSE 0)
  OBVIOUS
<1>2. Total(f) <= Total(e) + 0 * Cardinality({})
  BY <1>1, TotalCompare, {} \in SUBSET Chunk, 0 \in Nat
<1> QED BY <1>2, TotalInt, FS_EmptySet

LEMMA TotalUpdate ==
  ASSUME NEW f \in [Chunk -> Int], NEW c \in Chunk, NEW d \in Int
  PROVE  Total([f EXCEPT ![c] = d]) = Total(f) - f[c] + d
<1> DEFINE e == [f EXCEPT ![c] = d]
           r == Chunk \ {c}
<1>0. e \in [Chunk -> Int]
  OBVIOUS
<1> HIDE DEF e
<1>1. PICK g : Adds(g, f, Pick, Chunk) /\ Total(f) = g[Chunk]
  BY Zenon, TotalAdds
<1>2. PICK h : Adds(h, e, Pick, Chunk) /\ Total(e) = h[Chunk]
  BY Zenon, TotalAdds
<1>3. r \in SUBSET Chunk /\ c \in Chunk \ r /\ r \cup {c} = Chunk
  OBVIOUS
<1>4. Additive(g, f, Chunk) /\ Additive(h, e, Chunk)
  BY Zenon, <1>0, <1>1, <1>2, PickOK, SumAdds
<1>5. g[Chunk] = f[c] + g[r] /\ h[Chunk] = e[c] + h[r]
  <2> HIDE DEF r
  <2> QED BY Zenon, <1>3, <1>4 DEF Additive
<1>6. g \in [SUBSET Chunk -> Int] /\ h \in [SUBSET Chunk -> Int]
  BY Zenon, <1>0, <1>1, <1>2, PickOK, SumType
<1>7. g[r] = h[r]
  <2> DEFINE b == IF f[c] > d THEN f[c] - d ELSE d - f[c]
  <2>1. /\ b \in Nat
        /\ \A x \in Chunk : f[x] <= e[x] + (IF x \in {c} THEN b ELSE 0)
        /\ \A x \in Chunk : e[x] <= f[x] + (IF x \in {c} THEN b ELSE 0)
    BY DEF e
  <2> HIDE DEF b
  <2>2. \A s \in SUBSET Chunk : g[s] <= h[s] + b * Cardinality(s \cap {c})
    BY Zenon, <1>0, <1>1, <1>2, <2>1, PickOK, SumCompare
  <2>3. \A s \in SUBSET Chunk : h[s] <= g[s] + b * Cardinality(s \cap {c})
    BY Zenon, <1>0, <1>1, <1>2, <2>1, PickOK, SumCompare
  <2>4. r \cap {c} = {} /\ Cardinality({}) = 0 /\ b * 0 = 0
    BY <2>1, FS_EmptySet
  <2>5. g[r] <= h[r] + 0 /\ h[r] <= g[r] + 0
    BY Zenon, <1>3, <2>2, <2>3, <2>4
  <2>6. g[r] \in Int /\ h[r] \in Int
    BY <1>3, <1>6
  <2> QED BY <2>5, <2>6
<1>8. e[c] = d /\ g[r] \in Int /\ f[c] \in Int
  BY <1>3, <1>6 DEF e
<1>9. Total(e) = Total(f) - f[c] + d
  BY <1>1, <1>2, <1>5, <1>7, <1>8
<1> QED BY <1>9 DEF e

LEMMA TotalZero ==
  ASSUME NEW z \in [Chunk -> Int], \A c \in Chunk : z[c] = 0
  PROVE  Total(z) = 0
<1>1. PICK g : Adds(g, z, Pick, Chunk) /\ Total(z) = g[Chunk]
  BY Zenon, TotalAdds
<1>2. Additive(g, z, Chunk)
  BY Zenon, <1>1, PickOK, SumAdds
<1>3. g[{}] = 0
  BY Zenon, <1>1, {} \in SUBSET Chunk DEF Adds
<1> DEFINE P == {s \in SUBSET Chunk : g[s] = 0}
<1>4. {} \in P
  BY <1>3
<1>5. ASSUME NEW s \in SUBSET Chunk, NEW x \in Chunk \ s, s \in P PROVE s \cup {x} \in P
  <2>1. g[s \cup {x}] = z[x] + g[s]
    BY Zenon, <1>2 DEF Additive
  <2>2. z[x] = 0 /\ g[s] = 0
    BY <1>5
  <2> QED BY <2>1, <2>2
<1>6. SUBSET Chunk \subseteq P
  <2> HIDE DEF P
  <2> QED BY Zenon, <1>4, <1>5, PickOK, SetInduct
<1> QED BY <1>1, <1>6

LEMMA TotalNat ==
  ASSUME NEW f \in [Chunk -> Nat]
  PROVE  Total(f) \in Nat
<1> DEFINE z == [c \in Chunk |-> 0]
<1>1. /\ z \in [Chunk -> Int] /\ f \in [Chunk -> Int] /\ \A c \in Chunk : z[c] <= f[c]
      /\ \A c \in Chunk : z[c] = 0
  OBVIOUS
<1> HIDE DEF z
<1>2. Total(z) <= Total(f) /\ Total(f) \in Int /\ Total(z) = 0
  BY Zenon, <1>1, TotalMonotone, TotalInt, TotalZero
<1> QED BY <1>2

---------------------------------------------------------------------------
LEMMA MaxPair ==
  ASSUME NEW a \in Nat, NEW b \in Nat
  PROVE  Max({a, b}) \in Nat /\ Max({a, b}) >= a /\ Max({a, b}) >= b
<1>1. \E x \in {a, b} : \A y \in {a, b} : x >= y
  BY a >= b \/ b >= a
<1> QED BY <1>1 DEF Max

LEMMA LargestLength ==
  /\ Max(Length) \in Nat
  /\ \A l \in Length : l \in Nat /\ l <= Max(Length)
<1>1. IsFiniteSet(Length) /\ Length # {} /\ Length \subseteq Nat
  BY StoreConstants
<1> DEFINE P == {S \in SUBSET Length : S # {} => \E x \in S : \A y \in S : x >= y}
<1>2. {} \in P
  OBVIOUS
<1>3. ASSUME NEW S \in SUBSET Length, NEW x \in Length \ S, S \in P PROVE S \cup {x} \in P
  <2>1. CASE S = {}
    BY <1>1, <2>1
  <2>2. CASE S # {}
    <3>1. PICK m \in S : \A y \in S : m >= y
      BY <1>3, <2>2
    <3>2. CASE m >= x
      BY <1>1, <3>1, <3>2
    <3>3. CASE x >= m
      BY <1>1, <3>1, <3>3
    <3> QED BY <1>1, <3>2, <3>3
  <2> QED BY <2>1, <2>2
<1>4. SUBSET Length \subseteq P
  <2> HIDE DEF P
  <2> QED BY Zenon, <1>1, <1>2, <1>3, SetInduct
<1>5. \E x \in Length : \A y \in Length : x >= y
  BY <1>1, <1>4
<1>6. Max(Length) \in Length /\ \A y \in Length : Max(Length) >= y
  BY Zenon, <1>5 DEF Max
<1> QED BY Zenon, <1>1, <1>6

LEMMA TimesMonotone ==
  ASSUME NEW a \in Nat, NEW b \in Nat, NEW k \in Nat, a <= b
  PROVE  k * a <= k * b /\ k * a \in Nat /\ k * b = b * k
<1>1. PICK d \in Nat : b = a + d
  BY b - a \in Nat, b = a + (b - a)
<1>2. k * (a + d) = k * a + k * d /\ k * d \in Nat /\ k * a \in Nat
  OBVIOUS
<1>3. k * b = b * k
  OBVIOUS
<1> QED BY <1>1, <1>2, <1>3

---------------------------------------------------------------------------
StoreOK == Length \subseteq Nat \ {0} /\ NoChunk \notin Chunk

LEMMA StoreAssumed == StoreOK
BY Zenon, StoreConstants DEF StoreOK

Locked == {"write", "rename"}
Content == Length \union {Absent, Torn}
PutSteps == {"idle", "usage", "old", "check", "store", "return"} \union Locked

FlushType == [step : {"idle", "walk"}, todo : SUBSET Chunk, owed : SUBSET Chunk]
PutType == [step : PutSteps, data : Length \union {Absent}, used : Nat, old : Int]

(* A Put and what it has done so far.                                      *)
PutInv(c) ==
  /\ put[c].step = "idle" => put[c] = NoPut
  /\ put[c].step \notin {"idle", "return"} => put[c].data \in Length
  /\ put[c].step \in Locked <=> mu = c
  /\ put[c].step = "rename" => tmp[c] = put[c].data
  /\ put[c].step = "return" => chunks[c] = put[c].data

(* A stored chunk and what was acknowledged of it.                         *)
ChunkInv(c) ==
  /\ chunks[c] \in Length \union {Absent}
  /\ acked[c] # Absent => chunks[c] # Absent
  /\ kills = 0 /\ put[c].step # "return" => chunks[c] = acked[c]

(* What a Flush owes is there, and synced or still to be visited.          *)
FlushInv ==
  flush.step = "walk" => \A c \in flush.owed : chunks[c] # Absent /\ c \in flush.todo \union durable

StoreTypes ==
  /\ put \in [Chunk -> PutType]
  /\ chunks \in [Chunk -> Int] /\ tmp \in [Chunk -> Content] /\ acked \in [Chunk -> Int]
  /\ mu \in Chunk \union {NoChunk} /\ durable \subseteq Chunk /\ kills \in Nat
  /\ flush \in FlushType

StoreInv == StoreTypes /\ (\A c \in Chunk : PutInv(c) /\ ChunkInv(c)) /\ FlushInv

---------------------------------------------------------------------------
LEMMA NoPutType ==
  NoPut \in PutType
  /\ NoPut.step = "idle"
BY DEF NoPut, PutType, PutSteps

LEMMA NoFlushType ==
  NoFlush \in FlushType
  /\ NoFlush.step = "idle"
BY DEF NoFlush, FlushType

LEMMA StoreInvInit == StoreOK /\ StoreInit => StoreInv
<1> SUFFICES ASSUME StoreOK, StoreInit PROVE StoreInv
  OBVIOUS
<1>1. StoreTypes
  BY NoPutType, NoFlushType DEF StoreInit, StoreTypes, Absent, Content
<1>2. \A c \in Chunk : PutInv(c) /\ ChunkInv(c)
  BY NoPutType DEF StoreInit, PutInv, ChunkInv, StoreOK, Locked
<1> QED BY <1>1, <1>2, NoFlushType DEF StoreInit, StoreInv, FlushInv

(* The steps of a Put of chunk c that leave the stored chunks alone.       *)
LEMMA BeforeStoring ==
  ASSUME StoreOK, StoreInv, NEW c \in Chunk,
         UNCHANGED <<chunks, acked, flush, durable, kills>>,
         put' \in [Chunk -> PutType],
         tmp' \in [Chunk -> Content], mu' \in Chunk \union {NoChunk},
         \A e \in Chunk \ {c} : put'[e] = put[e] /\ tmp'[e] = tmp[e] /\ (mu' = e <=> mu = e),
         put[c].step # "return", put'[c].step # "return", PutInv(c)'
  PROVE  StoreInv'
<1>1. StoreTypes'
  BY DEF StoreInv, StoreTypes
<1>2. ASSUME NEW e \in Chunk PROVE PutInv(e)' /\ ChunkInv(e)'
  <2>1. CASE e = c
    BY <2>1 DEF StoreInv, ChunkInv
  <2>2. CASE e # c
    BY <2>2 DEF StoreInv, PutInv, ChunkInv
  <2> QED BY <2>1, <2>2
<1>3. FlushInv'
  BY DEF StoreInv, FlushInv
<1> QED BY <1>1, <1>2, <1>3 DEF StoreInv

(* The steps that store or delete chunk c, and start over with its sync.   *)
LEMMA Storing ==
  ASSUME StoreOK, StoreInv, NEW c \in Chunk, UNCHANGED kills,
         put' \in [Chunk -> PutType], chunks' \in [Chunk -> Int], tmp' \in [Chunk -> Content],
         acked' \in [Chunk -> Int], mu' \in Chunk \union {NoChunk},
         \A e \in Chunk \ {c} : /\ put'[e] = put[e] /\ tmp'[e] = tmp[e] /\ (mu' = e <=> mu = e)
                                /\ chunks'[e] = chunks[e] /\ acked'[e] = acked[e],
         PutInv(c)', ChunkInv(c)',
         \/ chunks'[c] # Absent /\ UNCHANGED <<durable, flush>>
         \/ durable' = durable \ {c} /\ flush' = [flush EXCEPT !.owed = @ \ {c}]
  PROVE  StoreInv'
<1>1. StoreTypes'
  BY DEF StoreInv, StoreTypes, FlushType
<1>2. ASSUME NEW e \in Chunk PROVE PutInv(e)' /\ ChunkInv(e)'
  <2>1. CASE e # c
    BY <2>1 DEF StoreInv, PutInv, ChunkInv
  <2> QED BY <2>1
<1>3. FlushInv'
  BY DEF StoreInv, FlushInv, StoreTypes, FlushType
<1> QED BY <1>1, <1>2, <1>3 DEF StoreInv

LEMMA PutKeeps ==
  ASSUME StoreOK, StoreInv, NEW c \in Chunk, (\E d \in Length : BeginPut(c, d)) \/ PutStep(c)
  PROVE  StoreInv'
<1> USE DEF PutSteps, Locked
<1>0. /\ PutInv(c) /\ ChunkInv(c) /\ put[c] \in PutType /\ StoreTypes /\ put \in [Chunk -> PutType]
      /\ \A e \in Chunk \ {c} : e # NoChunk /\ e # c
  BY DEF StoreInv, StoreTypes, StoreOK
<1>01. put[c].step \in {"store"} \union Locked => put[c].data \in Length /\ put[c].data \in Int
  <2>1. put[c].step \in {"store"} \union Locked => put[c].data \in Length
    BY <1>0 DEF PutInv
  <2>2. Length \subseteq Int
    BY DEF StoreOK
  <2> QED BY Zenon, <2>1, <2>2
<1>1. ASSUME NEW d \in Length, BeginPut(c, d) PROVE StoreInv'
  <2>1. put'[c].step \in {"usage", "store"} /\ put'[c].data = d /\ put' \in [Chunk -> PutType]
        /\ \A e \in Chunk \ {c} : put'[e] = put[e]
    BY Zenon, <1>0, <1>1, NoPutType DEF BeginPut, PutType, NoPut
  <2>2. put[c].step = "idle"
    BY Zenon, <1>1, NoPutType DEF BeginPut
  <2>3. PutInv(c)'
    BY Zenon, <1>0, <1>1, <2>1, <2>2 DEF BeginPut, PutInv
  <2> QED BY Zenon, <1>0, <1>1, <2>1, <2>2, <2>3, BeforeStoring DEF BeginPut, StoreTypes
<1>2. CASE ReadUsage(c)
  <2>1. UsageBytes \in Nat
    <3>1. chunks \in [Chunk -> Nat]
      BY DEF StoreInv, StoreTypes, ChunkInv, StoreOK, Absent
    <3> QED BY Zenon, <3>1, TotalNat DEF UsageBytes
  <2>2. put'[c].step = "old" /\ put'[c].data = put[c].data /\ put' \in [Chunk -> PutType]
        /\ \A e \in Chunk \ {c} : put'[e] = put[e]
    BY Zenon, <1>0, <1>2, <2>1 DEF ReadUsage, PutType
  <2>3. PutInv(c)'
    BY <1>0, <1>2, <2>2 DEF ReadUsage, PutInv
  <2> QED BY <1>0, <1>2, <2>2, <2>3, BeforeStoring DEF ReadUsage, StoreTypes
<1>3. CASE ReadOld(c)
  <2>2. put'[c].step = "check" /\ put'[c].data = put[c].data /\ put' \in [Chunk -> PutType]
        /\ \A e \in Chunk \ {c} : put'[e] = put[e]
    BY Zenon, <1>0, <1>3 DEF ReadOld, PutType, StoreTypes
  <2>3. PutInv(c)'
    BY <1>0, <1>3, <2>2 DEF ReadOld, PutInv
  <2> QED BY <1>0, <1>3, <2>2, <2>3, BeforeStoring DEF ReadOld, StoreTypes
<1>4. CASE Check(c)
  <2>1. put' \in [Chunk -> PutType] /\ \A e \in Chunk \ {c} : put'[e] = put[e]
    BY <1>0, <1>4, NoPutType DEF Check, Goto, PutType
  <2>2. put'[c] = NoPut \/ (put'[c].step = "store" /\ put'[c].data = put[c].data)
    BY <1>0, <1>4 DEF Check, Goto, PutType
  <2>3. PutInv(c)' /\ put'[c].step # "return"
    BY <1>0, <1>4, <2>2, NoPutType DEF Check, PutInv
  <2> QED BY <1>0, <1>4, <2>1, <2>3, BeforeStoring DEF Check, StoreTypes
<1>5. CASE StoreMemory(c)
  <2>1. put'[c].step = "return" /\ put'[c].data = put[c].data /\ put' \in [Chunk -> PutType]
        /\ \A e \in Chunk \ {c} : put'[e] = put[e]
    BY <1>0, <1>5 DEF StoreMemory, Goto, PutType
  <2>2. chunks'[c] = put[c].data /\ put[c].data \in Length /\ chunks' \in [Chunk -> Int]
        /\ \A e \in Chunk \ {c} : chunks'[e] = chunks[e]
    BY <1>0, <1>01, <1>5 DEF StoreMemory, StoreTypes
  <2>3. PutInv(c)'
    BY <1>0, <1>5, <2>1, <2>2 DEF StoreMemory, PutInv
  <2>4. ChunkInv(c)' /\ chunks'[c] # Absent
    BY <2>1, <2>2 DEF ChunkInv, StoreOK, Absent
  <2>5. UNCHANGED <<kills, tmp, acked, mu, durable, flush>>
    BY <1>5 DEF StoreMemory
  <2>6. tmp' \in [Chunk -> Content] /\ acked' \in [Chunk -> Int] /\ mu' \in Chunk \union {NoChunk}
    BY <1>0, <2>5 DEF StoreTypes
  <2> QED BY <2>1, <2>2, <2>3, <2>4, <2>5, <2>6, Storing
<1>6. CASE OpenTmp(c)
  <2>1. put'[c].step = "write" /\ put'[c].data = put[c].data /\ put' \in [Chunk -> PutType]
        /\ \A e \in Chunk \ {c} : put'[e] = put[e]
    BY <1>0, <1>6 DEF OpenTmp, Goto, PutType
  <2>2. tmp' \in [Chunk -> Content] /\ mu' = c /\ mu = NoChunk /\ \A e \in Chunk \ {c} : tmp'[e] = tmp[e]
    BY <1>0, <1>6 DEF OpenTmp, StoreTypes, Content, Unlocked
  <2>3. PutInv(c)'
    BY <1>0, <1>6, <2>1, <2>2 DEF OpenTmp, PutInv
  <2>4. UNCHANGED <<chunks, acked, flush, durable, kills>> /\ put[c].step # "return"
    BY <1>6 DEF OpenTmp
  <2>5. \A e \in Chunk \ {c} : mu' = e <=> mu = e
    BY <1>0, <2>2
  <2> QED BY <2>1, <2>2, <2>3, <2>4, <2>5, BeforeStoring
<1>7. CASE WriteTmp(c)
  <2>1. put'[c].step = "rename" /\ put'[c].data = put[c].data /\ put' \in [Chunk -> PutType]
        /\ \A e \in Chunk \ {c} : put'[e] = put[e]
    BY <1>0, <1>7 DEF WriteTmp, Goto, PutType
  <2>2. tmp' \in [Chunk -> Content] /\ tmp'[c] = put[c].data /\ \A e \in Chunk \ {c} : tmp'[e] = tmp[e]
    BY <1>0, <1>01, <1>7 DEF WriteTmp, StoreTypes, Content
  <2>3. PutInv(c)'
    BY <1>0, <1>7, <2>1, <2>2 DEF WriteTmp, PutInv
  <2> QED BY <1>0, <1>7, <2>1, <2>2, <2>3, BeforeStoring DEF WriteTmp, StoreTypes
<1>8. CASE Rename(c)
  <2>1. put'[c].step = "return" /\ put'[c].data = put[c].data /\ put' \in [Chunk -> PutType]
        /\ \A e \in Chunk \ {c} : put'[e] = put[e]
    BY <1>0, <1>8 DEF Rename, Goto, PutType
  <2>2. chunks'[c] = put[c].data /\ put[c].data \in Length /\ chunks' \in [Chunk -> Int]
        /\ \A e \in Chunk \ {c} : chunks'[e] = chunks[e]
    BY <1>0, <1>8 DEF Rename, StoreTypes, PutInv, StoreOK
  <2>3. tmp' \in [Chunk -> Content] /\ mu' = NoChunk /\ mu = c /\ \A e \in Chunk \ {c} : tmp'[e] = tmp[e]
    BY <1>0, <1>8 DEF Rename, StoreTypes, PutInv, Content
  <2>4. PutInv(c)'
    BY <2>1, <2>2, <2>3 DEF PutInv, StoreOK
  <2>5. ChunkInv(c)' /\ chunks'[c] # Absent
    BY <2>1, <2>2 DEF ChunkInv, StoreOK, Absent
  <2> QED BY <1>0, <1>8, <2>1, <2>2, <2>3, <2>4, <2>5, Storing DEF Rename, StoreTypes
<1>9. CASE Return(c)
  <2>1. put'[c] = NoPut /\ put' \in [Chunk -> PutType] /\ \A e \in Chunk \ {c} : put'[e] = put[e]
    BY <1>0, <1>9, NoPutType DEF Return
  <2>2. acked'[c] = put[c].data /\ chunks[c] = put[c].data /\ acked' \in [Chunk -> Int]
        /\ \A e \in Chunk \ {c} : acked'[e] = acked[e]
    BY <1>0, <1>9 DEF Return, StoreTypes, PutInv
  <2>3. PutInv(c)'
    BY <1>0, <1>9, <2>1, NoPutType DEF Return, PutInv
  <2>4. ChunkInv(c)'
    BY <1>0, <1>9, <2>1, <2>2 DEF Return, ChunkInv
  <2>5. StoreTypes' /\ FlushInv'
    BY <1>0, <1>9, <2>1, <2>2 DEF Return, StoreTypes, StoreInv, FlushInv
  <2>6. ASSUME NEW e \in Chunk \ {c} PROVE PutInv(e)' /\ ChunkInv(e)'
    BY <1>9, <2>1, <2>2 DEF Return, StoreInv, PutInv, ChunkInv
  <2> QED BY <2>3, <2>4, <2>5, <2>6 DEF StoreInv
<1> QED BY <1>1, <1>2, <1>3, <1>4, <1>5, <1>6, <1>7, <1>8, <1>9 DEF PutStep

LEMMA DeleteKeeps ==
  ASSUME StoreOK, StoreInv, NEW c \in Chunk, Delete(c)
  PROVE  StoreInv'
<1>0. PutInv(c) /\ put[c] \in PutType /\ StoreTypes
  BY DEF StoreInv, StoreTypes
<1>1. /\ put' \in [Chunk -> PutType] /\ \A e \in Chunk \ {c} : put'[e] = put[e]
      /\ put'[c].step = put[c].step
      /\ put'[c].data = IF put[c].step = "return" THEN Absent ELSE put[c].data
      /\ put[c].step # "return" => put'[c] = put[c]
  BY <1>0 DEF Delete, StoreTypes, PutType
<1>2. /\ chunks' \in [Chunk -> Int] /\ chunks'[c] = Absent
      /\ acked' \in [Chunk -> Int] /\ acked'[c] = Absent
      /\ \A e \in Chunk \ {c} : chunks'[e] = chunks[e] /\ acked'[e] = acked[e]
  BY <1>0 DEF Delete, StoreTypes, Absent
<1>3. UNCHANGED <<kills, tmp, mu>>
  BY DEF Delete
<1>4. PutInv(c)' /\ ChunkInv(c)'
  BY <1>0, <1>1, <1>2, <1>3 DEF PutInv, ChunkInv, Locked
<1>5. tmp' \in [Chunk -> Content] /\ mu' \in Chunk \union {NoChunk}
  BY <1>0, <1>3 DEF StoreTypes
<1>6. durable' = durable \ {c} /\ flush' = [flush EXCEPT !.owed = @ \ {c}]
  BY DEF Delete
<1> QED BY <1>1, <1>2, <1>3, <1>4, <1>5, <1>6, Storing

LEMMA FlushKeeps ==
  ASSUME StoreOK, StoreInv,
         FlushStart \/ FlushDone \/ \E c \in Chunk : FlushChunk(c)
  PROVE  StoreInv'
<1>1. UNCHANGED <<chunks, tmp, mu, put, acked, kills>>
  BY DEF FlushStart, FlushDone, FlushChunk
<1>2. ASSUME NEW c \in Chunk PROVE PutInv(c)' /\ ChunkInv(c)'
  BY <1>1 DEF StoreInv, PutInv, ChunkInv
<1>3. flush' \in FlushType /\ durable' \subseteq Chunk /\ FlushInv'
  <2>1. CASE FlushStart
    BY <2>1 DEF FlushStart, StoreInv, StoreTypes, FlushType, FlushInv, Present
  <2>2. CASE FlushDone
    BY <2>2, NoFlushType DEF FlushDone, StoreInv, StoreTypes, FlushInv
  <2>3. ASSUME NEW c \in Chunk, FlushChunk(c)
        PROVE  flush' \in FlushType /\ durable' \subseteq Chunk /\ FlushInv'
    <3>1. CASE flush' = NoFlush
      BY <2>3, <3>1, NoFlushType DEF FlushChunk, StoreInv, StoreTypes, FlushInv
    <3>2. CASE flush' = [flush EXCEPT !.todo = @ \ {c}]
      <4>1. /\ flush'.step = flush.step /\ flush'.owed = flush.owed
            /\ flush'.todo = flush.todo \ {c} /\ flush' \in FlushType
        BY <3>2 DEF StoreInv, StoreTypes, FlushType
      <4>2. durable \subseteq durable' /\ durable' \subseteq Chunk
            /\ (chunks[c] # Absent => c \in durable')
        BY <2>3 DEF FlushChunk, StoreInv, StoreTypes
      <4> QED BY <1>1, <4>1, <4>2 DEF StoreInv, FlushInv
    <3> QED BY <2>3, <3>1, <3>2 DEF FlushChunk
  <2> QED BY <2>1, <2>2, <2>3
<1>4. StoreTypes'
  BY <1>1, <1>3 DEF StoreInv, StoreTypes
<1> QED BY <1>2, <1>3, <1>4 DEF StoreInv

LEMMA KillKeeps ==
  ASSUME StoreOK, StoreInv, Kill
  PROVE  StoreInv'
<1>1. StoreTypes'
  BY NoPutType, NoFlushType DEF Kill, StoreInv, StoreTypes, Absent
<1>2. ASSUME NEW c \in Chunk PROVE PutInv(c)' /\ ChunkInv(c)'
  <2>1. put'[c] = NoPut /\ mu' = NoChunk /\ NoChunk # c /\ kills' # 0
    BY DEF Kill, StoreOK, StoreInv, StoreTypes
  <2>2. PutInv(c)'
    BY <2>1, NoPutType DEF PutInv, Locked
  <2>3. ChunkInv(c)'
    BY <2>1 DEF Kill, StoreInv, ChunkInv
  <2> QED BY <2>2, <2>3
<1>3. FlushInv'
  BY NoFlushType DEF Kill, FlushInv
<1> QED BY <1>1, <1>2, <1>3 DEF StoreInv

LEMMA StoreInvStep == StoreOK /\ StoreInv /\ [StoreNext]_storeVars => StoreInv'
<1> SUFFICES ASSUME StoreOK, StoreInv, [StoreNext]_storeVars PROVE StoreInv'
  OBVIOUS
<1>1. CASE UNCHANGED storeVars
  BY <1>1 DEF storeVars, StoreInv, StoreTypes, PutInv, ChunkInv, FlushInv
<1>2. CASE StoreNext
  BY <1>2, PutKeeps, DeleteKeeps, FlushKeeps, KillKeeps DEF StoreNext
<1> QED BY <1>1, <1>2

---------------------------------------------------------------------------
(* The quota.  A put that has read the usage and will not be refused       *)
(* passes.  Were every put of a set S that passes to store at once, the    *)
(* usage would still exceed the quota by no more than Slack.  This is      *)
(* inductive, unlike the bound on what is stored already.                  *)

Passing(c) ==
  /\ put[c].step \in {"old", "check", "store"} \union Locked
  /\ put[c].step = "old" => put[c].used - chunks[c] + put[c].data <= quota
  /\ put[c].step = "check" => put[c].used - put[c].old + put[c].data <= quota

Passes == {c \in Chunk : Passing(c)}
After(p, h, S) == [c \in Chunk |-> IF c \in S THEN p[c].data ELSE h[c]]
Slack == (Max({peak, 1}) - 1) * Max(Length)
InProgress == {c \in Chunk : put[c] # NoPut}

PeakInv == quota \in Nat /\ peak \in Nat /\ Cardinality(InProgress) <= peak
QuotaInv == quota > 0 => \A S \in SUBSET Passes : Total(After(put, chunks, S)) <= quota + Slack

LEMMA AfterType ==
  ASSUME StoreInv
  PROVE  /\ chunks \in [Chunk -> Nat]
         /\ \A c \in Chunk : put[c].data \in Nat /\ put[c].data <= Max(Length)
         /\ \A S : After(put, chunks, S) \in [Chunk -> Int]
<1>1. chunks \in [Chunk -> Nat]
  BY StoreAssumed DEF StoreInv, StoreTypes, ChunkInv, StoreOK, Absent
<1>2. ASSUME NEW c \in Chunk PROVE put[c].data \in Nat /\ put[c].data <= Max(Length)
  <2>1. put[c].data \in Length \union {Absent}
    BY DEF StoreInv, StoreTypes, PutType
  <2> QED BY <2>1, LargestLength DEF Absent
<1>3. ASSUME NEW S PROVE After(put, chunks, S) \in [Chunk -> Int]
  BY <1>1, <1>2 DEF After
<1> QED BY <1>1, <1>2, <1>3

LEMMA InProgressFinite ==
  /\ \A S \in SUBSET Chunk : IsFiniteSet(S) /\ Cardinality(S) \in Nat
  /\ \A S, T \in SUBSET Chunk : S \subseteq T => Cardinality(S) <= Cardinality(T)
<1>1. IsFiniteSet(Chunk)
  BY Zenon, PickOK
<1>2. \A S \in SUBSET Chunk : IsFiniteSet(S) /\ Cardinality(S) \in Nat
  BY Zenon, <1>1, FS_Subset, FS_CardinalityType
<1> QED BY Zenon, <1>2, FS_Subset

LEMMA SlackType ==
  ASSUME peak \in Nat
  PROVE  Slack \in Nat
<1>1. Max({peak, 1}) \in Nat /\ Max({peak, 1}) >= 1
  BY MaxPair, 1 \in Nat
<1> DEFINE a == Max({peak, 1}) - 1
           k == Max(Length)
<1>2. a \in Nat /\ k \in Nat
  BY <1>1, LargestLength
<1>3. Slack = a * k
  BY DEF Slack
<1> HIDE DEF a, k
<1> QED BY <1>2, <1>3

LEMMA SlackGrows ==
  ASSUME peak \in Nat, peak' \in Nat, peak' >= peak
  PROVE  Slack \in Nat /\ Slack' \in Nat /\ Slack <= Slack'
<1>1. /\ Max({peak, 1}) \in Nat /\ Max({peak, 1}) >= 1
      /\ Max({peak', 1}) \in Nat /\ Max({peak', 1}) >= 1 /\ Max({peak', 1}) >= Max({peak, 1})
  <2>1. /\ Max({peak, 1}) \in {peak, 1}
        /\ Max({peak, 1}) \in Nat /\ Max({peak, 1}) >= peak /\ Max({peak, 1}) >= 1
    BY MaxPair, 1 \in Nat DEF Max
  <2>2. Max({peak', 1}) \in Nat /\ Max({peak', 1}) >= peak' /\ Max({peak', 1}) >= 1
    BY MaxPair, 1 \in Nat
  <2> QED BY <2>1, <2>2
<1> DEFINE a == Max({peak, 1}) - 1
           b == Max({peak', 1}) - 1
           k == Max(Length)
<1>2. a \in Nat /\ b \in Nat /\ a <= b /\ k \in Nat
  BY <1>1, LargestLength
<1>3. Slack = a * k /\ Slack' = b * k
  BY DEF Slack
<1> HIDE DEF a, b, k
<1>4. k * a <= k * b /\ k * a \in Nat /\ k * b \in Nat
  BY <1>2, TimesMonotone
<1>5. a * k = k * a /\ b * k = k * b
  BY <1>2
<1> QED BY <1>3, <1>4, <1>5

(* A step after which the chunks, with the puts of any S stored, hold no   *)
(* more than they would have before with the puts of some R stored.        *)
LEMMA QuotaFrame ==
  ASSUME StoreInv, StoreInv', QuotaInv, PeakInv, peak' \in Nat, peak' >= peak, quota' = quota,
         \A S \in SUBSET Passes' : \E R \in SUBSET Passes :
           \A x \in Chunk : After(put', chunks', S)[x] <= After(put, chunks, R)[x]
  PROVE  QuotaInv'
<1> SUFFICES ASSUME quota > 0, NEW S \in SUBSET Passes' PROVE Total(After(put', chunks', S)) <= quota + Slack'
  BY DEF QuotaInv
<1>1. PICK R \in SUBSET Passes : \A x \in Chunk : After(put', chunks', S)[x] <= After(put, chunks, R)[x]
  OBVIOUS
<1>2. Total(After(put, chunks, R)) <= quota + Slack
  BY DEF QuotaInv
<1>3. After(put, chunks, R) \in [Chunk -> Int]
  BY Zenon, AfterType
<1>4. After(put', chunks', S) \in [Chunk -> Int]
  <2>1. chunks' \in [Chunk -> Int] /\ \A c \in Chunk : put'[c].data \in Length \union {Absent}
    BY DEF StoreInv, StoreTypes, PutType
  <2>2. \A c \in Chunk : put'[c].data \in Int
    <3>1. \A d \in Length \union {Absent} : d \in Int
      BY StoreAssumed DEF StoreOK, Absent
    <3> QED BY Zenon, <2>1, <3>1
  <2>3. After(put', chunks', S) = [c \in Chunk |-> IF c \in S THEN put'[c].data ELSE chunks'[c]]
    BY DEF After
  <2> QED BY <2>1, <2>2, <2>3
<1>5. Total(After(put', chunks', S)) <= Total(After(put, chunks, R)) /\ Total(After(put', chunks', S)) \in Int /\ Total(After(put, chunks, R)) \in Int
  BY Zenon, <1>1, <1>3, <1>4, TotalMonotone, TotalInt
<1>6. Slack \in Nat /\ Slack' \in Nat /\ Slack <= Slack' /\ quota \in Nat
  BY SlackGrows DEF PeakInv
<1> QED BY <1>2, <1>5, <1>6

LEMMA QuotaQuiet ==
  ASSUME StoreInv, StoreInv', QuotaInv, PeakInv, peak' \in Nat, peak' >= peak, quota' = quota,
         \A e \in Chunk : chunks'[e] <= chunks[e],
         \A e \in Chunk : Passing(e)' => Passing(e) /\ put'[e].data = put[e].data
  PROVE  QuotaInv'
<1>1. ASSUME NEW S \in SUBSET Passes'
      PROVE  /\ S \in SUBSET Passes
             /\ \A x \in Chunk : After(put', chunks', S)[x] <= After(put, chunks, S)[x]
  <2>1. ASSUME NEW x \in S PROVE x \in Passes /\ put'[x].data = put[x].data
    BY DEF Passes
  <2>2. S \subseteq Chunk
    BY DEF Passes
  <2>3. ASSUME NEW x \in Chunk PROVE After(put', chunks', S)[x] <= After(put, chunks, S)[x]
    <3>1. CASE x \in S
      <4>1. put[x].data \in Nat
        BY Zenon, AfterType
      <4> QED BY <2>1, <3>1, <4>1 DEF After
    <3>2. CASE x \notin S
      BY <3>2 DEF After
    <3> QED BY <3>1, <3>2
  <2> QED BY <2>1, <2>3
<1>2. \A S \in SUBSET Passes' : \E R \in SUBSET Passes :
        \A x \in Chunk : After(put', chunks', S)[x] <= After(put, chunks, R)[x]
  BY Zenon, <1>1
<1> QED BY <1>2, QuotaFrame

(* The put of c stores its payload.                                        *)
LEMMA QuotaStores ==
  ASSUME StoreInv, StoreInv', QuotaInv, PeakInv, UNCHANGED <<peak, quota>>,
         NEW c \in Chunk, Passing(c), put'[c].step = "return",
         chunks'[c] = put[c].data,
         \A e \in Chunk \ {c} : chunks'[e] = chunks[e] /\ put'[e] = put[e]
  PROVE  QuotaInv'
<1>0. peak' \in Nat /\ peak' >= peak
  BY DEF PeakInv
<1>1. ASSUME NEW S \in SUBSET Passes'
      PROVE  /\ S \cup {c} \in SUBSET Passes
             /\ \A x \in Chunk : After(put', chunks', S)[x] <= After(put, chunks, S \cup {c})[x]
  <2>1. c \notin S
    BY DEF Passes, Passing, Locked
  <2>2. S \cup {c} \in SUBSET Passes
    BY <2>1 DEF Passes, Passing
  <2>3. ASSUME NEW x \in Chunk
        PROVE  After(put', chunks', S)[x] <= After(put, chunks, S \cup {c})[x]
    <3>1. put[x].data \in Nat /\ chunks[x] \in Nat
      BY AfterType
    <3>2. After(put', chunks', S)[x] = After(put, chunks, S \cup {c})[x]
      BY <2>1 DEF After
    <3>3. After(put, chunks, S \cup {c})[x] \in Nat
      BY <3>1 DEF After
    <3> QED BY <3>2, <3>3
  <2> QED BY <2>2, <2>3
<1>2. \A S \in SUBSET Passes' : \E R \in SUBSET Passes :
        \A x \in Chunk : After(put', chunks', S)[x] <= After(put, chunks, R)[x]
  BY Zenon, <1>1
<1> QED BY <1>0, <1>2, QuotaFrame

(* The put of c reads the usage: whatever the other puts that pass store,  *)
(* each adds at most one payload.                                          *)
LEMMA QuotaReads ==
  ASSUME StoreInv, StoreInv', QuotaInv, PeakInv, NEW c \in Chunk, ReadUsage(c)
  PROVE  QuotaInv'
<1>0. /\ UNCHANGED <<peak, quota, chunks>> /\ peak \in Nat /\ quota \in Nat
      /\ put[c].step = "usage" /\ put'[c].step = "old" /\ put'[c].data = put[c].data
      /\ put'[c].used = Total(chunks)
      /\ \A e \in Chunk \ {c} : put'[e] = put[e]
  BY DEF ReadUsage, PeakInv, UsageBytes, StoreInv, StoreTypes, PutType
<1> SUFFICES ASSUME quota > 0, NEW S \in SUBSET Passes'
             PROVE  Total(After(put', chunks', S)) <= quota + Slack'
  BY <1>0 DEF QuotaInv
<1>1. Slack' = Slack /\ Slack \in Nat
  BY <1>0, SlackGrows DEF Slack
<1>2. S \subseteq Chunk /\ \A e \in S \ {c} : e \in Passes
  BY <1>0 DEF Passes, Passing
<1>3. After(put', chunks', S) = After(put, chunks, S)
  BY <1>0 DEF After
<1>4. /\ chunks \in [Chunk -> Nat] /\ After(put, chunks, S) \in [Chunk -> Int]
      /\ \A x \in Chunk : put[x].data \in Nat /\ put[x].data <= Max(Length)
  BY Zenon, AfterType
<1>5. CASE c \notin S
  <2>1. S \in SUBSET Passes
    BY <1>2, <1>5
  <2> QED BY <1>0, <1>1, <1>3, <2>1 DEF QuotaInv
<1>6. CASE c \in S
  <2> DEFINE T == S \ {c}
             e == [chunks EXCEPT ![c] = put[c].data]
             f == After(put, chunks, S)
             L == Max(Length)
  <2>1. Total(chunks) - chunks[c] + put[c].data <= quota
    BY <1>0, <1>6 DEF Passes, Passing
  <2>2. chunks \in [Chunk -> Int] /\ put[c].data \in Int /\ e \in [Chunk -> Int] /\ L \in Nat
    BY <1>4, LargestLength
  <2>3. Total(e) = Total(chunks) - chunks[c] + put[c].data
    BY Zenon, <2>2, TotalUpdate
  <2>4. T \in SUBSET Chunk /\ f \in [Chunk -> Int]
    BY <1>2, <1>4
  <2>5. ASSUME NEW x \in Chunk PROVE f[x] <= e[x] + (IF x \in T THEN L ELSE 0)
    <3>1. chunks[x] \in Nat /\ put[x].data \in Nat /\ put[x].data <= L
      BY <1>4
    <3>2. f[x] = IF x \in S THEN put[x].data ELSE chunks[x]
      BY DEF After
    <3>3. e[x] = IF x = c THEN put[c].data ELSE chunks[x]
      BY <1>4
    <3> HIDE DEF f, e, L
    <3> QED BY <1>6, <2>2, <3>1, <3>2, <3>3
  <2>6. Total(f) <= Total(e) + L * Cardinality(T)
    <3> HIDE DEF f, e, L, T
    <3> QED BY Zenon, <2>2, <2>4, <2>5, TotalCompare
  <2>7. Cardinality(T) \in Nat /\ Cardinality(T) <= Max({peak, 1}) - 1 /\ Max({peak, 1}) - 1 \in Nat
    <3>1. S \subseteq InProgress /\ InProgress \in SUBSET Chunk /\ S \in SUBSET Chunk
      <4>1. \A x \in S : x \in Chunk /\ put[x].step # "idle"
        BY <1>0, <1>2 DEF Passes, Passing, Locked
      <4> QED BY <4>1, NoPutType DEF InProgress
    <3>2. Cardinality(S) <= Cardinality(InProgress) /\ Cardinality(InProgress) \in Nat
          /\ IsFiniteSet(S) /\ Cardinality(S) \in Nat
      BY Zenon, <3>1, InProgressFinite
    <3>3. Cardinality(T) = Cardinality(S) - 1
      BY Zenon, <1>6, <3>2, FS_RemoveElement
    <3>4. Cardinality(T) \in Nat
      BY Zenon, <2>4, InProgressFinite
    <3>5. Max({peak, 1}) \in Nat /\ Max({peak, 1}) >= peak /\ Max({peak, 1}) >= 1
      BY <1>0, MaxPair, 1 \in Nat
    <3>6. Cardinality(InProgress) <= peak
      BY DEF PeakInv
    <3> HIDE DEF T
    <3> QED BY <1>0, <3>2, <3>3, <3>4, <3>5, <3>6
  <2>8. L * Cardinality(T) <= Slack /\ L * Cardinality(T) \in Nat
    <3> DEFINE k == Cardinality(T)
               m == Max({peak, 1}) - 1
    <3>1. k \in Nat /\ m \in Nat /\ k <= m /\ L \in Nat
      BY <2>2, <2>7
    <3>2. Slack = m * L
      BY DEF Slack
    <3> HIDE DEF k, m, L
    <3>3. L * k <= L * m /\ L * k \in Nat /\ L * m = m * L
      BY <3>1, TimesMonotone
    <3>4. L * k <= Slack
      BY <3>2, <3>3
    <3> QED BY Zenon, <3>3, <3>4 DEF k
  <2>9. Total(f) \in Int /\ Total(e) \in Int
    BY Zenon, <2>2, <2>4, TotalInt
  <2>10. Total(f) <= quota + Slack
    <3> DEFINE w == L * Cardinality(T)
    <3>1. w <= Slack /\ w \in Nat /\ Total(f) <= Total(e) + w /\ Total(e) <= quota
      BY Zenon, <2>1, <2>3, <2>6, <2>8
    <3> HIDE DEF w, f, e
    <3> QED BY <1>0, <1>1, <2>9, <3>1
  <2> QED BY <1>0, <1>1, <1>3, <2>10
<1> QED BY <1>5, <1>6

LEMMA PeakFrame ==
  ASSUME PeakInv, UNCHANGED <<quota, peak>>, \A e \in Chunk : put[e] = NoPut => put'[e] = NoPut
  PROVE  PeakInv'
<1>1. InProgress' \subseteq InProgress /\ InProgress \in SUBSET Chunk /\ InProgress' \in SUBSET Chunk
  BY DEF InProgress
<1>2. /\ Cardinality(InProgress') <= Cardinality(InProgress)
      /\ Cardinality(InProgress') \in Nat /\ Cardinality(InProgress) \in Nat
  BY Zenon, <1>1, InProgressFinite
<1> QED BY <1>2 DEF PeakInv

LEMMA PutKeepsQuota ==
  ASSUME StoreInv, StoreInv', QuotaInv, PeakInv, NEW c \in Chunk, PutStep(c)
  PROVE  QuotaInv' /\ PeakInv'
<1> USE DEF Locked
<1>0. /\ PutInv(c) /\ put[c] \in PutType /\ put \in [Chunk -> PutType] /\ chunks \in [Chunk -> Nat]
      /\ peak \in Nat /\ quota \in Nat
  BY AfterType DEF StoreInv, StoreTypes, PeakInv
<1>1. /\ UNCHANGED <<peak, quota>> /\ peak' \in Nat /\ peak' >= peak /\ put[c].step # "idle"
      /\ \A e \in Chunk \ {c} : put'[e] = put[e]
  <2>1. UNCHANGED <<peak, quota>> /\ put[c].step # "idle"
    BY DEF PutStep, ReadUsage, ReadOld, Check, StoreMemory, OpenTmp, WriteTmp, Rename, Return
  <2>2. \A e \in Chunk \ {c} : put'[e] = put[e]
    BY <1>0 DEF PutStep, Goto, ReadUsage, ReadOld, Check, StoreMemory, OpenTmp, WriteTmp, Rename, Return
  <2> QED BY <1>0, <2>1, <2>2
<1>2. PeakInv'
  BY <1>1, NoPutType, PeakFrame
<1>3. ASSUME chunks' = chunks, Passing(c)' => Passing(c) /\ put'[c].data = put[c].data
      PROVE  QuotaInv'
  <2>1. \A e \in Chunk : Passing(e)' => Passing(e) /\ put'[e].data = put[e].data
    BY <1>1, <1>3 DEF Passing
  <2>2. \A e \in Chunk : chunks'[e] <= chunks[e]
    BY <1>0, <1>3
  <2> QED BY <1>1, <2>1, <2>2, QuotaQuiet
<1>4. CASE ReadUsage(c)
  BY <1>4, QuotaReads, <1>2
<1>5. CASE ReadOld(c)
  <2>1. chunks' = chunks /\ put'[c] = [put[c] EXCEPT !.step = "check", !.old = chunks[c]] /\ put[c].step = "old"
    BY <1>0, <1>5 DEF ReadOld
  <2>2. put'[c].step = "check" /\ put'[c].old = chunks[c] /\ put'[c].data = put[c].data /\ put'[c].used = put[c].used
    BY <1>0, <2>1 DEF PutType
  <2>3. Passing(c)' => Passing(c)
    BY <1>1, <2>1, <2>2 DEF Passing
  <2> QED BY <1>2, <1>3, <2>1, <2>2, <2>3
<1>6. CASE Check(c)
  <2>1. chunks' = chunks /\ put[c].step = "check"
        /\ (put'[c] = NoPut \/ (put'[c] = [put[c] EXCEPT !.step = "store"] /\ ~ Exceeds(c)))
    BY <1>0, <1>6 DEF Check, Goto
  <2>2. CASE put'[c] = NoPut
    <3>1. ~ Passing(c)'
      BY <2>2, NoPutType DEF Passing
    <3> QED BY <1>2, <1>3, <2>1, <3>1
  <2>3. CASE put'[c] = [put[c] EXCEPT !.step = "store"] /\ ~ Exceeds(c)
    <3>1. put'[c].data = put[c].data
      BY <1>0, <2>3 DEF PutType
    <3>2. put[c].data \in Int /\ put[c].used \in Int /\ put[c].old \in Int
      <4>1. put[c].data \in Nat
        BY Zenon, AfterType
      <4> QED BY <1>0, <4>1 DEF PutType
    <3>3. Passing(c)
      BY <1>0, <2>1, <2>3, <3>2 DEF Passing, Exceeds
    <3> QED BY <1>2, <1>3, <2>1, <3>1, <3>3
  <2> QED BY <2>1, <2>2, <2>3
<1>7. CASE StoreMemory(c)
  <2>1. /\ chunks'[c] = put[c].data /\ put'[c].step = "return" /\ put[c].step = "store"
        /\ \A e \in Chunk \ {c} : chunks'[e] = chunks[e]
    BY <1>0, <1>7 DEF StoreMemory, Goto, PutType
  <2>2. Passing(c)
    BY <2>1 DEF Passing
  <2> QED BY <1>1, <1>2, <2>1, <2>2, QuotaStores
<1>8. CASE OpenTmp(c) \/ WriteTmp(c)
  <2>1. /\ chunks' = chunks /\ put[c].step \in {"store", "write"}
        /\ put'[c].data = put[c].data
    BY <1>0, <1>8 DEF OpenTmp, WriteTmp, Goto, PutType
  <2>2. Passing(c)
    BY <2>1 DEF Passing
  <2> QED BY <1>2, <1>3, <2>1, <2>2
<1>9. CASE Rename(c)
  <2>1. /\ chunks'[c] = tmp[c] /\ put'[c].step = "return" /\ put[c].step = "rename"
        /\ \A e \in Chunk \ {c} : chunks'[e] = chunks[e]
    BY <1>0, <1>9 DEF Rename, Goto, PutType
  <2>2. tmp[c] = put[c].data
    BY <1>0, <2>1 DEF PutInv
  <2>3. Passing(c)
    BY <2>1 DEF Passing
  <2> QED BY <1>1, <1>2, <2>1, <2>2, <2>3, QuotaStores
<1>10. CASE Return(c)
  <2>1. chunks' = chunks /\ put'[c] = NoPut
    BY <1>0, <1>10 DEF Return
  <2>2. ~ Passing(c)'
    BY <2>1, NoPutType DEF Passing
  <2> QED BY <1>2, <1>3, <2>1, <2>2
<1> QED BY <1>4, <1>5, <1>6, <1>7, <1>8, <1>9, <1>10 DEF PutStep

LEMMA BeginKeepsQuota ==
  ASSUME StoreInv, StoreInv', QuotaInv, PeakInv, NEW c \in Chunk, NEW d \in Length, BeginPut(c, d)
  PROVE  QuotaInv' /\ PeakInv'
<1> DEFINE n == Cardinality(InProgress')
<1>0. peak \in Nat /\ quota \in Nat /\ quota' = quota /\ chunks' = chunks /\ peak' = Max({peak, n})
  BY DEF PeakInv, BeginPut, InProgress
<1>1. n \in Nat
  <2>1. InProgress' \in SUBSET Chunk
    BY DEF InProgress
  <2> QED BY Zenon, <2>1, InProgressFinite
<1>2. peak' \in Nat /\ peak' >= peak /\ n <= peak'
  <2> HIDE DEF n
  <2> QED BY <1>0, <1>1, MaxPair
<1>3. PeakInv'
  BY <1>0, <1>2 DEF PeakInv
<1>4. CASE quota > 0
  <2>1. put'[c].step = "usage" /\ \A e \in Chunk \ {c} : put'[e] = put[e]
    BY <1>4 DEF BeginPut, StoreInv, StoreTypes, NoPut
  <2>2. \A e \in Chunk : Passing(e)' => Passing(e) /\ put'[e].data = put[e].data
    BY <1>0, <2>1 DEF Passing, Locked
  <2>3. \A e \in Chunk : chunks'[e] <= chunks[e]
    BY <1>0 DEF StoreInv, StoreTypes
  <2> QED BY <1>0, <1>2, <1>3, <2>2, <2>3, QuotaQuiet
<1>5. CASE quota = 0
  BY <1>0, <1>3, <1>5 DEF QuotaInv
<1> QED BY <1>0, <1>4, <1>5

LEMMA QuotaStep ==
  ASSUME StoreInv, StoreInv', QuotaInv, PeakInv, [StoreNext]_storeVars
  PROVE  QuotaInv' /\ PeakInv'
<1>0. peak \in Nat /\ chunks \in [Chunk -> Nat] /\ put \in [Chunk -> PutType]
  BY SMTT(30), AfterType DEF PeakInv, StoreInv, StoreTypes
<1>1. ASSUME UNCHANGED <<put, chunks, peak, quota>> PROVE QuotaInv' /\ PeakInv'
  <2>1. PeakInv'
    BY <1>1, PeakFrame
  <2>2. \A e \in Chunk : Passing(e)' => Passing(e) /\ put'[e].data = put[e].data
    BY <1>1 DEF Passing
  <2>3. peak' \in Nat /\ peak' >= peak /\ \A e \in Chunk : chunks'[e] <= chunks[e]
    BY <1>0, <1>1
  <2> QED BY <1>1, <2>1, <2>2, <2>3, QuotaQuiet
<1>2. CASE UNCHANGED storeVars
  BY <1>1, <1>2 DEF storeVars
<1>3. ASSUME NEW c \in Chunk, FlushChunk(c) PROVE QuotaInv' /\ PeakInv'
  BY <1>1, <1>3 DEF FlushChunk
<1>4. CASE FlushStart \/ FlushDone
  BY <1>1, <1>4 DEF FlushStart, FlushDone
<1>5. ASSUME NEW c \in Chunk, Delete(c) PROVE QuotaInv' /\ PeakInv'
  <2>1. /\ UNCHANGED <<peak, quota>> /\ chunks' = [chunks EXCEPT ![c] = Absent]
        /\ put' = [put EXCEPT ![c].data = IF put[c].step = "return" THEN Absent ELSE @]
    BY <1>5 DEF Delete
  <2>2. /\ \A e \in Chunk \ {c} : chunks'[e] = chunks[e] /\ put'[e] = put[e]
        /\ chunks'[c] = 0 /\ chunks[c] \in Nat
        /\ put'[c].step = put[c].step
        /\ put[c].step # "return" => put'[c] = put[c]
    BY <1>0, <2>1 DEF PutType, Absent
  <2>3. PeakInv'
    BY <2>1, <2>2, NoPutType, PeakFrame
  <2>4. put[c].used \in Int /\ put[c].data \in Int /\ quota \in Int
    <3>1. put[c].data \in Nat
      BY Zenon, AfterType
    <3> QED BY <1>0, <3>1 DEF PutType, PeakInv
  <2>5. Passing(c)' => Passing(c) /\ put'[c].data = put[c].data
    BY <2>1, <2>2, <2>4 DEF Passing, Locked
  <2>6. \A e \in Chunk : Passing(e)' => Passing(e) /\ put'[e].data = put[e].data
    BY <2>1, <2>2, <2>5 DEF Passing
  <2>7. peak' \in Nat /\ peak' >= peak /\ \A e \in Chunk : chunks'[e] <= chunks[e]
    BY <1>0, <2>1, <2>2
  <2> QED BY <2>1, <2>3, <2>6, <2>7, QuotaQuiet
<1>6. CASE Kill
  <2>1. UNCHANGED <<peak, quota>> /\ \A e \in Chunk : put'[e] = NoPut
    BY <1>6 DEF Kill
  <2>2. \A e \in Chunk : chunks'[e] <= chunks[e]
    BY <1>0, <1>6 DEF Kill, Absent
  <2>3. PeakInv'
    BY <2>1, PeakFrame
  <2>4. \A e \in Chunk : ~ Passing(e)'
    BY <2>1, NoPutType DEF Passing, Locked
  <2>5. peak' \in Nat /\ peak' >= peak
    BY <1>0, <2>1
  <2> QED BY <2>1, <2>2, <2>3, <2>4, <2>5, QuotaQuiet
<1> QED BY SMTT(30), <1>2, <1>3, <1>4, <1>5, <1>6, PutKeepsQuota, BeginKeepsQuota DEF StoreNext

LEMMA QuotaInit == StoreInit => StoreInv /\ QuotaInv /\ PeakInv
<1> SUFFICES ASSUME StoreInit PROVE StoreInv /\ QuotaInv /\ PeakInv
  OBVIOUS
<1>1. StoreInv
  BY StoreAssumed, StoreInvInit
<1>2. /\ quota \in Nat /\ peak = 0 /\ InProgress = {} /\ Passes = {}
      /\ chunks \in [Chunk -> Int] /\ \A c \in Chunk : chunks[c] = 0
  BY StoreConstants, NoPutType DEF StoreInit, InProgress, Passes, Passing, Locked, Absent
<1>3. PeakInv
  BY <1>2, FS_EmptySet DEF PeakInv
<1>4. QuotaInv
  <2>1. After(put, chunks, {}) = chunks
    BY <1>2 DEF After
  <2>2. Total(chunks) = 0
    BY Zenon, <1>2, TotalZero
  <2>3. Slack \in Nat
    BY <1>2, SlackType
  <2>4. Total(After(put, chunks, {})) <= quota + Slack
    BY <1>2, <2>1, <2>2, <2>3
  <2>5. \A S \in SUBSET Passes : S = {}
    BY <1>2
  <2> QED BY Zenon, <2>4, <2>5 DEF QuotaInv
<1> QED BY <1>1, <1>3, <1>4

---------------------------------------------------------------------------
(* For every set of chunks and any interleaving of puts, deletions and     *)
(* kills, a reader or a restart finds whole payloads only, and none that   *)
(* was acknowledged is missing (DiskStore.Put and Delete).                 *)
THEOREM StoresKeepWhole == StoreSpec => []StoredWhole
<1>1. StoreInv => StoredWhole
  <2> SUFFICES ASSUME StoreInv, NEW c \in Chunk
               PROVE  /\ chunks[c] # Torn
                      /\ acked[c] # Absent => chunks[c] # Absent
                      /\ mu # c /\ put[c] = NoPut /\ kills = 0 => chunks[c] = acked[c]
    BY DEF StoredWhole
  <2> QED BY NoPutType, StoreAssumed DEF StoreInv, ChunkInv, StoreOK, Absent, Torn
<1> QED BY <1>1, StoreAssumed, StoreInvInit, StoreInvStep, PTL DEF StoreSpec

(* A Flush that returns nil has synced what was there when it began and is *)
(* still the same, whatever goes on beside its walk (DiskStore.Flush).     *)
THEOREM FlushesSync == StoreSpec => FlushedIsSynced
<1>1. StoreInv => (flush.step = "walk" /\ flush.todo = {} => flush.owed \subseteq durable)
  BY DEF StoreInv, FlushInv
<1>2. StoreInv /\ [StoreNext]_storeVars =>
        [flush.step = "walk" /\ flush.todo = {} /\ flush' = NoFlush /\ kills' = kills =>
           flush.owed \subseteq durable]_storeVars
  BY <1>1
<1> QED BY <1>2, StoreAssumed, StoreInvInit, StoreInvStep, PTL DEF StoreSpec, FlushedIsSynced

(* However many puts run at once, the quota is exceeded by no more than    *)
(* one payload for each of them but one, for every quota, every set of     *)
(* chunks and every set of payloads (QuotaMemory.Put, QuotaDisk.Put).      *)
THEOREM QuotaIsBounded == StoreSpec => []QuotaOvershoot
<1> DEFINE I == StoreInv /\ QuotaInv /\ PeakInv
<1>1. StoreInit => I
  BY QuotaInit
<1>2. I /\ [StoreNext]_storeVars => I'
  BY StoreAssumed, StoreInvStep, QuotaStep
<1>3. I => QuotaOvershoot
  <2> SUFFICES ASSUME I, quota > 0 PROVE UsageBytes <= quota + Slack
    BY DEF QuotaOvershoot, Slack
  <2>1. After(put, chunks, {}) = chunks
    BY DEF After, StoreInv, StoreTypes
  <2>2. Total(After(put, chunks, {})) <= quota + Slack
    BY DEF QuotaInv
  <2> QED BY <2>1, <2>2 DEF UsageBytes
<1> QED BY <1>1, <1>2, <1>3, PTL DEF StoreSpec

(* What the store holds, the .tmp files, the lock and the usage a put has  *)
(* read are what the types say (type invariant of pkg/chunk).              *)
THEOREM StoreTypeCorrect == StoreSpec => []StoreTypeOK
<1>1. StoreInv => StoreTypeOK
  BY DEF StoreInv, StoreTypes, StoreTypeOK, PutType, ChunkInv, Content
<1> QED BY <1>1, StoreAssumed, StoreInvInit, StoreInvStep, PTL DEF StoreSpec
=============================================================================
