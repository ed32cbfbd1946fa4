----------------------------- MODULE Induction -----------------------------
(***************************************************************************)
(* Induction over numbers and over finite sets, in a form the provers can  *)
(* use (the hypothesis is membership in a set, not an operator), and what  *)
(* it gives: sums over finite sets, the values of recursive functions, and *)
(* sorted enumerations.                                                    *)
(***************************************************************************)
EXTENDS Integers, FiniteSets, FiniteSetTheorems, WellFoundedInduction, TLAPS

LEMMA LeastIn ==
  ASSUME NEW L, IsWellFoundedOn(L, Nat), \A x, y \in Nat : y < x => <<y, x>> \in L,
         NEW T, T \subseteq Nat, T # {}
  PROVE  \E x \in T : \A y \in T : x <= y
<1>3. PICK x \in T : \A y \in T : ~(<<y, x>> \in L)
  BY Zenon, WFMin
<1>4. ASSUME NEW y \in T PROVE x <= y
  <2>1. x \in Nat /\ y \in Nat
    OBVIOUS
  <2>2. ~(y < x)
    BY Zenon, <1>3, <2>1
  <2> QED BY <2>1, <2>2
<1> QED BY <1>4

LEMMA Least ==
  ASSUME NEW T, T \subseteq Nat, T # {}
  PROVE  \E x \in T : \A y \in T : x <= y
<1>1. \A x, y \in Nat : y < x => <<y, x>> \in OpToRel(<, Nat)
  BY DEF OpToRel
<1> QED BY Zenon, <1>1, LeastIn, NatLessThanWellFounded

LEMMA Induct ==
  ASSUME NEW S, 0 \in S, \A n \in Nat : n \in S => n + 1 \in S
  PROVE  Nat \subseteq S
<1> DEFINE T == Nat \ S
<1>1. SUFFICES ASSUME T # {} PROVE FALSE
  OBVIOUS
<1>2. PICK x \in T : \A y \in T : x <= y
  BY <1>1, Least, Zenon
<1>3. x # 0 /\ x - 1 \in Nat /\ x - 1 \notin T
  BY <1>2
<1> QED BY <1>3, <1>2

LEMMA SetInduct ==
  ASSUME NEW C, IsFiniteSet(C), NEW P, {} \in P,
         \A S \in SUBSET C : \A x \in C \ S : S \in P => S \cup {x} \in P
  PROVE  SUBSET C \subseteq P
<1> DEFINE N == {n \in Nat : \A S \in SUBSET C : Cardinality(S) = n => S \in P}
<1>0. \A S \in SUBSET C : IsFiniteSet(S) /\ Cardinality(S) \in Nat
  BY FS_Subset, FS_CardinalityType
<1>1. 0 \in N
  <2>1. ASSUME NEW S \in SUBSET C, Cardinality(S) = 0 PROVE S \in P
    <3>1. S = {}
      BY Zenon, <1>0, <2>1, FS_EmptySet
    <3> QED BY <3>1
  <2> QED BY <2>1
<1>2. ASSUME NEW n \in Nat, n \in N PROVE n + 1 \in N
  <2>1. ASSUME NEW S \in SUBSET C, Cardinality(S) = n + 1 PROVE S \in P
    <3>1. S # {}
      <4>1. n + 1 # 0
        OBVIOUS
      <4> QED BY Zenon, <2>1, <4>1, FS_EmptySet
    <3>2. PICK x \in S : TRUE
      BY <3>1
    <3>3. Cardinality(S \ {x}) = n
      <4>1. Cardinality(S \ {x}) = Cardinality(S) - 1
        BY Zenon, <1>0, <3>2, FS_RemoveElement
      <4> QED BY <2>1, <4>1
    <3>4. S \ {x} \in P
      BY <1>2, <3>3
    <3>5. (S \ {x}) \cup {x} = S
      BY <3>2
    <3> QED BY <3>4, <3>5
  <2> QED BY <2>1
<1>3. Nat \subseteq N
  <2> HIDE DEF N
  <2> QED BY <1>1, <1>2, Induct
<1> QED BY <1>0, <1>3

---------------------------------------------------------------------------
(* Sums.  g is the function that adds up f over the subsets of C, taking   *)
(* the elements in the order of ch.                                        *)

Picks(ch, C) == \A s \in SUBSET C : s # {} => ch[s] \in s

Adds(g, f, ch, C) ==
  g = [s \in SUBSET C |-> IF s = {} THEN 0 ELSE f[ch[s]] + g[s \ {ch[s]}]]

Additive(g, f, C) == \A s \in SUBSET C : \A x \in C \ s : g[s \cup {x}] = f[x] + g[s]

LEMMA SmallSets ==
  ASSUME NEW C, IsFiniteSet(C)
  PROVE  /\ \A s \in SUBSET C : IsFiniteSet(s) /\ Cardinality(s) \in Nat
         /\ \A s \in SUBSET C : \A x \in s : Cardinality(s \ {x}) = Cardinality(s) - 1
         /\ \A s \in SUBSET C : Cardinality(s) = 0 <=> s = {}
<1>1. \A s \in SUBSET C : IsFiniteSet(s) /\ Cardinality(s) \in Nat
  BY FS_Subset, FS_CardinalityType
<1>2. \A s \in SUBSET C : \A x \in s : Cardinality(s \ {x}) = Cardinality(s) - 1
  BY Zenon, <1>1, FS_RemoveElement
<1>3. \A s \in SUBSET C : Cardinality(s) = 0 <=> s = {}
  BY Zenon, <1>1, FS_EmptySet
<1> QED BY <1>1, <1>2, <1>3

LEMMA SumExists ==
  ASSUME NEW C, IsFiniteSet(C), NEW f, NEW ch, Picks(ch, C)
  PROVE  \E g : Adds(g, f, ch, C)
<1> DEFINE D(n) == {s \in SUBSET C : Cardinality(s) <= n}
           N == {n \in Nat : \E g : g = [s \in D(n) |->
                   IF s = {} THEN 0 ELSE f[ch[s]] + g[s \ {ch[s]}]]}
<1>0. /\ \A s \in SUBSET C : Cardinality(s) \in Nat
      /\ \A s \in SUBSET C : \A x \in s : Cardinality(s \ {x}) = Cardinality(s) - 1
      /\ \A s \in SUBSET C : Cardinality(s) = 0 <=> s = {}
  BY Zenon, SmallSets
<1>1. 0 \in N
  <2> DEFINE g == [s \in D(0) |-> 0]
  <2>1. D(0) = {{}}
    BY <1>0
  <2>2. g = [s \in D(0) |-> IF s = {} THEN 0 ELSE f[ch[s]] + g[s \ {ch[s]}]]
    BY <2>1
  <2> QED BY Zenon, <2>2
<1>2. ASSUME NEW n \in Nat, n \in N PROVE n + 1 \in N
  <2>1. PICK g : g = [s \in D(n) |-> IF s = {} THEN 0 ELSE f[ch[s]] + g[s \ {ch[s]}]]
    BY Zenon, <1>2
  <2> DEFINE h == [s \in D(n + 1) |->
                     IF s \in D(n) THEN g[s] ELSE f[ch[s]] + g[s \ {ch[s]}]]
  <2>2. ASSUME NEW s \in D(n + 1)
        PROVE  h[s] = IF s = {} THEN 0 ELSE f[ch[s]] + h[s \ {ch[s]}]
    <3>1. s \in SUBSET C /\ Cardinality(s) <= n + 1 /\ Cardinality(s) \in Nat
      BY <1>0
    <3>2. CASE s = {}
      <4>1. s \in D(n)
        BY <1>0, <3>1, <3>2
      <4> QED BY <2>1, <3>2, <4>1
    <3>3. CASE s # {}
      <4>1. ch[s] \in s
        BY <3>1, <3>3 DEF Picks
      <4>2. s \ {ch[s]} \in D(n) /\ s \ {ch[s]} \in D(n + 1)
        <5>1. Cardinality(s \ {ch[s]}) = Cardinality(s) - 1
          BY Zenon, <1>0, <3>1, <4>1
        <5>2. s \ {ch[s]} \in SUBSET C
          BY <3>1
        <5> QED BY <3>1, <5>1, <5>2
      <4>3. h[s \ {ch[s]}] = g[s \ {ch[s]}]
        BY Zenon, <4>2
      <4>4. CASE s \in D(n)
        <5>1. g[s] = f[ch[s]] + g[s \ {ch[s]}]
          BY Zenon, <2>1, <3>3, <4>4
        <5>2. h[s] = g[s]
          BY Zenon, <4>4
        <5> QED BY Zenon, <3>3, <4>3, <5>1, <5>2
      <4>5. CASE s \notin D(n)
        <5>1. h[s] = f[ch[s]] + g[s \ {ch[s]}]
          BY Zenon, <4>5
        <5> QED BY Zenon, <3>3, <4>3, <5>1
      <4> QED BY Zenon, <4>4, <4>5
    <3> QED BY Zenon, <3>2, <3>3
  <2>3. h = [s \in D(n + 1) |-> IF s = {} THEN 0 ELSE f[ch[s]] + h[s \ {ch[s]}]]
    <3> HIDE DEF D
    <3>1. h = [s \in D(n + 1) |-> h[s]]
      BY Zenon
    <3> HIDE DEF h
    <3> QED BY Zenon, <2>2, <3>1
  <2> HIDE DEF h, D
  <2> QED BY <2>3
<1>3. Nat \subseteq N
  <2> HIDE DEF N
  <2> QED BY <1>1, <1>2, Induct
<1>4. Cardinality(C) \in N
  <2>1. Cardinality(C) \in Nat
    BY Zenon, <1>0, C \in SUBSET C
  <2> HIDE DEF N
  <2> QED BY <1>3, <2>1
<1>5. D(Cardinality(C)) = SUBSET C
  <2>1. \A s \in SUBSET C : Cardinality(s) <= Cardinality(C)
    BY Zenon, FS_Subset
  <2> QED BY Zenon, <2>1
<1> HIDE DEF D
<1>6. PICK g : g = [s \in D(Cardinality(C)) |->
                 IF s = {} THEN 0 ELSE f[ch[s]] + g[s \ {ch[s]}]]
  BY Zenon, <1>4
<1> QED BY Zenon, <1>5, <1>6 DEF Adds

LEMMA SumType ==
  ASSUME NEW C, IsFiniteSet(C), NEW f \in [C -> Int], NEW ch, Picks(ch, C), NEW g, Adds(g, f, ch, C)
  PROVE  /\ g \in [SUBSET C -> Int] /\ g[{}] = 0
         /\ \A s \in SUBSET C : s # {} => g[s] = f[ch[s]] + g[s \ {ch[s]}]
<1> DEFINE N == {n \in Nat : \A s \in SUBSET C : Cardinality(s) = n => g[s] \in Int}
<1>0. /\ \A s \in SUBSET C : Cardinality(s) \in Nat
      /\ \A s \in SUBSET C : \A x \in s : Cardinality(s \ {x}) = Cardinality(s) - 1
      /\ \A s \in SUBSET C : Cardinality(s) = 0 <=> s = {}
  BY Zenon, SmallSets
<1>1. \A s \in SUBSET C : s # {} => g[s] = f[ch[s]] + g[s \ {ch[s]}]
  BY Zenon DEF Adds
<1>2. g[{}] = 0
  BY Zenon, {} \in SUBSET C DEF Adds
<1>3. 0 \in N
  <2>1. ASSUME NEW s \in SUBSET C, Cardinality(s) = 0 PROVE g[s] \in Int
    <3>1. s = {}
      BY Zenon, <1>0, <2>1
    <3> QED BY <1>2, <3>1
  <2> QED BY <2>1
<1>4. ASSUME NEW n \in Nat, n \in N PROVE n + 1 \in N
  <2>1. ASSUME NEW s \in SUBSET C, Cardinality(s) = n + 1 PROVE g[s] \in Int
    <3>1. s # {}
      BY <1>0, <2>1
    <3>2. ch[s] \in s
      BY <3>1 DEF Picks
    <3>3. Cardinality(s \ {ch[s]}) = n
      BY <1>0, <2>1, <3>2
    <3>4. g[s \ {ch[s]}] \in Int
      BY <1>4, <3>3
    <3>5. g[s] = f[ch[s]] + g[s \ {ch[s]}]
      BY Zenon, <1>1, <3>1
    <3>6. f[ch[s]] \in Int
      BY <3>2
    <3> QED BY <3>4, <3>5, <3>6
  <2> QED BY <2>1
<1>5. Nat \subseteq N
  <2> HIDE DEF N
  <2> QED BY <1>3, <1>4, Induct
<1>6. \A s \in SUBSET C : g[s] \in Int
  BY <1>0, <1>5
<1>7. g = [s \in SUBSET C |-> g[s]]
  BY Zenon DEF Adds
<1>8. g \in [SUBSET C -> Int]
  BY Zenon, <1>6, <1>7
<1> QED BY Zenon, <1>1, <1>2, <1>8

(* The order does not matter.                                              *)
LEMMA SumAdds ==
  ASSUME NEW C, IsFiniteSet(C), NEW f \in [C -> Int], NEW ch, Picks(ch, C), NEW g, Adds(g, f, ch, C)
  PROVE  Additive(g, f, C)
<1> DEFINE N == {n \in Nat : \A s \in SUBSET C : \A x \in C \ s :
                   Cardinality(s) = n => g[s \cup {x}] = f[x] + g[s]}
<1>0. /\ \A s \in SUBSET C : Cardinality(s) \in Nat
      /\ \A s \in SUBSET C : \A x \in s : Cardinality(s \ {x}) = Cardinality(s) - 1
      /\ \A s \in SUBSET C : Cardinality(s) = 0 <=> s = {}
  BY Zenon, SmallSets
<1>1. g \in [SUBSET C -> Int] /\ g[{}] = 0
  BY Zenon, SumType
<1>11. \A s \in SUBSET C : s # {} => g[s] = f[ch[s]] + g[s \ {ch[s]}]
  BY Zenon DEF Adds
<1>2. ASSUME NEW s \in SUBSET C, NEW x \in C \ s, ch[s \cup {x}] = x
      PROVE  g[s \cup {x}] = f[x] + g[s]
  <2>1. (s \cup {x}) \ {x} = s /\ s \cup {x} # {} /\ s \cup {x} \in SUBSET C
    OBVIOUS
  <2> QED BY Zenon, <1>11, <1>2, <2>1
<1>3. 0 \in N
  <2>1. ASSUME NEW s \in SUBSET C, NEW x \in C \ s, Cardinality(s) = 0 PROVE g[s \cup {x}] = f[x] + g[s]
    <3>1. s = {}
      BY <1>0, <2>1
    <3>2. ch[s \cup {x}] = x
      BY <3>1 DEF Picks
    <3> QED BY <1>2, <3>2
  <2> QED BY <2>1
<1>4. ASSUME NEW n \in Nat, n \in N PROVE n + 1 \in N
  <2>1. ASSUME NEW s \in SUBSET C, NEW x \in C \ s, Cardinality(s) = n + 1
        PROVE  g[s \cup {x}] = f[x] + g[s]
    <3> DEFINE t == s \cup {x}
               y == ch[t]
               r == s \ {y}
    <3>1. t \in SUBSET C /\ t # {} /\ y \in t
      BY DEF Picks
    <3>2. CASE y = x
      BY <1>2, <3>2
    <3>3. CASE y # x
      <4>1. y \in s /\ r \in SUBSET C /\ x \in C \ r /\ y \in C \ r
        BY <3>1, <3>3
      <4>2. Cardinality(r) = n
        <5>1. Cardinality(r) = Cardinality(s) - 1
          BY Zenon, <1>0, <4>1
        <5> QED BY <2>1, <5>1
      <4>3. g[r \cup {x}] = f[x] + g[r] /\ g[r \cup {y}] = f[y] + g[r]
        <5> HIDE DEF r, y, t
        <5> QED BY Zenon, <1>4, <4>1, <4>2
      <4>4. r \cup {y} = s /\ t \ {y} = r \cup {x}
        BY <3>3, <4>1
      <4>5. g[t] = f[y] + g[t \ {y}]
        <5> HIDE DEF t
        <5> QED BY Zenon, <1>11, <3>1
      <4>6. g[r] \in Int /\ f[x] \in Int /\ f[y] \in Int
        <5> HIDE DEF r, y, t
        <5> QED BY <1>1, <4>1
      <4>7. g[t] = f[y] + (f[x] + g[r]) /\ g[s] = f[y] + g[r]
        BY Zenon, <4>3, <4>4, <4>5
      <4>8. g[t] = f[x] + g[s]
        <5> HIDE DEF r, y, t
        <5> QED BY <4>6, <4>7
      <4> QED BY <4>8
    <3> QED BY <3>2, <3>3
  <2> QED BY <2>1
<1>5. Nat \subseteq N
  <2> HIDE DEF N
  <2> QED BY <1>3, <1>4, Induct
<1> QED BY Zenon, <1>0, <1>5 DEF Additive

(* Two sums: f exceeds e by at most b, and only within T.                  *)
LEMMA SumCompare ==
  ASSUME NEW C, IsFiniteSet(C), NEW f \in [C -> Int], NEW e \in [C -> Int], NEW ch, Picks(ch, C),
         NEW g, Adds(g, f, ch, C), NEW h, Adds(h, e, ch, C),
         NEW T, NEW b \in Nat, \A x \in C : f[x] <= e[x] + (IF x \in T THEN b ELSE 0)
  PROVE  \A s \in SUBSET C : g[s] <= h[s] + b * Cardinality(s \cap T)
<1> DEFINE P == {s \in SUBSET C : g[s] <= h[s] + b * Cardinality(s \cap T)}
<1>1. /\ g \in [SUBSET C -> Int] /\ g[{}] = 0 /\ h \in [SUBSET C -> Int] /\ h[{}] = 0
  BY Zenon, SumType
<1>2. Additive(g, f, C) /\ Additive(h, e, C)
  BY Zenon, SumAdds
<1>3. {} \in P
  <2>1. {} \cap T = {} /\ Cardinality({}) = 0
    BY FS_EmptySet
  <2> QED BY <1>1, <2>1
<1>4. ASSUME NEW s \in SUBSET C, NEW x \in C \ s, s \in P PROVE s \cup {x} \in P
  <2>1. IsFiniteSet(s \cap T) /\ Cardinality(s \cap T) \in Nat
    BY FS_Subset, FS_CardinalityType
  <2>2. g[s \cup {x}] = f[x] + g[s] /\ h[s \cup {x}] = e[x] + h[s]
    BY Zenon, <1>2 DEF Additive
  <2>3. g[s] \in Int /\ h[s] \in Int /\ f[x] \in Int /\ e[x] \in Int
    BY <1>1
  <2>4. g[s] <= h[s] + b * Cardinality(s \cap T)
    BY <1>4
  <2>5. CASE x \in T
    <3>1. (s \cup {x}) \cap T = (s \cap T) \cup {x}
      BY <2>5
    <3>2. Cardinality((s \cap T) \cup {x}) = Cardinality(s \cap T) + 1
      BY Zenon, <2>1, FS_AddElement
    <3>3. f[x] <= e[x] + b
      BY <2>5
    <3> DEFINE k == Cardinality(s \cap T)
    <3>4. b * (k + 1) = b * k + b /\ b * k \in Int
      <4>1. k \in Nat
        BY <2>1
      <4> HIDE DEF k
      <4> QED BY <4>1
    <3>5. g[s \cup {x}] <= h[s \cup {x}] + b * (k + 1)
      <4> DEFINE m == b * k
                 w == b * (k + 1)
      <4>1. w = m + b /\ m \in Int /\ g[s] <= h[s] + m
        BY Zenon, <2>4, <3>4
      <4> HIDE DEF m, w, k
      <4>2. g[s \cup {x}] <= h[s \cup {x}] + w
        BY <2>2, <2>3, <3>3, <4>1
      <4> QED BY <4>2 DEF w
    <3> QED BY Zenon, <3>1, <3>2, <3>5
  <2>6. CASE x \notin T
    <3>1. (s \cup {x}) \cap T = s \cap T
      BY <2>6
    <3>2. f[x] <= e[x]
      BY <2>6
    <3>3. g[s \cup {x}] <= h[s \cup {x}] + b * Cardinality(s \cap T)
      <4> DEFINE m == b * Cardinality(s \cap T)
      <4>1. m \in Int
        BY <2>1
      <4>2. g[s] <= h[s] + m
        BY <2>4
      <4> HIDE DEF m
      <4>3. g[s \cup {x}] <= h[s \cup {x}] + m
        BY <2>2, <2>3, <3>2, <4>1, <4>2
      <4> QED BY <4>3 DEF m
    <3> QED BY Zenon, <3>1, <3>3
  <2> QED BY <2>5, <2>6
<1>5. SUBSET C \subseteq P
  <2> HIDE DEF P
  <2> QED BY <1>3, <1>4, SetInduct
<1> QED BY <1>5

---------------------------------------------------------------------------
(* F[<<i, x>>] is what step i makes of x; Iterates says that g holds the   *)
(* results of the first n steps from e.  Functions of this kind exist: a   *)
(* recursive definition over 0..n has the value its equation says.         *)
Closed(F, n, S) == \A i \in 1..n : \A x \in S : F[<<i, x>>] \in S
Iterates(g, F, n, S, e) ==
  g \in [0..n -> S] /\ g[0] = e /\ \A i \in 1..n : g[i] = F[<<i, g[i - 1]>>]

LEMMA Iterate ==
  ASSUME NEW n \in Nat, NEW S, NEW e \in S, NEW F, Closed(F, n, S)
  PROVE  \E g : Iterates(g, F, n, S, e)
<1> USE DEF Closed, Iterates
<1> DEFINE Runs(k, g) == g \in [0..k -> S] /\ g[0] = e /\ \A i \in 1..k : g[i] = F[<<i, g[i - 1]>>]
           T == {k \in Nat : k <= n => \E g : Runs(k, g)}
<1>1. 0 \in T
  <2>1. Runs(0, [i \in 0..0 |-> e])
    OBVIOUS
  <2> QED BY <2>1
<1>2. ASSUME NEW k \in Nat, k \in T PROVE k + 1 \in T
  <2> SUFFICES ASSUME k + 1 <= n PROVE \E g : Runs(k + 1, g)
    OBVIOUS
  <2>1. PICK g : Runs(k, g)
    BY <1>2
  <2> DEFINE h == [i \in 0..(k + 1) |-> IF i <= k THEN g[i] ELSE F[<<k + 1, g[k]>>]]
  <2>2. g[k] \in S /\ k + 1 \in 1..n
    BY <2>1
  <2>3. h \in [0..(k + 1) -> S] /\ h[0] = e
    BY <2>1, <2>2
  <2>4. ASSUME NEW i \in 1..(k + 1) PROVE h[i] = F[<<i, h[i - 1]>>]
    <3>1. i - 1 \in 0..k /\ i - 1 \in 0..(k + 1) /\ i - 1 <= k
      OBVIOUS
    <3>11. h[i - 1] = g[i - 1]
      BY <3>1
    <3>2. CASE i <= k
      BY <2>1, <3>1, <3>11, <3>2
    <3>3. CASE i = k + 1
      BY <3>1, <3>11, <3>3
    <3> QED BY <3>2, <3>3
  <2>5. Runs(k + 1, h)
    BY <2>3, <2>4
  <2> QED BY <2>5
<1>3. n \in T
  <2> HIDE DEF T
  <2>1. Nat \subseteq T
    BY Zenon, <1>1, <1>2, Induct
  <2> QED BY <2>1
<1> QED BY <1>3

---------------------------------------------------------------------------
(* The members of a finite set of numbers in ascending order: there is one *)
(* such enumeration, and only one.                                         *)
Ascends(g, n, S) ==
  /\ g \in [1..n -> S]
  /\ \A i, j \in 1..n : i < j => g[i] < g[j]
  /\ \A x \in S : \E i \in 1..n : g[i] = x

LEMMA AscendAfter ==
  ASSUME NEW T, T \subseteq Nat, NEW n \in Nat, NEW m \in T, \A x \in T : m <= x,
         NEW h, Ascends(h, n, T \ {m})
  PROVE  \E g : Ascends(g, n + 1, T)
<1> DEFINE g == [i \in 1..(n + 1) |-> IF i = 1 THEN m ELSE h[i - 1]]
<1>1. \A i \in 1..n : h[i] \in T /\ h[i] \in Nat /\ m < h[i]
  <2> SUFFICES ASSUME NEW i \in 1..n PROVE h[i] \in T /\ h[i] \in Nat /\ m < h[i]
    OBVIOUS
  <2>1. h[i] \in T /\ h[i] # m
    BY DEF Ascends
  <2>2. h[i] \in Nat /\ m \in Nat /\ m <= h[i]
    BY <2>1
  <2> QED BY <2>1, <2>2
<1>2. \A i \in 1..(n + 1) : i # 1 => i - 1 \in 1..n /\ g[i] = h[i - 1]
  OBVIOUS
<1>3. g[1] = m /\ m \in Nat
  OBVIOUS
<1>4. g \in [1..(n + 1) -> T]
  BY <1>1, <1>2, <1>3
<1>5. ASSUME NEW i \in 1..(n + 1), NEW j \in 1..(n + 1), i < j PROVE g[i] < g[j]
  <2>1. j # 1 /\ j - 1 \in 1..n /\ g[j] = h[j - 1]
    BY <1>2, <1>5
  <2>2. CASE i = 1
    BY <1>1, <1>3, <2>1, <2>2
  <2>3. CASE i # 1
    <3>1. i - 1 \in 1..n /\ g[i] = h[i - 1] /\ i - 1 < j - 1
      BY <1>2, <1>5, <2>3
    <3> HIDE DEF g
    <3> QED BY <2>1, <3>1 DEF Ascends
  <2> QED BY <2>2, <2>3
<1>6. ASSUME NEW x \in T PROVE \E i \in 1..(n + 1) : g[i] = x
  <2>1. CASE x = m
    BY <1>3, <2>1
  <2>2. CASE x # m
    <3>1. PICK i \in 1..n : h[i] = x
      BY <2>2 DEF Ascends
    <3>2. i + 1 \in 1..(n + 1) /\ g[i + 1] = x
      BY <3>1
    <3> QED BY <3>2
  <2> QED BY <2>1, <2>2
<1> HIDE DEF g
<1>7. Ascends(g, n + 1, T)
  BY <1>4, <1>5, <1>6 DEF Ascends
<1> QED BY <1>7

LEMMA Ascending ==
  ASSUME NEW S, S \subseteq Nat, IsFiniteSet(S)
  PROVE  \E g : Ascends(g, Cardinality(S), S)
<1> DEFINE N == {n \in Nat : \A T \in SUBSET S : Cardinality(T) = n => \E g : Ascends(g, n, T)}
<1>0. \A T \in SUBSET S : IsFiniteSet(T) /\ Cardinality(T) \in Nat
  BY Zenon, FS_Subset, FS_CardinalityType
<1>1. 0 \in N
  <2> SUFFICES ASSUME NEW T \in SUBSET S, Cardinality(T) = 0 PROVE \E g : Ascends(g, 0, T)
    OBVIOUS
  <2>1. T = {}
    BY Zenon, <1>0, FS_EmptySet
  <2>2. Ascends([i \in 1..0 |-> 0], 0, {})
    BY DEF Ascends
  <2> QED BY <2>1, <2>2
<1>2. ASSUME NEW n \in Nat, n \in N PROVE n + 1 \in N
  <2> SUFFICES ASSUME NEW T \in SUBSET S, Cardinality(T) = n + 1 PROVE \E g : Ascends(g, n + 1, T)
    OBVIOUS
  <2>1. T # {}
    <3>1. n + 1 # 0
      OBVIOUS
    <3> QED BY Zenon, <3>1, FS_EmptySet
  <2>2. PICK m \in T : \A x \in T : m <= x
    <3>1. T \subseteq Nat
      OBVIOUS
    <3> QED BY Zenon, <2>1, <3>1, Least
  <2>3. Cardinality(T \ {m}) = Cardinality(T) - 1
    BY Zenon, <1>0, FS_RemoveElement
  <2>4. Cardinality(T \ {m}) = n
    BY <2>3
  <2>5. PICK h : Ascends(h, n, T \ {m})
    BY <1>2, <2>4
  <2> QED BY <2>2, <2>5, AscendAfter
<1>3. Nat \subseteq N
  <2> HIDE DEF N
  <2> QED BY Zenon, <1>1, <1>2, Induct
<1>4. Cardinality(S) \in N
  BY <1>0, <1>3
<1> QED BY <1>4

LEMMA AscendsOnce ==
  ASSUME NEW S, S \subseteq Nat, NEW n \in Nat, NEW g, NEW h, Ascends(g, n, S), Ascends(h, n, S)
  PROVE  g = h
<1> DEFINE N == {k \in Nat : \A i \in 1..n : i <= k => g[i] = h[i]}
<1>0. /\ \A i \in 1..n : g[i] \in Nat /\ h[i] \in Nat /\ g[i] \in S /\ h[i] \in S
      /\ \A i, j \in 1..n : i < j => g[i] < g[j] /\ h[i] < h[j]
      /\ \A x \in S : \E i \in 1..n : g[i] = x
      /\ \A x \in S : \E i \in 1..n : h[i] = x
  BY DEF Ascends
<1>1. 0 \in N
  OBVIOUS
<1>2. ASSUME NEW k \in Nat, k \in N PROVE k + 1 \in N
  <2> SUFFICES ASSUME k + 1 \in 1..n PROVE g[k + 1] = h[k + 1]
    BY <1>2
  <2>0. \A i \in 1..n : i < k + 1 => g[i] = h[i]
    BY <1>2
  <2> DEFINE a == g[k + 1]  b == h[k + 1]
  <2>1. a <= b
    <3>1. PICK j \in 1..n : g[j] = b
      BY <1>0
    <3>2. CASE j < k + 1
      <4>1. h[j] = b /\ h[j] < b /\ b \in Nat
        BY <1>0, <2>0, <3>1, <3>2
      <4> QED BY <4>1
    <3>3. CASE j >= k + 1
      BY <1>0, <3>1, <3>3
    <3> QED BY <3>2, <3>3
  <2>2. b <= a
    <3>1. PICK j \in 1..n : h[j] = a
      BY <1>0
    <3>2. CASE j < k + 1
      <4>1. g[j] = a /\ g[j] < a /\ a \in Nat
        BY <1>0, <2>0, <3>1, <3>2
      <4> QED BY <4>1
    <3>3. CASE j >= k + 1
      BY <1>0, <3>1, <3>3
    <3> QED BY <3>2, <3>3
  <2>3. a \in Nat /\ b \in Nat
    BY <1>0
  <2> HIDE DEF a, b
  <2>4. a = b
    BY <2>1, <2>2, <2>3
  <2> QED BY <2>4 DEF a, b
<1>3. n \in N
  <2>1. Nat \subseteq N
    <3> HIDE DEF N
    <3> QED BY Zenon, <1>1, <1>2, Induct
  <2> QED BY <2>1
<1> QED BY <1>3 DEF Ascends
=============================================================================
