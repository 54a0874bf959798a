---------------------------- MODULE SumTheorems ----------------------------
(***************************************************************************)
(* Sums over finite sets, MapThenSumSet of FiniteSetsExt: that such a sum  *)
(* is well defined, its type, how it changes when one summand does, and    *)
(* how sums of groups, images and unions add up; and that a recursion on   *)
(* the natural numbers has one result.                                     *)
(* The induction over subsets that this takes is done by least             *)
(* counterexample: the finite subsets are well founded under strict        *)
(* inclusion, so a set of them, those where the claim fails, has a least   *)
(* member unless it is empty.                                              *)
(***************************************************************************)
EXTENDS Integers, FiniteSets, FiniteSetsExt, FiniteSetTheorems, WellFoundedInduction,
        TLAPS

(* The element that MapThenSumSet takes out of a set next. *)
Chosen(s) == CHOOSE x \in s : TRUE

(* g gives the sum of f over every subset of S, by recursion over them. *)
SumsTo(g, f, S) ==
  g = [s \in SUBSET S |->
         IF s = {} THEN 0 ELSE f[Chosen(s)] + g[s \ {Chosen(s)}]]

(* The sum of a function over a set. *)
SumOf(f, S) == MapThenSumSet(LAMBDA x : f[x], S)

-----------------------------------------------------------------------------

(* A set of subsets of a finite set has one that includes no other. *)
LEMMA LeastSubset ==
  ASSUME NEW S, IsFiniteSet(S), NEW B, B \subseteq SUBSET S, B # {}
  PROVE  \E T \in B : \A U \in B : U \subseteq T => U = T
<1>1. IsWellFoundedOn(StrictSubsetOrdering(S), FiniteSubsetsOf(S))
  BY FS_StrictSubsetOrderingWellFounded
<1>2. B \subseteq FiniteSubsetsOf(S)
  BY FS_Subset DEF FiniteSubsetsOf
<1>3. PICK T \in B : \A U \in B : ~ (<<U, T>> \in StrictSubsetOrdering(S))
  BY <1>1, <1>2, WFMin
<1>4. ASSUME NEW U \in B, U \subseteq T, U # T
      PROVE  FALSE
  BY <1>3, <1>4 DEF StrictSubsetOrdering
<1> QED BY <1>4

(* What is taken out of a set is in it. *)
LEMMA ChosenIn == ASSUME NEW s, s # {} PROVE Chosen(s) \in s
BY DEF Chosen

(* Two functions that sum f up agree wherever both do. *)
LEMMA SumUnique ==
  ASSUME NEW S, NEW T, IsFiniteSet(S), NEW f, NEW g, NEW h, SumsTo(g, f, S), SumsTo(h, f, T)
  PROVE  \A s \in (SUBSET S) \cap (SUBSET T) : g[s] = h[s]
<1> DEFINE B == {s \in (SUBSET S) \cap (SUBSET T) : g[s] # h[s]}
<1>1. SUFFICES ASSUME B # {} PROVE FALSE
  OBVIOUS
<1>2. PICK s \in B : \A U \in B : U \subseteq s => U = s
  <2>1. B \subseteq SUBSET S
    OBVIOUS
  <2> HIDE DEF B
  <2> QED BY <1>1, <2>1, LeastSubset
<1>3. s # {}
  BY DEF SumsTo
<1>4. Chosen(s) \in s
  BY <1>3, ChosenIn
<1>5. s \ {Chosen(s)} \notin B /\ s \ {Chosen(s)} \in (SUBSET S) \cap (SUBSET T)
  BY <1>2, <1>4
<1>6. g[s] = f[Chosen(s)] + g[s \ {Chosen(s)}] /\ h[s] = f[Chosen(s)] + h[s \ {Chosen(s)}]
  BY <1>3 DEF SumsTo
<1> QED BY <1>5, <1>6

(* Every function has its sums over the subsets of a finite set. *)
LEMMA SumExists ==
  ASSUME NEW S, IsFiniteSet(S), NEW f
  PROVE  \E g : SumsTo(g, f, S)
<1> DEFINE B == {T \in SUBSET S : ~ \E g : SumsTo(g, f, T)}
<1>1. SUFFICES ASSUME B # {} PROVE FALSE
  BY S \in SUBSET S
<1>2. PICK T \in B : \A U \in B : U \subseteq T => U = T
  <2>1. B \subseteq SUBSET S
    OBVIOUS
  <2> HIDE DEF B
  <2> QED BY <1>1, <2>1, LeastSubset
<1> DEFINE G(U) == CHOOSE g : SumsTo(g, f, U)
<1>3. \A U \in SUBSET T : U # T => SumsTo(G(U), f, U)
  BY <1>2
<1> DEFINE V(s) == IF s = T /\ s # {} THEN f[Chosen(T)] + G(T \ {Chosen(T)})[T \ {Chosen(T)}]
                   ELSE IF s = T THEN 0 ELSE G(s)[s]
<1> DEFINE h == [s \in SUBSET T |-> V(s)]
<1> HIDE DEF G, B
<1>4. ASSUME NEW s \in SUBSET T
      PROVE  h[s] = IF s = {} THEN 0 ELSE f[Chosen(s)] + h[s \ {Chosen(s)}]
  <2>1. CASE s = {}
    <3>1. CASE s = T
      BY <2>1, <3>1
    <3>2. CASE s # T
      BY <2>1, <3>2, <1>3 DEF SumsTo
    <3> QED BY <3>1, <3>2
  <2>2. CASE s # {} /\ s = T
    <3>1. Chosen(T) \in T
      BY <2>2, ChosenIn
    <3>2. h[T \ {Chosen(T)}] = G(T \ {Chosen(T)})[T \ {Chosen(T)}]
      BY <3>1
    <3> QED BY <2>2, <3>2
  <2>3. CASE s # {} /\ s # T
    <3>1. Chosen(s) \in s
      BY <2>3, ChosenIn
    <3> DEFINE u == s \ {Chosen(s)}
    <3>2. u \in SUBSET s /\ u \in SUBSET T /\ u # T
      BY <3>1
    <3>3. SumsTo(G(s), f, s) /\ SumsTo(G(u), f, u)
      BY <2>3, <3>2, <1>3
    <3>4. IsFiniteSet(s)
      BY FS_Subset, <1>2, T \in SUBSET S DEF B
    <3>5. G(s)[u] = G(u)[u]
      BY <3>2, <3>3, <3>4, SumUnique
    <3>6. G(s)[s] = f[Chosen(s)] + G(s)[u]
      BY <2>3, <3>3 DEF SumsTo
    <3> QED BY <2>3, <3>2, <3>5, <3>6
  <2> QED BY <2>1, <2>2, <2>3
<1>5. SumsTo(h, f, T)
  <2> HIDE DEF V
  <2>1. h = [s \in SUBSET T |-> h[s]]
    OBVIOUS
  <2> QED BY <1>4, <2>1 DEF SumsTo
<1> QED BY <1>2, <1>5 DEF B

(* The fold computes such a sum. *)
LEMMA SumOfIs ==
  ASSUME NEW S, IsFiniteSet(S), NEW f
  PROVE  \E g : SumsTo(g, f, S) /\ SumOf(f, S) = g[S]
<1> DEFINE g == CHOOSE g : SumsTo(g, f, S)
<1>1. SumsTo(g, f, S)
  BY SumExists
<1>2. SumOf(f, S) = g[S]
  BY DEF SumOf, MapThenSumSet, MapThenFoldSet, SumsTo, Chosen
<1> QED BY <1>1, <1>2

(* A set closed under addition holds the sums of its elements. *)
LEMMA SumType ==
  ASSUME NEW S, IsFiniteSet(S), NEW N, 0 \in N, \A m, n \in N : m + n \in N,
         NEW f, \A x \in S : f[x] \in N, NEW g, SumsTo(g, f, S)
  PROVE  \A s \in SUBSET S : g[s] \in N
<1> DEFINE B == {s \in SUBSET S : g[s] \notin N}
<1>1. SUFFICES ASSUME B # {} PROVE FALSE
  OBVIOUS
<1>2. PICK s \in B : \A U \in B : U \subseteq s => U = s
  <2>1. B \subseteq SUBSET S
    OBVIOUS
  <2> HIDE DEF B
  <2> QED BY <1>1, <2>1, LeastSubset
<1>3. s # {}
  BY DEF SumsTo
<1>4. Chosen(s) \in s /\ f[Chosen(s)] \in N
  BY <1>3, ChosenIn
<1>5. g[s \ {Chosen(s)}] \in N
  BY <1>2, <1>4
<1>6. g[s] = f[Chosen(s)] + g[s \ {Chosen(s)}]
  BY <1>3 DEF SumsTo
<1> QED BY <1>4, <1>5, <1>6

(* Summands that differ at one place only differ in their sums by as much. *)
LEMMA SumChange ==
  ASSUME NEW S, IsFiniteSet(S), NEW a \in S,
         NEW f, NEW h, \A x \in S : f[x] \in Int /\ h[x] \in Int,
         \A x \in S : x # a => h[x] = f[x],
         NEW g, SumsTo(g, f, S), NEW k, SumsTo(k, h, S)
  PROVE  \A s \in SUBSET S : k[s] = g[s] + IF a \in s THEN h[a] - f[a] ELSE 0
<1> DEFINE B == {s \in SUBSET S : k[s] # g[s] + IF a \in s THEN h[a] - f[a] ELSE 0}
<1>1. SUFFICES ASSUME B # {} PROVE FALSE
  OBVIOUS
<1>2. PICK s \in B : \A U \in B : U \subseteq s => U = s
  <2>1. B \subseteq SUBSET S
    OBVIOUS
  <2> HIDE DEF B
  <2> QED BY <1>1, <2>1, LeastSubset
<1>3. s # {}
  BY DEF SumsTo
<1> DEFINE u == s \ {Chosen(s)}
<1>4. Chosen(s) \in s /\ Chosen(s) \in S /\ u \in SUBSET S
  BY <1>3, ChosenIn
<1>5. k[u] = g[u] + IF a \in u THEN h[a] - f[a] ELSE 0
  BY <1>2, <1>4
<1>6. g[s] = f[Chosen(s)] + g[u] /\ k[s] = h[Chosen(s)] + k[u]
  BY <1>3 DEF SumsTo
<1>7. g[u] \in Int
  BY <1>4, SumType
<1>8. k[s] = g[s] + IF a \in s THEN h[a] - f[a] ELSE 0
  <2>1. CASE Chosen(s) = a
    BY <1>4, <1>5, <1>6, <1>7, <2>1
  <2>2. CASE Chosen(s) # a
    BY <1>4, <1>5, <1>6, <1>7, <2>2
  <2> QED BY <2>1, <2>2
<1> QED BY <1>2, <1>8

-----------------------------------------------------------------------------

(* A sum of natural numbers is one. *)
LEMMA SumOfType ==
  ASSUME NEW S, IsFiniteSet(S), NEW f, \A x \in S : f[x] \in Nat
  PROVE  SumOf(f, S) \in Nat
<1>1. PICK g : SumsTo(g, f, S) /\ SumOf(f, S) = g[S]
  BY SumOfIs
<1>2. \A s \in SUBSET S : g[s] \in Nat
  <2>1. 0 \in Nat /\ \A m, n \in Nat : m + n \in Nat
    OBVIOUS
  <2> DEFINE N == Nat
  <2>2. 0 \in N /\ (\A m, n \in N : m + n \in N) /\ \A x \in S : f[x] \in N
    BY <2>1
  <2> HIDE DEF N
  <2>3. \A s \in SUBSET S : g[s] \in N
    BY <1>1, <2>2, SumType
  <2> QED BY <2>3 DEF N
<1> QED BY <1>1, <1>2

(* Replacing one summand changes the sum by the difference. *)
LEMMA SumOfChange ==
  ASSUME NEW S, IsFiniteSet(S), NEW a \in S,
         NEW f, NEW h, \A x \in S : f[x] \in Int /\ h[x] \in Int,
         \A x \in S : x # a => h[x] = f[x]
  PROVE  SumOf(h, S) = SumOf(f, S) + h[a] - f[a]
<1>1. PICK g : SumsTo(g, f, S) /\ SumOf(f, S) = g[S]
  BY SumOfIs
<1>2. PICK k : SumsTo(k, h, S) /\ SumOf(h, S) = k[S]
  BY SumOfIs
<1>3. g[S] \in Int
  BY <1>1, SumType
<1>4. k[S] = g[S] + (h[a] - f[a])
  BY <1>1, <1>2, SumChange
<1> QED BY <1>1, <1>2, <1>3, <1>4

(* Whatever sums f up is its total: what a fold over other expressions of  *)
(* the same summands is compared by.                                       *)
LEMMA SumOfUnique ==
  ASSUME NEW S, IsFiniteSet(S), NEW f, NEW g, SumsTo(g, f, S)
  PROVE  g[S] = SumOf(f, S)
<1>1. PICK h : SumsTo(h, f, S) /\ SumOf(f, S) = h[S]
  BY SumOfIs
<1> QED BY <1>1, SumUnique

(* Nothing but zeros sums to zero. *)
LEMMA SumOfZero ==
  ASSUME NEW S, IsFiniteSet(S), NEW f, \A x \in S : f[x] = 0
  PROVE  SumOf(f, S) = 0
  <1>1. PICK g : SumsTo(g, f, S) /\ SumOf(f, S) = g[S]
    BY SumOfIs
  <1> DEFINE N == {0}
  <1>2. 0 \in N /\ (\A m, n \in N : m + n \in N) /\ \A x \in S : f[x] \in N
    OBVIOUS
  <1> HIDE DEF N
  <1>3. \A s \in SUBSET S : g[s] \in N
    BY <1>1, <1>2, SumType
  <1> QED
    BY <1>1, <1>3 DEF N

(* What two disjoint sets hold together. *)
LEMMA DisjointUnion ==
  ASSUME NEW S, NEW T, IsFiniteSet(S), IsFiniteSet(T), S \cap T = {}
  PROVE  /\ IsFiniteSet(S \cup T)
         /\ Cardinality(S \cup T) = Cardinality(S) + Cardinality(T)
  <1>1. /\ IsFiniteSet(S \cup T)
        /\ Cardinality(S \cup T) = Cardinality(S) + Cardinality(T) - Cardinality(S \cap T)
    BY FS_Union
  <1>2. Cardinality(S \cap T) = 0
    BY FS_EmptySet
  <1>3. Cardinality(S) \in Nat /\ Cardinality(T) \in Nat
    BY FS_CardinalityType
  <1> QED
    BY <1>1, <1>2, <1>3

-----------------------------------------------------------------------------
(* Sums of sums. *)

(* What holds of no element and of one element more holds of them all.     *)
LEMMA OneMore ==
  ASSUME NEW S, IsFiniteSet(S), NEW P, {} \in P,
         \A s \in SUBSET S : \A x \in s : s \ {x} \in P => s \in P
  PROVE  S \in P
<1> DEFINE B == (SUBSET S) \ P
<1>1. SUFFICES ASSUME B # {} PROVE FALSE
  BY S \in SUBSET S
<1>2. PICK s \in B : \A U \in B : U \subseteq s => U = s
  <2>1. B \subseteq SUBSET S
    OBVIOUS
  <2> HIDE DEF B
  <2> QED BY <1>1, <2>1, LeastSubset
<1>3. PICK x \in s : TRUE
  BY <1>2
<1>4. s \ {x} \notin B /\ s \ {x} \in SUBSET S
  BY <1>2, <1>3
<1> QED BY <1>2, <1>3, <1>4

TakesOut(g, f, S) == \A s \in SUBSET S : \A x \in s : g[s] = f[x] + g[s \ {x}]

(* Any element can be taken out first. *)
LEMMA TakeOut ==
  ASSUME NEW S, IsFiniteSet(S), NEW f, \A x \in S : f[x] \in Int, NEW g, SumsTo(g, f, S)
  PROVE  TakesOut(g, f, S)
<1> DEFINE B == {s \in SUBSET S : \E x \in s : g[s] # f[x] + g[s \ {x}]}
<1>1. SUFFICES ASSUME B # {} PROVE FALSE
  <2>1. B = {} => \A s \in SUBSET S : s \notin B
    OBVIOUS
  <2>2. \A s \in SUBSET S : s \notin B => \A x \in s : g[s] = f[x] + g[s \ {x}]
    OBVIOUS
  <2> HIDE DEF B
  <2> QED BY <2>1, <2>2, Zenon DEF TakesOut
<1>2. PICK s \in B : \A U \in B : U \subseteq s => U = s
  <2>1. B \subseteq SUBSET S
    OBVIOUS
  <2> HIDE DEF B
  <2> QED BY <1>1, <2>1, LeastSubset
<1>3. PICK x \in s : g[s] # f[x] + g[s \ {x}]
  BY <1>2
<1> DEFINE c == Chosen(s)
           u == s \ {c}
           v == s \ {x}
           w == (s \ {c}) \ {x}
<1>4. c \in s /\ g[s] = f[c] + g[u]
  BY <1>2, <1>3, ChosenIn DEF SumsTo
<1> HIDE DEF c
<1>5. c # x
  BY <1>3, <1>4
<1>6. u \in SUBSET S /\ u \notin B /\ v \in SUBSET S /\ v \notin B
  BY <1>2, <1>3, <1>4
<1>7. g[u] = f[x] + g[w]
  <2>1. x \in u
    BY <1>3, <1>5
  <2> QED BY <1>6, <2>1
<1>8. g[v] = f[c] + g[w]
  <2>1. c \in v /\ v \ {c} = w
    BY <1>4, <1>5
  <2> QED BY <1>6, <2>1
<1>9. g[w] \in Int /\ f[c] \in Int /\ f[x] \in Int
  <2>1. w \in SUBSET S
    BY <1>2
  <2>2. \A t \in SUBSET S : g[t] \in Int
    <3>1. \A m, n \in Int : m + n \in Int
      OBVIOUS
    <3> DEFINE N == Int
    <3>2. 0 \in N /\ (\A m, n \in N : m + n \in N) /\ \A y \in S : f[y] \in N
      BY <3>1
    <3> HIDE DEF N
    <3>3. \A t \in SUBSET S : g[t] \in N
      BY <3>2, SumType
    <3> QED BY <3>3 DEF N
  <2> QED BY <1>2, <1>3, <1>4, <2>1, <2>2
<1> HIDE DEF u, v, w
<1> QED BY <1>3, <1>4, <1>7, <1>8, <1>9 DEF v

OneByOne(f, S) ==
  /\ \A s \in SUBSET S : SumOf(f, s) \in Int
  /\ SumOf(f, {}) = 0
  /\ \A s \in SUBSET S : \A x \in s : SumOf(f, s) = f[x] + SumOf(f, s \ {x})

(* The sum is a number, nothing for nothing, and grows by what is added.   *)
LEMMA SumOfOneMore ==
  ASSUME NEW S, IsFiniteSet(S), NEW f, \A x \in S : f[x] \in Int
  PROVE  OneByOne(f, S)
<1>1. PICK g : SumsTo(g, f, S)
  BY SumExists
<1>2. \A s \in SUBSET S : SumOf(f, s) = g[s]
  <2>1. TAKE s \in SUBSET S
  <2>2. IsFiniteSet(s)
    BY FS_Subset
  <2>3. PICK h : SumsTo(h, f, s) /\ SumOf(f, s) = h[s]
    BY <2>2, SumOfIs
  <2>4. s \in (SUBSET s) \cap (SUBSET S)
    OBVIOUS
  <2>5. \A t \in (SUBSET s) \cap (SUBSET S) : h[t] = g[t]
    BY <1>1, <2>2, <2>3, SumUnique
  <2>6. h[s] = g[s]
    BY <2>4, <2>5
  <2> QED BY <2>3, <2>6
<1>3. \A t \in SUBSET S : g[t] \in Int
  <2>1. \A m, n \in Int : m + n \in Int
    OBVIOUS
  <2> DEFINE N == Int
  <2>2. 0 \in N /\ (\A m, n \in N : m + n \in N) /\ \A y \in S : f[y] \in N
    BY <2>1
  <2> HIDE DEF N
  <2>3. \A t \in SUBSET S : g[t] \in N
    BY <1>1, <2>2, SumType
  <2> QED BY <2>3 DEF N
<1>4. g[{}] = 0
  BY <1>1 DEF SumsTo
<1>5. TakesOut(g, f, S)
  BY <1>1, TakeOut
<1>6. ASSUME NEW s \in SUBSET S, NEW x \in s PROVE SumOf(f, s) = f[x] + SumOf(f, s \ {x})
  <2>1. s \ {x} \in SUBSET S
    OBVIOUS
  <2>2. SumOf(f, s) = g[s] /\ SumOf(f, s \ {x}) = g[s \ {x}]
    BY <1>2, <2>1
  <2> QED BY <1>5, <2>2 DEF TakesOut
<1>7. {} \in SUBSET S
  OBVIOUS
<1> QED BY <1>2, <1>3, <1>4, <1>6, <1>7 DEF OneByOne

(* Functions that agree have the same sums. *)
LEMMA SumOfSame ==
  ASSUME NEW S, IsFiniteSet(S), NEW f, NEW h, \A x \in S : f[x] = h[x]
  PROVE  SumOf(f, S) = SumOf(h, S)
<1>1. PICK g : SumsTo(g, f, S) /\ SumOf(f, S) = g[S]
  BY SumOfIs
<1> DEFINE At(k) == [s \in SUBSET S |-> IF s = {} THEN 0 ELSE k[Chosen(s)] + g[s \ {Chosen(s)}]]
<1>2. \A s \in SUBSET S : s # {} => f[Chosen(s)] = h[Chosen(s)]
  BY ChosenIn
<1>3. At(f) = At(h)
  BY <1>2
<1>4. SumsTo(g, h, S)
  BY <1>1, <1>3 DEF SumsTo
<1> QED BY <1>1, <1>4, SumOfUnique

(* Each element counts once in the group of its key, so that the groups of *)
(* a finite set of keys together hold what there is.                       *)
LEMMA SumOfGroups ==
  ASSUME NEW D, IsFiniteSet(D), NEW f, \A d \in D : f[d] \in Int,
         NEW K, IsFiniteSet(K), NEW key, \A d \in D : key[d] \in K
  PROVE  SumOf(f, D) = SumOf([k \in K |-> SumOf(f, {d \in D : key[d] = k})], K)
<1>1. /\ \A s \in SUBSET D : SumOf(f, s) \in Int
      /\ SumOf(f, {}) = 0
      /\ \A s \in SUBSET D : \A x \in s : SumOf(f, s) = f[x] + SumOf(f, s \ {x})
  <2>1. OneByOne(f, D)
    BY SumOfOneMore
  <2> QED BY <2>1 DEF OneByOne
<1> DEFINE In(s, k)   == {d \in s : key[d] = k}
           Groups(s)  == [k \in K |-> SumOf(f, In(s, k))]
           P          == {s \in SUBSET D : SumOf(f, s) = SumOf(Groups(s), K)}
<1>2. \A s \in SUBSET D : \A k \in K : Groups(s)[k] \in Int
  BY <1>1
<1>3. {} \in P
  <2>1. \A k \in K : Groups({})[k] = 0
    <3>1. \A k \in K : In({}, k) = {}
      OBVIOUS
    <3> HIDE DEF In
    <3> QED BY <1>1, <3>1
  <2> HIDE DEF Groups
  <2>2. SumOf(Groups({}), K) = 0
    BY <2>1, SumOfZero
  <2> QED BY <1>1, <2>2
<1>4. ASSUME NEW s \in SUBSET D, NEW x \in s, s \ {x} \in P PROVE s \in P
  <2> DEFINE t == s \ {x}
             a == key[x]
             F == Groups(t)
             H == Groups(s)
  <2>1. a \in K /\ t \in SUBSET D /\ f[x] \in Int
    OBVIOUS
  <2>2. \A k \in K : k # a => H[k] = F[k]
    <3>1. \A k \in K : k # a => In(s, k) = In(t, k)
      OBVIOUS
    <3> HIDE DEF In
    <3> QED BY <3>1
  <2>3. H[a] = f[x] + F[a]
    <3>1. In(s, a) \in SUBSET D /\ x \in In(s, a) /\ In(s, a) \ {x} = In(t, a)
      OBVIOUS
    <3>2. H[a] = SumOf(f, In(s, a)) /\ F[a] = SumOf(f, In(t, a))
      BY <2>1
    <3> HIDE DEF In, H, F
    <3>3. SumOf(f, In(s, a)) = f[x] + SumOf(f, In(s, a) \ {x})
      BY <1>1, <3>1
    <3> QED BY <3>1, <3>2, <3>3
  <2>4. \A k \in K : F[k] \in Int /\ H[k] \in Int
    BY <1>2, <2>1
  <2> DEFINE A == SumOf(F, K)
             Z == SumOf(H, K)
  <2>5. SumOf(f, t) = A /\ SumOf(f, s) = f[x] + SumOf(f, t) /\ SumOf(f, t) \in Int
    BY <1>1, <1>4, <2>1
  <2> HIDE DEF F, H, t, a
  <2>6. Z = A + H[a] - F[a]
    BY <2>1, <2>2, <2>4, SumOfChange
  <2>7. A \in Int /\ F[a] \in Int
    BY <2>1, <2>4, <2>5
  <2> HIDE DEF A, Z
  <2>8. Z = SumOf(f, s)
    BY <2>1, <2>3, <2>5, <2>6, <2>7
  <2> QED BY <2>8 DEF Z, H
<1>5. D \in P
  <2> HIDE DEF P
  <2> QED BY <1>3, <1>4, OneMore
<1> QED BY <1>5

(* Summing over what a set is made of. *)
LEMMA SumOfImage ==
  ASSUME NEW K, IsFiniteSet(K), NEW G, \A k, l \in K : G[k] = G[l] => k = l,
         NEW v, \A k \in K : v[G[k]] \in Int
  PROVE  SumOf(v, {G[k] : k \in K}) = SumOf([k \in K |-> v[G[k]]], K)
<1> DEFINE R == {G[k] : k \in K}
           f == [k \in K |-> v[G[k]]]
           g == [r \in R |-> SumOf(f, {k \in K : G[k] = r})]
<1>1. IsFiniteSet(R)
  <2>1. [k \in K |-> G[k]] \in Surjection(K, R)
    BY DEF Surjection
  <2> QED BY <2>1, FS_Surjection
<1>2. \A k \in K : f[k] \in Int /\ G[k] \in R
  OBVIOUS
<1>3. SumOf(f, K) = SumOf(g, R)
  <2> HIDE DEF f, R
  <2> QED BY <1>1, <1>2, SumOfGroups DEF g
<1>4. ASSUME NEW r \in R PROVE g[r] = v[r]
  <2>1. PICK k \in K : r = G[k]
    OBVIOUS
  <2>2. {l \in K : G[l] = r} = {k}
    BY <2>1
  <2>3. SumOf(f, {k}) = f[k]
    <3> HIDE DEF f
    <3> DEFINE e == SumOf(f, {k} \ {k})
    <3>1. e = 0 /\ SumOf(f, {k}) = f[k] + e /\ f[k] \in Int
      <4>1. {k} \in SUBSET K /\ k \in {k} /\ {k} \ {k} = {}
        OBVIOUS
      <4>2. \A x \in K : f[x] \in Int
        BY <1>2
      <4>3. OneByOne(f, K)
        BY <4>2, SumOfOneMore
      <4> QED BY <4>1, <4>2, <4>3 DEF OneByOne
    <3> HIDE DEF e
    <3> QED BY <3>1
  <2> QED BY <2>1, <2>2, <2>3
<1> HIDE DEF f, R, g
<1>5. SumOf(g, R) = SumOf(v, R)
  BY <1>1, <1>4, SumOfSame
<1> QED BY <1>3, <1>5 DEF f, R

(* One for each element. *)
LEMMA SumOfOnes ==
  ASSUME NEW S, IsFiniteSet(S), NEW f, \A x \in S : f[x] = 1
  PROVE  SumOf(f, S) = Cardinality(S)
<1> DEFINE P == {s \in SUBSET S : SumOf(f, s) = Cardinality(s)}
<1>1. /\ SumOf(f, {}) = 0
      /\ \A s \in SUBSET S : \A x \in s : SumOf(f, s) = 1 + SumOf(f, s \ {x})
  <2>1. \A x \in S : f[x] \in Int
    OBVIOUS
  <2>2. OneByOne(f, S)
    BY <2>1, SumOfOneMore
  <2> QED BY <2>2 DEF OneByOne
<1>2. {} \in P
  BY <1>1, FS_EmptySet
<1>3. ASSUME NEW s \in SUBSET S, NEW x \in s, s \ {x} \in P PROVE s \in P
  <2>1. IsFiniteSet(s) /\ IsFiniteSet(s \ {x})
    BY FS_Subset
  <2>2. Cardinality(s \ {x}) = Cardinality(s) - 1 /\ Cardinality(s) \in Nat
    BY <2>1, FS_RemoveElement, FS_CardinalityType
  <2>3. SumOf(f, s) = 1 + SumOf(f, s \ {x}) /\ SumOf(f, s \ {x}) = Cardinality(s \ {x})
    BY <1>1, <1>3
  <2> QED BY <2>2, <2>3
<1>4. S \in P
  <2> HIDE DEF P
  <2> QED BY <1>2, <1>3, OneMore
<1> QED BY <1>4

(* Sums of sets that share nothing. *)
LEMMA SumOfUnion ==
  ASSUME NEW S, NEW T, IsFiniteSet(S), IsFiniteSet(T), S \cap T = {},
         NEW f, \A x \in S \cup T : f[x] \in Int
  PROVE  SumOf(f, S \cup T) = SumOf(f, S) + SumOf(f, T)
<1> DEFINE P == {s \in SUBSET T : SumOf(f, S \cup s) = SumOf(f, S) + SumOf(f, s)}
<1>1. IsFiniteSet(S \cup T)
  BY FS_Union
<1>2. /\ \A s \in SUBSET (S \cup T) : SumOf(f, s) \in Int
      /\ SumOf(f, {}) = 0
      /\ \A s \in SUBSET (S \cup T) : \A x \in s : SumOf(f, s) = f[x] + SumOf(f, s \ {x})
  <2>1. OneByOne(f, S \cup T)
    BY <1>1, SumOfOneMore
  <2> QED BY <2>1 DEF OneByOne
<1>3. {} \in P
  <2>1. S \cup {} = S /\ S \in SUBSET (S \cup T)
    OBVIOUS
  <2> DEFINE a == SumOf(f, S)
  <2>2. a \in Int
    BY <1>2, <2>1
  <2> HIDE DEF a
  <2>3. a = a + 0
    BY <2>2
  <2> QED BY <1>2, <2>1, <2>3 DEF a
<1>4. ASSUME NEW s \in SUBSET T, NEW x \in s, s \ {x} \in P PROVE s \in P
  <2> DEFINE t == s \ {x}
             a == SumOf(f, S)
             b == SumOf(f, t)
  <2>1. /\ S \in SUBSET (S \cup T) /\ t \in SUBSET (S \cup T) /\ s \in SUBSET (S \cup T)
        /\ S \cup s \in SUBSET (S \cup T) /\ x \in S \cup s /\ (S \cup s) \ {x} = S \cup t
        /\ f[x] \in Int
    OBVIOUS
  <2>2. a \in Int /\ b \in Int /\ SumOf(f, S \cup t) = a + b
    BY <1>2, <1>4, <2>1
  <2>3. SumOf(f, s) = f[x] + b
    BY <1>2, <2>1
  <2>4. SumOf(f, S \cup s) = f[x] + SumOf(f, (S \cup s) \ {x})
    BY <1>2, <2>1
  <2>5. SumOf(f, S \cup s) = f[x] + (a + b)
    BY <2>1, <2>2, <2>4
  <2> HIDE DEF b
  <2>6. f[x] + (a + b) = a + (f[x] + b)
    BY <2>1, <2>2
  <2> QED BY <2>3, <2>5, <2>6
<1>5. T \in P
  <2> HIDE DEF P
  <2> QED BY <1>3, <1>4, OneMore
<1> QED BY <1>5

-----------------------------------------------------------------------------
(* Recursion on the natural numbers, by least counterexample as above.     *)

(* A set of natural numbers has a least one, unless it is empty. *)
LEMMA LeastNumber ==
  ASSUME NEW B, B \subseteq Nat, B # {}
  PROVE  \E n \in B : \A m \in B : n <= m
<1>1. PICK n \in B : TRUE
  OBVIOUS
<1> DEFINE F == {0..m : m \in {l \in B : l <= n}}
           I == 0..n
<1>2. IsFiniteSet(I)
  BY <1>1, FS_Interval
<1>3. PICK T \in F : \A U \in F : U \subseteq T => U = T
  <2>1. F # {}
    BY <1>1
  <2>2. F \subseteq SUBSET I
    BY <1>1
  <2> HIDE DEF F, I
  <2> QED BY <1>2, <2>1, <2>2, LeastSubset
<1>4. PICK m \in B : m <= n /\ T = 0..m
  BY <1>3
<1>5. ASSUME NEW l \in B, ~ (m <= l) PROVE FALSE
  <2>1. 0..l \in F /\ 0..l \subseteq T /\ m \in T /\ m \notin 0..l
    BY <1>1, <1>4, <1>5
  <2> QED BY <1>3, <2>1
<1> QED BY <1>5

(* f goes from a on by the steps s, up to n. *)
Goes(f, a, s, n) == f[0] = a /\ \A m \in 0..(n - 1) : f[m + 1] = s[m][f[m]]

(* There is one way to go. *)
LEMMA OneWay ==
  ASSUME NEW a, NEW s, NEW n \in Nat, NEW k \in Nat, NEW f, NEW g,
         Goes(f, a, s, n), Goes(g, a, s, k)
  PROVE  \A m \in Nat : m <= n /\ m <= k => f[m] = g[m]
<1> DEFINE B == {m \in Nat : m <= n /\ m <= k /\ f[m] # g[m]}
<1>1. SUFFICES ASSUME B # {} PROVE FALSE
  OBVIOUS
<1>2. PICK m \in B : \A l \in B : m <= l
  <2>1. B \subseteq Nat
    OBVIOUS
  <2> HIDE DEF B
  <2> QED BY <1>1, <2>1, LeastNumber
<1>3. m \in Nat \ {0} /\ m <= n /\ m <= k
  BY <1>2 DEF Goes
<1>4. m - 1 \in Nat /\ m - 1 \notin B /\ m - 1 \in 0..(n - 1) /\ m - 1 \in 0..(k - 1)
  BY <1>2, <1>3
<1>5. f[m - 1] = g[m - 1]
  BY <1>3, <1>4
<1>6. f[(m - 1) + 1] = s[m - 1][f[m - 1]] /\ g[(m - 1) + 1] = s[m - 1][g[m - 1]]
  BY <1>4 DEF Goes
<1>7. (m - 1) + 1 = m
  BY <1>3
<1> QED BY <1>2, <1>5, <1>6, <1>7

(* Steps that stay in X can be gone, as far as one likes and for ever. *)
LEMMA SomeWay ==
  ASSUME NEW X, NEW a \in X, NEW s \in [Nat -> [X -> X]], NEW n \in Nat
  PROVE  \E f \in [0..n -> X] : Goes(f, a, s, n)
<1> DEFINE B == {m \in Nat : ~ \E f \in [0..m -> X] : Goes(f, a, s, m)}
<1>1. SUFFICES ASSUME B # {} PROVE FALSE
  OBVIOUS
<1>2. PICK m \in B : \A l \in B : m <= l
  <2>1. B \subseteq Nat
    OBVIOUS
  <2> HIDE DEF B
  <2> QED BY <1>1, <2>1, LeastNumber
<1>3. m \in Nat /\ ~ \E f \in [0..m -> X] : Goes(f, a, s, m)
  BY <1>2
<1>4. m # 0
  <2> DEFINE f == [l \in 0..0 |-> a]
  <2>1. f \in [0..0 -> X] /\ Goes(f, a, s, 0)
    BY DEF Goes
  <2> QED BY <1>3, <2>1
<1>5. m - 1 \in Nat /\ m - 1 \notin B
  BY <1>2, <1>3, <1>4
<1>6. PICK f \in [0..(m - 1) -> X] : Goes(f, a, s, m - 1)
  BY <1>5
<1> DEFINE g == [l \in 0..m |-> IF l = m THEN s[m - 1][f[m - 1]] ELSE f[l]]
<1>7. m - 1 \in 0..(m - 1) /\ f[m - 1] \in X /\ s[m - 1] \in [X -> X]
  BY <1>5
<1>8. g \in [0..m -> X]
  BY <1>3, <1>7
<1>9. g[0] = a
  BY <1>3, <1>4, <1>6 DEF Goes
<1>10. ASSUME NEW l \in 0..(m - 1) PROVE g[l + 1] = s[l][g[l]]
  <2>1. g[l] = f[l] /\ l + 1 \in 0..m
    BY <1>3
  <2>2. CASE l = m - 1
    BY <2>1, <2>2, <1>3
  <2>3. CASE l # m - 1
    <3>1. l \in 0..((m - 1) - 1) /\ l + 1 # m
      BY <2>3, <1>3
    <3> QED BY <3>1, <2>1, <1>6 DEF Goes
  <2> QED BY <2>2, <2>3
<1> QED BY <1>3, <1>8, <1>9, <1>10 DEF Goes

StepsIn(s, X) == s \in [Nat -> [X -> X]]

GoesOn(h, X, a, s) ==
  /\ h \in [Nat -> X] /\ h[0] = a
  /\ \A n \in Nat : h[n + 1] = s[n][h[n]]

LEMMA EndlessWay ==
  ASSUME NEW X, NEW a, NEW s, a \in X, StepsIn(s, X)
  PROVE  \E h : GoesOn(h, X, a, s)
<1> DEFINE F(n) == CHOOSE f \in [0..n -> X] : Goes(f, a, s, n)
           h == [n \in Nat |-> F(n)[n]]
<1>1. \A n \in Nat : F(n) \in [0..n -> X] /\ Goes(F(n), a, s, n)
  BY SomeWay DEF StepsIn
<1> HIDE DEF F
<1>2. h \in [Nat -> X]
  BY <1>1
<1>3. h[0] = a
  BY <1>1 DEF Goes
<1>4. ASSUME NEW n \in Nat PROVE h[n + 1] = s[n][h[n]]
  <2>1. Goes(F(n), a, s, n) /\ Goes(F(n + 1), a, s, n + 1)
    BY <1>1
  <2>2. F(n)[n] = F(n + 1)[n]
    BY <2>1, OneWay
  <2>3. n \in 0..((n + 1) - 1)
    OBVIOUS
  <2>4. F(n + 1)[n + 1] = s[n][F(n + 1)[n]]
    BY <2>1, <2>3 DEF Goes
  <2>5. h[n + 1] = F(n + 1)[n + 1] /\ h[n] = F(n)[n]
    OBVIOUS
  <2> QED BY <2>2, <2>4, <2>5
<1> QED BY <1>2, <1>3, <1>4 DEF GoesOn

=============================================================================
