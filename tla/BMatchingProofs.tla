---------------------------- MODULE BMatchingProofs ----------------------------
(****************************************************************************)
(* Facts about finite sets and sums, and about edges, degrees, weights and   *)
(* b-matchings, for every number of nodes: what the proofs about the solvers *)
(* have in common.                                                           *)
(*                                                                           *)
(* SumFunctionOnSet takes the members of a set away one by one in the order  *)
(* of CHOOSE; the lemmas say that the order does not matter.  Induction over *)
(* finite sets is by a smallest counterexample: SmallestBad.                 *)
(****************************************************************************)
EXTENDS BMatching, SequencesExt, FiniteSetTheorems, FunctionTheorems, SequenceTheorems,
        WellFoundedInduction, TLAPS

-----------------------------------------------------------------------------
(****************************************************************************)
(* Finite sets.                                                              *)
(****************************************************************************)
\* Among subsets of a finite set there is one from which no member can be
\* taken so that the rest is among them too.
LEMMA SmallestBad ==
  ASSUME NEW S, IsFiniteSet(S), NEW Bad \in SUBSET SUBSET S, Bad # {}
  PROVE  \E T \in Bad : \A x \in T : T \ {x} \notin Bad
  <1>1. Bad \subseteq FiniteSubsetsOf(S)
    BY FS_Subset DEF FiniteSubsetsOf
  <1>2. PICK T \in Bad : \A U \in Bad : ~ (<<U, T>> \in StrictSubsetOrdering(S))
    BY <1>1, FS_StrictSubsetOrderingWellFounded, WFMin
  <1>3. ASSUME NEW x \in T
        PROVE  <<T \ {x}, T>> \in StrictSubsetOrdering(S)
    BY DEF StrictSubsetOrdering
  <1>4. QED
    BY <1>2, <1>3

\* The same for the natural numbers.
LEMMA LeastBad ==
  ASSUME NEW Bad \in SUBSET Nat, Bad # {}
  PROVE  \E m \in Bad : m = 0 \/ m - 1 \notin Bad
  <1>1. PICK m \in Bad : \A k \in Bad : ~ (<<k, m>> \in OpToRel(<, Nat))
    BY NatLessThanWellFounded, WFMin
  <1>2. ASSUME m # 0
        PROVE  m - 1 \notin Bad
    <2>1. m - 1 \in Nat /\ m - 1 < m
      BY <1>2
    <2>2. QED
      BY <1>1, <2>1 DEF OpToRel
  <1>3. QED
    BY <1>2

\* Counting through a one-to-one correspondence f between S and T.
LEMMA SameCardinality ==
  ASSUME NEW S, IsFiniteSet(S), NEW T, NEW f \in [S -> T],
         \A a, b \in S : f[a] = f[b] => a = b,
         \A t \in T : \E s \in S : f[s] = t
  PROVE  IsFiniteSet(T) /\ Cardinality(T) = Cardinality(S)
  <1>1. f \in Bijection(S, T)
    BY Fun_IsBij
  <1>2. ExistsBijection(S, T)
    BY <1>1 DEF ExistsBijection
  <1>3. QED
    BY <1>2, FS_Bijection

\* Finitely many things have finitely many values.
LEMMA ImageFinite ==
  ASSUME NEW S, IsFiniteSet(S), NEW f
  PROVE  IsFiniteSet({f[x] : x \in S})
  <1> DEFINE T == {f[x] : x \in S}
             r == [x \in S |-> f[x]]
  <1>1. r \in Surjection(S, T)
    <2>1. r \in [S -> T] /\ \A y \in T : \E x \in S : r[x] = y
      OBVIOUS
    <2> HIDE DEF r, T
    <2>2. QED
      BY <2>1, Fun_IsSurj
  <1>2. QED
    BY <1>1, FS_Surjection

\* A total preorder R on a nonempty finite set S has a top element: a smallest
\* subset without a top would have one after all.
LEMMA FiniteTop ==
  ASSUME NEW S, IsFiniteSet(S), S # {}, NEW R,
         \A x \in S : <<x, x>> \in R,
         \A x, y \in S : <<x, y>> \in R \/ <<y, x>> \in R,
         \A x, y, z \in S : <<x, y>> \in R /\ <<y, z>> \in R => <<x, z>> \in R
  PROVE  \E t \in S : \A y \in S : <<t, y>> \in R
  <1> DEFINE Top(T) == \E t \in T : \A y \in T : <<t, y>> \in R
             Bad == {T \in SUBSET S : T # {} /\ ~ Top(T)}
  <1>1. ASSUME Bad # {}
        PROVE  FALSE
    <2>1. PICK T \in Bad : \A x \in T : T \ {x} \notin Bad
      <3>1. Bad \in SUBSET SUBSET S
        OBVIOUS
      <3> HIDE DEF Bad
      <3>2. QED
        BY <1>1, <3>1, SmallestBad
    <2>2. T \in SUBSET S /\ ~ Top(T)
      OBVIOUS
    <2>3. PICK x \in T : TRUE
      OBVIOUS
    <2>4. CASE T \ {x} = {}
      <3>1. \A y \in T : y = x
        BY <2>4
      <3>2. Top(T)
        BY <2>2, <2>3, <3>1
      <3>3. QED
        BY <2>2, <3>2
    <2>5. CASE T \ {x} # {}
      <3>1. Top(T \ {x})
        BY <2>1, <2>2, <2>5
      <3>2. PICK t \in T \ {x} : \A y \in T \ {x} : <<t, y>> \in R
        BY <3>1
      <3>3. CASE <<t, x>> \in R
        BY <2>2, <3>2, <3>3
      <3>4. CASE <<x, t>> \in R
        <4>1. \A y \in T : <<x, y>> \in R
          BY <2>2, <2>3, <3>2, <3>4
        <4>2. QED
          BY <2>2, <2>3, <4>1
      <3>5. QED
        BY <2>2, <2>3, <3>2, <3>3, <3>4
    <2>6. QED
      BY <2>4, <2>5
  <1>2. QED
    BY <1>1

\* Min and Max are members of a nonempty finite set of integers.
LEMMA MinIsLeast ==
  ASSUME NEW S \in SUBSET Int, IsFiniteSet(S), S # {}
  PROVE  Min(S) \in S /\ \A y \in S : Min(S) <= y
  <1> DEFINE R == {p \in S \X S : p[1] <= p[2]}
  <1>1. \A x, y \in S : <<x, y>> \in R <=> x <= y
    OBVIOUS
  <1>2. \A x \in S : x \in Int
    OBVIOUS
  <1> HIDE DEF R
  <1>3. \E t \in S : \A y \in S : <<t, y>> \in R
    <2>1. \A x \in S : <<x, x>> \in R
      BY <1>1, <1>2
    <2>2. \A x, y \in S : <<x, y>> \in R \/ <<y, x>> \in R
      <3>1. \A x, y \in S : x <= y \/ y <= x
        BY <1>2
      <3>2. QED
        BY <1>1, <3>1, Zenon
    <2>3. \A x, y, z \in S : <<x, y>> \in R /\ <<y, z>> \in R => <<x, z>> \in R
      BY <1>1, <1>2
    <2>4. QED
      BY <2>1, <2>2, <2>3, FiniteTop
  <1>4. QED
    BY <1>1, <1>3 DEF Min

\* A finite set of numbers has a greatest element, and Max is it.
LEMMA MaxIsGreatest ==
  ASSUME NEW S \in SUBSET Int, IsFiniteSet(S), S # {}
  PROVE  Max(S) \in S /\ \A y \in S : Max(S) >= y
  <1> DEFINE R == {p \in S \X S : p[1] >= p[2]}
  <1>1. \A x, y \in S : <<x, y>> \in R <=> x >= y
    OBVIOUS
  <1>2. \A x \in S : x \in Int
    OBVIOUS
  <1> HIDE DEF R
  <1>3. \E t \in S : \A y \in S : <<t, y>> \in R
    <2>1. \A x \in S : <<x, x>> \in R
      BY <1>1, <1>2
    <2>2. \A x, y \in S : <<x, y>> \in R \/ <<y, x>> \in R
      <3>1. \A x, y \in S : x >= y \/ y >= x
        BY <1>2
      <3>2. QED
        BY <1>1, <3>1, Zenon
    <2>3. \A x, y, z \in S : <<x, y>> \in R /\ <<y, z>> \in R => <<x, z>> \in R
      BY <1>1, <1>2
    <2>4. QED
      BY <2>1, <2>2, <2>3, FiniteTop
  <1>4. QED
    BY <1>1, <1>3 DEF Max
-----------------------------------------------------------------------------
(****************************************************************************)
(* The recursion behind a sum.                                               *)
(****************************************************************************)
Pick(t) == CHOOSE x \in t : TRUE

\* The value at t of the function that SumFunctionOnSet defines recursively.
SumRule(g, it, t) == IF t = {} THEN 0 ELSE g[Pick(t)] + it[t \ {Pick(t)}]

IsFold(g, K, it) == it = [t \in SUBSET K |-> SumRule(g, it, t)]

\* Pick takes an element of a set that has one.
LEMMA PickIsMember == \A t : t # {} => Pick(t) \in t
  BY DEF Pick

\* The recursion of a fold has a solution on the subsets of a finite set.
LEMMA FoldExists ==
  ASSUME NEW g, NEW K, IsFiniteSet(K)
  PROVE  \E it : IsFold(g, K, it)
  <1> DEFINE Small(n) == {t \in SUBSET K : Cardinality(t) <= n}
             Fold(n) == \E it : it = [t \in Small(n) |-> SumRule(g, it, t)]
             Bad == {n \in Nat : ~ Fold(n)}
  <1>1. \A t \in SUBSET K : IsFiniteSet(t) /\ Cardinality(t) \in Nat
    BY FS_Subset, FS_CardinalityType
  <1>2. Fold(0)
    <2>1. \A t \in Small(0) : t = {}
      BY <1>1, FS_EmptySet
    <2> DEFINE it == [t \in Small(0) |-> 0]
    <2> HIDE DEF Small
    <2>2. it = [t \in Small(0) |-> SumRule(g, it, t)]
      BY <2>1 DEF SumRule
    <2>3. QED
      BY <2>2
  <1>3. ASSUME NEW n \in Nat, Fold(n)
        PROVE  Fold(n + 1)
    <2>1. PICK jt : jt = [t \in Small(n) |-> SumRule(g, jt, t)]
      BY <1>3
    <2> DEFINE it == [t \in Small(n + 1) |-> SumRule(g, jt, t)]
    <2>2. \A t \in Small(n + 1) : t # {} => t \ {Pick(t)} \in Small(n)
      <3> TAKE t \in Small(n + 1)
      <3> HAVE t # {}
      <3>1. Pick(t) \in t
        BY PickIsMember
      <3>2. Cardinality(t \ {Pick(t)}) = Cardinality(t) - 1
        BY <1>1, <3>1, FS_RemoveElement
      <3>3. QED
        BY <1>1, <3>2
    <2>3. Small(n) \subseteq Small(n + 1)
      BY <1>1
    <2> HIDE DEF Small
    <2>4. \A t \in Small(n) : it[t] = jt[t]
      BY <2>1, <2>3
    <2>5. \A t \in Small(n + 1) : SumRule(g, it, t) = SumRule(g, jt, t)
      <3> HIDE DEF it
      <3> QED
        BY <2>2, <2>4 DEF SumRule
    <2>6. it = [t \in Small(n + 1) |-> SumRule(g, it, t)]
      <3>1. it = [t \in Small(n + 1) |-> SumRule(g, jt, t)]
        OBVIOUS
      <3> HIDE DEF it
      <3>2. QED
        BY <2>5, <3>1
    <2>7. QED
      BY <2>6
  <1>4. Bad = {}
    <2> SUFFICES ASSUME Bad # {} PROVE FALSE
      OBVIOUS
    <2>1. Bad \in SUBSET Nat
      OBVIOUS
    <2>2. PICK m \in Bad : m = 0 \/ m - 1 \notin Bad
      <3> HIDE DEF Bad
      <3> QED
        BY <2>1, LeastBad
    <2> HIDE DEF Fold
    <2>3. m # 0 /\ m \in Nat
      BY <1>2
    <2>4. m - 1 \in Nat /\ (m - 1) + 1 = m
      BY <2>3
    <2>5. QED
      BY <1>3, <2>2, <2>3, <2>4
  <1>5. Small(Cardinality(K)) = SUBSET K /\ Cardinality(K) \in Nat
    BY FS_Subset, FS_CardinalityType
  <1>6. Fold(Cardinality(K))
    <2> HIDE DEF Fold
    <2> QED
      BY <1>4, <1>5
  <1>7. QED
    BY <1>5, <1>6 DEF IsFold

\* Two such functions agree where what they add up agrees.
LEMMA FoldSame ==
  ASSUME NEW K, IsFiniteSet(K), NEW L \in SUBSET K,
         NEW g, NEW h, \A k \in L : g[k] = h[k],
         NEW it, IsFold(g, K, it), NEW jt, IsFold(h, L, jt)
  PROVE  it[L] = jt[L]
  <1> DEFINE Bad == {t \in SUBSET L : it[t] # jt[t]}
  <1>1. ASSUME Bad # {}
        PROVE  FALSE
    <2>1. PICK t \in Bad : \A x \in t : t \ {x} \notin Bad
      <3>1. Bad \in SUBSET SUBSET L /\ IsFiniteSet(L)
        BY FS_Subset
      <3> HIDE DEF Bad
      <3>2. QED
        BY <1>1, <3>1, SmallestBad
    <2>2. t \in SUBSET L /\ t \in SUBSET K /\ it[t] # jt[t]
      OBVIOUS
    <2>3. it[t] = SumRule(g, it, t) /\ jt[t] = SumRule(h, jt, t)
      BY <2>2 DEF IsFold
    <2>4. t # {}
      BY <2>2, <2>3 DEF SumRule
    <2>5. Pick(t) \in t
      BY <2>4, PickIsMember
    <2>6. it[t \ {Pick(t)}] = jt[t \ {Pick(t)}] /\ g[Pick(t)] = h[Pick(t)]
      BY <2>1, <2>2, <2>5
    <2>7. QED
      BY <2>2, <2>3, <2>6 DEF SumRule
  <1>2. QED
    BY <1>1

\* So it does not matter which of them a sum is the value of.
LEMMA FoldIsSum ==
  ASSUME NEW K, IsFiniteSet(K), NEW g, NEW it, IsFold(g, K, it)
  PROVE  it[K] = SumFunctionOnSet(g, K)
  <1>1. SumFunctionOnSet(g, K) = (CHOOSE jt : IsFold(g, K, jt))[K]
    BY DEF SumFunctionOnSet, FoldFunctionOnSet, MapThenFoldSet, IsFold, SumRule, Pick
  <1>2. IsFold(g, K, CHOOSE jt : IsFold(g, K, jt))
    BY FoldExists
  <1>3. QED
    BY <1>1, <1>2, FoldSame

\* A sum depends on the function on the set only.
LEMMA SumSame ==
  ASSUME NEW K, IsFiniteSet(K), NEW g, NEW h, \A k \in K : g[k] = h[k]
  PROVE  SumFunctionOnSet(g, K) = SumFunctionOnSet(h, K)
  <1>1. PICK it : IsFold(g, K, it)
    BY FoldExists
  <1>2. PICK jt : IsFold(h, K, jt)
    BY FoldExists
  <1>3. QED
    BY <1>1, <1>2, FoldSame, FoldIsSum

\* The empty sum is 0.
LEMMA SumEmpty == \A g : SumFunctionOnSet(g, {}) = 0
  <1> TAKE g
  <1>1. PICK it : IsFold(g, {}, it)
    BY FoldExists, FS_EmptySet
  <1>2. it[{}] = 0
    BY <1>1 DEF IsFold, SumRule
  <1>3. QED
    BY <1>1, <1>2, FoldIsSum, FS_EmptySet

\* A sum is the picked value and the sum of the rest.
LEMMA SumPick ==
  ASSUME NEW K, IsFiniteSet(K), K # {}, NEW g
  PROVE  SumFunctionOnSet(g, K) = g[Pick(K)] + SumFunctionOnSet(g, K \ {Pick(K)})
  <1> DEFINE L == K \ {Pick(K)}
  <1>1. PICK it : IsFold(g, K, it)
    BY FoldExists
  <1>2. IsFiniteSet(L) /\ L \in SUBSET K
    BY FS_Subset
  <1>3. PICK jt : IsFold(g, L, jt)
    BY <1>2, FoldExists
  <1>4. it[L] = jt[L] /\ jt[L] = SumFunctionOnSet(g, L) /\ it[K] = SumFunctionOnSet(g, K)
    BY <1>1, <1>2, <1>3, FoldSame, FoldIsSum
  <1>5. it[K] = g[Pick(K)] + it[L]
    BY <1>1 DEF IsFold, SumRule
  <1>6. QED
    BY <1>4, <1>5
-----------------------------------------------------------------------------
(****************************************************************************)
(* Sums of integers.                                                         *)
(****************************************************************************)
LEMMA SumType ==
  ASSUME NEW K, IsFiniteSet(K), NEW g, \A k \in K : g[k] \in Int
  PROVE  SumFunctionOnSet(g, K) \in Int
  <1> DEFINE Bad == {t \in SUBSET K : SumFunctionOnSet(g, t) \notin Int}
  <1>1. ASSUME Bad # {}
        PROVE  FALSE
    <2>1. PICK t \in Bad : \A x \in t : t \ {x} \notin Bad
      <3>1. Bad \in SUBSET SUBSET K
        OBVIOUS
      <3> HIDE DEF Bad
      <3>2. QED
        BY <1>1, <3>1, SmallestBad
    <2>2. t \in SUBSET K /\ IsFiniteSet(t) /\ SumFunctionOnSet(g, t) \notin Int
      BY FS_Subset
    <2>3. t # {}
      BY <2>2, SumEmpty
    <2>4. Pick(t) \in t
      BY <2>3, PickIsMember
    <2>5. g[Pick(t)] \in Int /\ SumFunctionOnSet(g, t \ {Pick(t)}) \in Int
      BY <2>1, <2>2, <2>4
    <2>6. SumFunctionOnSet(g, t) = g[Pick(t)] + SumFunctionOnSet(g, t \ {Pick(t)})
      BY <2>2, <2>3, SumPick
    <2>7. QED
      BY <2>2, <2>5, <2>6
  <1>2. QED
    BY <1>1

\* Any member may be taken out first.
LEMMA SumRemove ==
  ASSUME NEW K, IsFiniteSet(K), NEW g, \A k \in K : g[k] \in Int, NEW x \in K
  PROVE  SumFunctionOnSet(g, K) = g[x] + SumFunctionOnSet(g, K \ {x})
  <1> DEFINE Bad == {t \in SUBSET K : \E y \in t : SumFunctionOnSet(g, t) # g[y] + SumFunctionOnSet(g, t \ {y})}
  <1>0. \A t \in SUBSET K : IsFiniteSet(t) /\ SumFunctionOnSet(g, t) \in Int
    BY FS_Subset, SumType
  <1>1. ASSUME Bad # {}
        PROVE  FALSE
    <2>1. PICK t \in Bad : \A y \in t : t \ {y} \notin Bad
      <3>1. Bad \in SUBSET SUBSET K
        OBVIOUS
      <3> HIDE DEF Bad
      <3>2. QED
        BY <1>1, <3>1, SmallestBad
    <2>2. PICK y \in t : SumFunctionOnSet(g, t) # g[y] + SumFunctionOnSet(g, t \ {y})
      OBVIOUS
    <2> DEFINE c == Pick(t)
    <2>3. c \in t /\ t \in SUBSET K
      BY PickIsMember
    <2> HIDE DEF c
    <2>4. SumFunctionOnSet(g, t) = g[c] + SumFunctionOnSet(g, t \ {c})
      BY <1>0, <2>3, SumPick DEF c
    <2>5. c # y
      BY <2>2, <2>4
    <2>6. t \ {c} \in SUBSET K /\ t \ {c} \notin Bad /\ t \ {y} \in SUBSET K /\ t \ {y} \notin Bad
      BY <2>1, <2>2, <2>3
    <2>7. SumFunctionOnSet(g, t \ {c}) = g[y] + SumFunctionOnSet(g, (t \ {c}) \ {y})
      BY <2>2, <2>5, <2>6
    <2>8. SumFunctionOnSet(g, t \ {y}) = g[c] + SumFunctionOnSet(g, (t \ {y}) \ {c})
      BY <2>3, <2>5, <2>6
    <2>9. (t \ {c}) \ {y} = (t \ {y}) \ {c}
      OBVIOUS
    <2>10. /\ g[c] \in Int /\ g[y] \in Int /\ SumFunctionOnSet(g, (t \ {c}) \ {y}) \in Int
      BY <1>0, <2>2, <2>3
    <2> DEFINE all == SumFunctionOnSet(g, t)
               noc == SumFunctionOnSet(g, t \ {c})
               noy == SumFunctionOnSet(g, t \ {y})
               rest == SumFunctionOnSet(g, (t \ {c}) \ {y})
    <2>11. /\ all # g[y] + noy /\ all = g[c] + noc
           /\ noc = g[y] + rest /\ noy = g[c] + rest
           /\ g[c] \in Int /\ g[y] \in Int /\ rest \in Int
      BY <2>2, <2>4, <2>7, <2>8, <2>9, <2>10
    <2> HIDE DEF Bad, all, noc, noy, rest
    <2>12. QED
      BY <2>11
  <1>2. K \notin Bad
    BY <1>1
  <1>3. QED
    BY <1>2

\* A new element adds its value.
LEMMA SumAdd ==
  ASSUME NEW K, IsFiniteSet(K), NEW g, NEW x, x \notin K, \A k \in K \cup {x} : g[k] \in Int
  PROVE  SumFunctionOnSet(g, K \cup {x}) = g[x] + SumFunctionOnSet(g, K)
  <1>1. IsFiniteSet(K \cup {x}) /\ (K \cup {x}) \ {x} = K
    BY FS_AddElement
  <1>2. QED
    BY <1>1, SumRemove

\* The sum over one element is its value.
LEMMA SumOne ==
  ASSUME NEW x, NEW g, g[x] \in Int
  PROVE  SumFunctionOnSet(g, {x}) = g[x]
  <1>1. SumFunctionOnSet(g, {}) = 0 /\ IsFiniteSet({}) /\ {} \cup {x} = {x}
    BY SumEmpty, FS_EmptySet
  <1>2. \A k \in {} \cup {x} : g[k] \in Int
    OBVIOUS
  <1>3. SumFunctionOnSet(g, {} \cup {x}) = g[x] + SumFunctionOnSet(g, {})
    <2>1. x \notin {}
      OBVIOUS
    <2>2. QED
      BY <1>1, <1>2, <2>1, SumAdd
  <1>4. QED
    BY <1>1, <1>3

\* A sum of natural numbers is one.
LEMMA SumNat ==
  ASSUME NEW K, IsFiniteSet(K), NEW g, \A k \in K : g[k] \in Nat
  PROVE  SumFunctionOnSet(g, K) \in Nat
  <1> DEFINE Bad == {t \in SUBSET K : SumFunctionOnSet(g, t) \notin Nat}
  <1>1. ASSUME Bad # {}
        PROVE  FALSE
    <2>1. PICK t \in Bad : \A x \in t : t \ {x} \notin Bad
      <3>1. Bad \in SUBSET SUBSET K
        OBVIOUS
      <3> HIDE DEF Bad
      <3>2. QED
        BY <1>1, <3>1, SmallestBad
    <2>2. t \in SUBSET K /\ IsFiniteSet(t) /\ SumFunctionOnSet(g, t) \notin Nat
      BY FS_Subset
    <2>3. t # {}
      BY <2>2, SumEmpty
    <2>4. PICK x \in t : TRUE
      BY <2>3
    <2>5. g[x] \in Nat /\ SumFunctionOnSet(g, t \ {x}) \in Nat
      BY <2>1, <2>2, <2>4
    <2>6. SumFunctionOnSet(g, t) = g[x] + SumFunctionOnSet(g, t \ {x})
      BY <2>2, <2>4, SumRemove
    <2>7. QED
      BY <2>2, <2>5, <2>6
  <1>2. QED
    BY <1>1

\* A sum over two parts, and over a renaming of the members.
LEMMA SumUnion ==
  ASSUME NEW K, IsFiniteSet(K), NEW L, IsFiniteSet(L), K \cap L = {},
         NEW g, \A k \in K \cup L : g[k] \in Int
  PROVE  SumFunctionOnSet(g, K \cup L) = SumFunctionOnSet(g, K) + SumFunctionOnSet(g, L)
  <1> DEFINE Bad == {t \in SUBSET L : SumFunctionOnSet(g, K \cup t) # SumFunctionOnSet(g, K) + SumFunctionOnSet(g, t)}
  <1>1. ASSUME Bad # {}
        PROVE  FALSE
    <2>1. PICK t \in Bad : \A x \in t : t \ {x} \notin Bad
      <3>1. Bad \in SUBSET SUBSET L
        OBVIOUS
      <3> HIDE DEF Bad
      <3>2. QED
        BY <1>1, <3>1, SmallestBad
    <2>2. /\ t \in SUBSET L /\ IsFiniteSet(t)
          /\ SumFunctionOnSet(g, K \cup t) # SumFunctionOnSet(g, K) + SumFunctionOnSet(g, t)
      BY FS_Subset
    <2>3. SumFunctionOnSet(g, K) \in Int
      BY SumType
    <2>4. ASSUME t = {}
          PROVE  FALSE
      <3>1. SumFunctionOnSet(g, t) = 0
        BY <2>4, SumEmpty
      <3>2. K \cup t = K
        BY <2>4
      <3>3. SumFunctionOnSet(g, K \cup t) = SumFunctionOnSet(g, K)
        BY <3>2
      <3> HIDE DEF Bad
      <3>4. QED
        BY <2>2, <2>3, <3>1, <3>3
    <2>5. PICK x \in t : TRUE
      BY <2>4
    <2> DEFINE r == t \ {x}
    <2>6. r \in SUBSET L /\ IsFiniteSet(r) /\ x \notin r /\ x \notin K \cup r
      BY <2>2, <2>5, FS_Subset
    <2>7. IsFiniteSet(K \cup r)
      BY <2>6, FS_Union
    <2>8. t = r \cup {x} /\ K \cup t = (K \cup r) \cup {x}
      BY <2>5
    <2>9. SumFunctionOnSet(g, K \cup r) = SumFunctionOnSet(g, K) + SumFunctionOnSet(g, r)
      <3>1. r \notin Bad
        BY <2>1, <2>5
      <3> HIDE DEF r
      <3>2. QED
        BY <2>6, <3>1
    <2> HIDE DEF r
    <2>10. /\ \A k \in r \cup {x} : g[k] \in Int
           /\ \A k \in (K \cup r) \cup {x} : g[k] \in Int
      BY <2>2, <2>5, <2>6
    <2>11. SumFunctionOnSet(g, t) = g[x] + SumFunctionOnSet(g, r)
      BY <2>6, <2>8, <2>10, SumAdd
    <2>12. SumFunctionOnSet(g, K \cup t) = g[x] + SumFunctionOnSet(g, K \cup r)
      BY <2>6, <2>7, <2>8, <2>10, SumAdd
    <2>13. SumFunctionOnSet(g, r) \in Int /\ g[x] \in Int
      BY <2>6, <2>10, SumType
    <2>14. QED
      BY <2>2, <2>3, <2>9, <2>11, <2>12, <2>13
  <1>2. QED
    BY <1>1

\* Renaming the elements leaves the sum as it is.
LEMMA SumImage ==
  ASSUME NEW K, IsFiniteSet(K), NEW T, NEW f \in [K -> T],
         \A k, l \in K : f[k] = f[l] => k = l,
         \A y \in T : \E k \in K : f[k] = y,
         NEW g, NEW h, \A k \in K : g[k] \in Int /\ h[f[k]] = g[k]
  PROVE  IsFiniteSet(T) /\ SumFunctionOnSet(h, T) = SumFunctionOnSet(g, K)
  <1> DEFINE Image(t) == {y \in T : \E k \in t : f[k] = y}
             Bad == {t \in SUBSET K : SumFunctionOnSet(h, Image(t)) # SumFunctionOnSet(g, t)}
  <1>0. IsFiniteSet(T)
    BY SameCardinality
  <1>1. ASSUME Bad # {}
        PROVE  FALSE
    <2>1. PICK t \in Bad : \A x \in t : t \ {x} \notin Bad
      <3>1. Bad \in SUBSET SUBSET K
        OBVIOUS
      <3> HIDE DEF Bad
      <3>2. QED
        BY <1>1, <3>1, SmallestBad
    <2>2. t \in SUBSET K /\ IsFiniteSet(t) /\ SumFunctionOnSet(h, Image(t)) # SumFunctionOnSet(g, t)
      BY FS_Subset
    <2>3. t # {}
      <3>1. Image({}) = {}
        OBVIOUS
      <3>2. QED
        BY <2>2, <3>1, SumEmpty
    <2>4. PICK x \in t : TRUE
      BY <2>3
    <2>5. Image(t) = Image(t \ {x}) \cup {f[x]} /\ f[x] \notin Image(t \ {x})
      <3>1. f[x] \in T /\ Image(t) = Image(t \ {x}) \cup {f[x]}
        BY <2>2, <2>4
      <3>2. \A k \in t \ {x} : f[k] # f[x]
        BY <2>2, <2>4
      <3>3. QED
        BY <3>1, <3>2
    <2>6. SumFunctionOnSet(h, Image(t \ {x})) = SumFunctionOnSet(g, t \ {x})
      <3>1. t \ {x} \notin Bad /\ t \ {x} \in SUBSET K
        BY <2>1, <2>2, <2>4
      <3>2. QED
        BY <3>1
    <2>7. IsFiniteSet(Image(t \ {x}))
      BY <1>0, FS_Subset
    <2>8. \A y \in Image(t \ {x}) \cup {f[x]} : h[y] \in Int
      BY <2>2, <2>4
    <2> HIDE DEF Image
    <2>9. SumFunctionOnSet(h, Image(t)) = h[f[x]] + SumFunctionOnSet(h, Image(t \ {x}))
      BY <2>5, <2>7, <2>8, SumAdd
    <2>10. SumFunctionOnSet(g, t) = g[x] + SumFunctionOnSet(g, t \ {x})
      BY <2>2, <2>4, SumRemove
    <2>11. QED
      BY <2>2, <2>4, <2>6, <2>9, <2>10
  <1>2. Image(K) = T /\ K \notin Bad
    BY <1>1
  <1>3. QED
    BY <1>0, <1>2

\* Two sums whose terms, after scaling by a and t, are never more than d apart
\* are no further apart than d for every term.
LEMMA SumsApart ==
  ASSUME NEW K, IsFiniteSet(K), NEW a \in Int, NEW t \in Int, NEW d \in Int,
         NEW g, NEW h, \A k \in K : g[k] \in Int /\ h[k] \in Int,
         \A k \in K : -d <= a * g[k] - t * h[k] /\ a * g[k] - t * h[k] <= d
  PROVE  LET apart == a * SumFunctionOnSet(g, K) - t * SumFunctionOnSet(h, K)
         IN  -(d * Cardinality(K)) <= apart /\ apart <= d * Cardinality(K)
  <1> DEFINE Apart(s) == a * SumFunctionOnSet(g, s) - t * SumFunctionOnSet(h, s)
             Close(s) == -(d * Cardinality(s)) <= Apart(s) /\ Apart(s) <= d * Cardinality(s)
             Bad == {s \in SUBSET K : ~ Close(s)}
  <1>1. ASSUME Bad # {}
        PROVE  FALSE
    <2>1. PICK s \in Bad : \A x \in s : s \ {x} \notin Bad
      <3>1. Bad \in SUBSET SUBSET K
        OBVIOUS
      <3> HIDE DEF Bad
      <3>2. QED
        BY <1>1, <3>1, SmallestBad
    <2>2. s \in SUBSET K /\ IsFiniteSet(s) /\ ~ Close(s)
      BY FS_Subset
    <2>3. s # {}
      <3>1. SumFunctionOnSet(g, {}) = 0 /\ SumFunctionOnSet(h, {}) = 0 /\ Cardinality({}) = 0
        BY SumEmpty, FS_EmptySet
      <3>2. Close({})
        BY <3>1
      <3>3. QED
        BY <2>2, <3>2
    <2>4. PICK x \in s : TRUE
      BY <2>3
    <2> DEFINE r == s \ {x}
               G == SumFunctionOnSet(g, r)
               H == SumFunctionOnSet(h, r)
               n == Cardinality(r)
    <2>5. r \in SUBSET K /\ IsFiniteSet(r) /\ Close(r)
      BY <2>1, <2>2, <2>4, FS_Subset
    <2>6. G \in Int /\ H \in Int
      BY <2>5, SumType
    <2>7. n \in Nat /\ Cardinality(s) = n + 1
      <3>1. Cardinality(s) \in Nat /\ n \in Nat
        BY <2>2, <2>5, FS_CardinalityType
      <3>2. n = Cardinality(s) - 1
        BY <2>2, <2>4, FS_RemoveElement
      <3> HIDE DEF n
      <3>3. QED
        BY <3>1, <3>2
    <2>8. /\ SumFunctionOnSet(g, s) = g[x] + G
          /\ SumFunctionOnSet(h, s) = h[x] + H
      BY <2>2, <2>4, SumRemove
    <2>9. /\ g[x] \in Int /\ h[x] \in Int
          /\ -d <= a * g[x] - t * h[x] /\ a * g[x] - t * h[x] <= d
      BY <2>2, <2>4
    <2>10. -(d * n) <= a * G - t * H /\ a * G - t * H <= d * n
      BY <2>5
    <2> HIDE DEF r, G, H, n
    <2>11. /\ a * (g[x] + G) = a * g[x] + a * G
           /\ t * (h[x] + H) = t * h[x] + t * H
           /\ d * (n + 1) = d * n + d
      BY <2>6, <2>7, <2>9
    <2>12. /\ a * g[x] \in Int /\ a * G \in Int /\ t * h[x] \in Int /\ t * H \in Int /\ d * n \in Int
      BY <2>6, <2>7, <2>9
    <2>13. Close(s)
      <3>1. Apart(s) = (a * g[x] + a * G) - (t * h[x] + t * H)
        BY <2>8, <2>11
      <3>2. d * Cardinality(s) = d * n + d
        BY <2>7, <2>11
      <3> DEFINE p == a * g[x]
                 q == a * G
                 u == t * h[x]
                 v == t * H
                 w == d * n
      <3>3. /\ p \in Int /\ q \in Int /\ u \in Int /\ v \in Int /\ w \in Int
            /\ -d <= p - u /\ p - u <= d /\ -w <= q - v /\ q - v <= w
        BY <2>9, <2>10, <2>12
      <3>4. Apart(s) = (p + q) - (u + v) /\ d * Cardinality(s) = w + d
        BY <3>1, <3>2
      <3> HIDE DEF p, q, u, v, w
      <3>5. -(w + d) <= (p + q) - (u + v) /\ (p + q) - (u + v) <= w + d
        BY <3>3
      <3> HIDE DEF Apart
      <3>6. QED
        BY <3>4, <3>5
    <2>14. QED
      BY <2>2, <2>13
  <1>2. K \in SUBSET K
    OBVIOUS
  <1>3. QED
    BY <1>1, <1>2
-----------------------------------------------------------------------------
(****************************************************************************)
(* Nodes and edges.                                                          *)
(****************************************************************************)
LEMMA NodeFinite == IsFiniteSet(Node) /\ \A S \in SUBSET Node : IsFiniteSet(S)
  <1>1. IsFiniteSet(Node)
    BY FS_Interval, NumNodeAssumption DEF Node
  <1>2. QED
    BY <1>1, FS_Subset

\* Two nodes, in either order, are the ends of one edge.
LEMMA EdgeOfIsEdge ==
  ASSUME NEW x \in Node, NEW y \in Node
  PROVE  EdgeOf(x, y) \in Edge
  BY NumNodeAssumption DEF EdgeOf, Edge, Node

\* The order of the ends does not matter.
LEMMA EdgeOfSymmetric ==
  ASSUME NEW x \in Node, NEW y \in Node
  PROVE  EdgeOf(x, y) = EdgeOf(y, x)
  BY NumNodeAssumption DEF EdgeOf, Node

\* There are finitely many edges.
LEMMA EdgesFinite == \A B \in SUBSET Edge : IsFiniteSet(B)
  <1>1. IsFiniteSet(Node \X Node)
    BY NodeFinite, FS_Product
  <1>2. Edge \subseteq Node \X Node
    BY DEF Edge
  <1>3. QED
    BY <1>1, <1>2, FS_Subset
-----------------------------------------------------------------------------
(****************************************************************************)
(* Degrees in lists of edges, and lists without repetition.                  *)
(****************************************************************************)
\* The positions of s at which the i-th end of the edge is x.
Ends(s, i, x) == {k \in DOMAIN s : s[k][i] = x}

\* Finitely many ends of the edges of a list are at a node.
LEMMA EndsFinite ==
  ASSUME NEW s \in Seq(Edge), NEW i \in 1 .. 2, NEW x
  PROVE  IsFiniteSet(Ends(s, i, x)) /\ Cardinality(Ends(s, i, x)) \in Nat
  <1>1. DOMAIN s = 1 .. Len(s) /\ Len(s) \in Nat
    BY LenProperties
  <1>2. IsFiniteSet(DOMAIN s)
    BY <1>1, FS_Interval
  <1>3. QED
    BY <1>2, FS_Subset, FS_CardinalityType DEF Ends

\* The degree of a node in a list is the number of those ends.
LEMMA ListDegreeIsEnds ==
  ASSUME NEW s \in Seq(Edge), NEW x
  PROVE  /\ ListDegree(s, x) = Cardinality(Ends(s, 1, x)) + Cardinality(Ends(s, 2, x))
         /\ ListDegree(s, x) \in Nat
  <1>1. ListDegree(s, x) = Cardinality(Ends(s, 1, x)) + Cardinality(Ends(s, 2, x))
    BY DEF ListDegree, Ends
  <1>2. Cardinality(Ends(s, 1, x)) \in Nat
    BY EndsFinite, 1 \in 1 .. 2
  <1>3. Cardinality(Ends(s, 2, x)) \in Nat
    BY EndsFinite, 2 \in 1 .. 2
  <1>4. QED
    BY <1>1, <1>2, <1>3

\* The empty list has no degrees.
LEMMA ListDegreeEmpty == \A x : ListDegree(<<>>, x) = 0
  <1> SUFFICES ASSUME NEW x PROVE ListDegree(<<>>, x) = 0
    OBVIOUS
  <1>1. DOMAIN <<>> = {}
    OBVIOUS
  <1>2. \A i \in 1 .. 2 : {k \in DOMAIN <<>> : <<>>[k][i] = x} = {}
    BY <1>1
  <1>3. QED
    BY <1>2, FS_EmptySet DEF ListDegree

\* An edge appended to a list adds one to the degree of either end.
LEMMA ListDegreeAppend ==
  ASSUME NEW s \in Seq(Edge), NEW e \in Edge, NEW x
  PROVE  ListDegree(Append(s, e), x)
           = ListDegree(s, x) + (IF e[1] = x THEN 1 ELSE 0) + (IF e[2] = x THEN 1 ELSE 0)
  <1> DEFINE t == Append(s, e)
             n == Len(s) + 1
  <1>1. Len(s) \in Nat /\ DOMAIN s = 1 .. Len(s)
    BY LenProperties
  <1>2. /\ t \in Seq(Edge) /\ DOMAIN t = 1 .. n
        /\ t[n] = e /\ \A k \in 1 .. Len(s) : t[k] = s[k]
    BY <1>1, AppendProperties, LenProperties
  <1>3. ASSUME NEW i \in 1 .. 2
        PROVE  Cardinality(Ends(t, i, x)) = Cardinality(Ends(s, i, x)) + (IF e[i] = x THEN 1 ELSE 0)
    <2>1. IsFiniteSet(Ends(s, i, x)) /\ Cardinality(Ends(s, i, x)) \in Nat
      BY EndsFinite
    <2>2. n \notin Ends(s, i, x)
      BY <1>1 DEF Ends
    <2> HIDE DEF t
    <2>3. Ends(t, i, x) = IF e[i] = x THEN Ends(s, i, x) \cup {n} ELSE Ends(s, i, x)
      BY <1>1, <1>2 DEF Ends
    <2> HIDE DEF n
    <2>4. CASE e[i] = x
      BY <2>1, <2>2, <2>3, <2>4, FS_AddElement
    <2>5. CASE e[i] # x
      BY <2>1, <2>3, <2>5
    <2>6. QED
      BY <2>4, <2>5
  <1>4. /\ ListDegree(t, x) = Cardinality(Ends(t, 1, x)) + Cardinality(Ends(t, 2, x))
        /\ ListDegree(s, x) = Cardinality(Ends(s, 1, x)) + Cardinality(Ends(s, 2, x))
    BY <1>2, ListDegreeIsEnds
  <1>5. /\ Cardinality(Ends(t, 1, x)) = Cardinality(Ends(s, 1, x)) + (IF e[1] = x THEN 1 ELSE 0)
        /\ Cardinality(Ends(t, 2, x)) = Cardinality(Ends(s, 2, x)) + (IF e[2] = x THEN 1 ELSE 0)
    BY <1>3
  <1>6. /\ Cardinality(Ends(s, 1, x)) \in Nat /\ Cardinality(Ends(s, 2, x)) \in Nat
    BY EndsFinite
  <1> HIDE DEF t
  <1>7. ListDegree(t, x) = ListDegree(s, x) + (IF e[1] = x THEN 1 ELSE 0) + (IF e[2] = x THEN 1 ELSE 0)
    BY <1>4, <1>5, <1>6
  <1>8. QED
    BY <1>7 DEF t

\* Degrees in a concatenation add up.
LEMMA ListDegreeConcat ==
  ASSUME NEW s \in Seq(Edge), NEW t \in Seq(Edge), NEW x
  PROVE  ListDegree(s \o t, x) = ListDegree(s, x) + ListDegree(t, x)
  <1> DEFINE c == s \o t
  <1>1. /\ Len(s) \in Nat /\ DOMAIN s = 1 .. Len(s)
        /\ Len(t) \in Nat /\ DOMAIN t = 1 .. Len(t)
    BY LenProperties
  <1>2. /\ c \in Seq(Edge) /\ DOMAIN c = 1 .. Len(s) + Len(t)
        /\ \A k \in 1 .. Len(s) : c[k] = s[k]
        /\ \A k \in 1 .. Len(t) : c[k + Len(s)] = t[k]
    <2>1. c \in Seq(Edge) /\ Len(c) = Len(s) + Len(t)
      BY ConcatProperties
    <2>2. \A k \in 1 .. Len(s) + Len(t) : c[k] = IF k <= Len(s) THEN s[k] ELSE t[k - Len(s)]
      BY ConcatProperties
    <2> HIDE DEF c
    <2>3. DOMAIN c = 1 .. Len(s) + Len(t)
      BY <2>1, LenProperties
    <2>4. \A k \in 1 .. Len(s) : c[k] = s[k]
      BY <1>1, <2>2
    <2>5. \A k \in 1 .. Len(t) : c[k + Len(s)] = t[k]
      <3> SUFFICES ASSUME NEW k \in 1 .. Len(t) PROVE c[k + Len(s)] = t[k]
        OBVIOUS
      <3>1. /\ k + Len(s) \in 1 .. Len(s) + Len(t)
            /\ ~ (k + Len(s) <= Len(s)) /\ (k + Len(s)) - Len(s) = k
        BY <1>1
      <3>2. QED
        BY <2>2, <3>1
    <2>6. QED
      BY <2>1, <2>3, <2>4, <2>5
  <1> HIDE DEF c
  <1>3. ASSUME NEW i \in 1 .. 2
        PROVE  Cardinality(Ends(c, i, x)) = Cardinality(Ends(s, i, x)) + Cardinality(Ends(t, i, x))
    <2> DEFINE Shifted == {k \in Len(s) + 1 .. Len(s) + Len(t) : c[k][i] = x}
               f == [k \in Ends(t, i, x) |-> k + Len(s)]
    <2>1. /\ IsFiniteSet(Ends(s, i, x)) /\ Cardinality(Ends(s, i, x)) \in Nat
          /\ IsFiniteSet(Ends(t, i, x)) /\ Cardinality(Ends(t, i, x)) \in Nat
      BY EndsFinite
    <2>2. f \in [Ends(t, i, x) -> Shifted]
      BY <1>1, <1>2 DEF Ends
    <2>3. \A a, b \in Ends(t, i, x) : f[a] = f[b] => a = b
      BY <1>1 DEF Ends
    <2>4. \A k \in Shifted : \E a \in Ends(t, i, x) : f[a] = k
      <3> SUFFICES ASSUME NEW k \in Shifted PROVE \E a \in Ends(t, i, x) : f[a] = k
        OBVIOUS
      <3>1. k - Len(s) \in 1 .. Len(t) /\ (k - Len(s)) + Len(s) = k
        BY <1>1
      <3>2. t[k - Len(s)] = c[k]
        BY <1>2, <3>1
      <3>3. k - Len(s) \in Ends(t, i, x)
        BY <1>1, <3>1, <3>2 DEF Ends
      <3>4. QED
        BY <3>1, <3>3
    <2>5. IsFiniteSet(Shifted) /\ Cardinality(Shifted) = Cardinality(Ends(t, i, x))
      <3> HIDE DEF f, Shifted
      <3>1. QED
        BY <2>1, <2>2, <2>3, <2>4, SameCardinality
    <2>6. Ends(c, i, x) = Ends(s, i, x) \cup Shifted
      BY <1>1, <1>2 DEF Ends
    <2>7. Ends(s, i, x) \cap Shifted = {}
      BY <1>1 DEF Ends
    <2> HIDE DEF Shifted
    <2>8. Cardinality(Ends(c, i, x)) = Cardinality(Ends(s, i, x)) + Cardinality(Shifted) - 0
      BY <2>1, <2>5, <2>6, <2>7, FS_Union, FS_EmptySet
    <2>9. QED
      BY <2>1, <2>5, <2>8
  <1>4. /\ Cardinality(Ends(c, 1, x)) = Cardinality(Ends(s, 1, x)) + Cardinality(Ends(t, 1, x))
        /\ Cardinality(Ends(c, 2, x)) = Cardinality(Ends(s, 2, x)) + Cardinality(Ends(t, 2, x))
    BY <1>3
  <1>5. /\ Cardinality(Ends(s, 1, x)) \in Nat /\ Cardinality(Ends(s, 2, x)) \in Nat
        /\ Cardinality(Ends(t, 1, x)) \in Nat /\ Cardinality(Ends(t, 2, x)) \in Nat
    BY EndsFinite
  <1>6. ListDegree(c, x) = ListDegree(s, x) + ListDegree(t, x)
    BY <1>2, <1>4, <1>5, ListDegreeIsEnds
  <1>7. QED
    BY <1>6 DEF c

\* Appending a new edge repeats nothing.
LEMMA OnceAppend ==
  ASSUME NEW s \in Seq(Edge), NEW e \in Edge
  PROVE  /\ ToSet(Append(s, e)) = ToSet(s) \cup {e}
         /\ NoDuplicate(s) /\ e \notin ToSet(s) => NoDuplicate(Append(s, e))
  <1> DEFINE t == Append(s, e)
             n == Len(s) + 1
  <1>1. Len(s) \in Nat /\ DOMAIN s = 1 .. Len(s)
    BY LenProperties
  <1>2. /\ DOMAIN t = 1 .. n
        /\ t[n] = e /\ \A k \in 1 .. Len(s) : t[k] = s[k]
    BY <1>1, AppendProperties, LenProperties
  <1>3. DOMAIN t = DOMAIN s \cup {n} /\ \A k \in DOMAIN s : t[k] = s[k]
    BY <1>1, <1>2
  <1> HIDE DEF t, n
  <1>4. ToSet(t) = ToSet(s) \cup {e}
    BY ZenonT(40), <1>2, <1>3 DEF ToSet
  <1>5. NoDuplicate(s) /\ e \notin ToSet(s) => NoDuplicate(t)
    BY <1>2, <1>3 DEF ToSet, NoDuplicate
  <1>6. QED
    BY <1>4, <1>5 DEF t

\* Joining two lists without a common edge repeats nothing.
LEMMA OnceConcat ==
  ASSUME NEW s \in Seq(Edge), NEW t \in Seq(Edge)
  PROVE  /\ ToSet(s \o t) = ToSet(s) \cup ToSet(t)
         /\ NoDuplicate(s) /\ NoDuplicate(t) /\ ToSet(s) \cap ToSet(t) = {} => NoDuplicate(s \o t)
  <1> DEFINE c == s \o t
  <1>1. /\ Len(s) \in Nat /\ DOMAIN s = 1 .. Len(s)
        /\ Len(t) \in Nat /\ DOMAIN t = 1 .. Len(t)
    BY LenProperties
  <1>2. /\ DOMAIN c = 1 .. Len(s) + Len(t)
        /\ \A k \in 1 .. Len(s) + Len(t) : c[k] = IF k <= Len(s) THEN s[k] ELSE t[k - Len(s)]
    BY ConcatProperties, LenProperties
  <1> HIDE DEF c
  <1>3. /\ \A k \in DOMAIN s : k \in DOMAIN c /\ c[k] = s[k]
        /\ \A k \in DOMAIN t : k + Len(s) \in DOMAIN c /\ c[k + Len(s)] = t[k]
    <2>1. \A k \in DOMAIN s : k \in DOMAIN c /\ c[k] = s[k]
      BY <1>1, <1>2
    <2>2. \A k \in DOMAIN t : /\ k + Len(s) \in DOMAIN c /\ ~ (k + Len(s) <= Len(s))
                              /\ (k + Len(s)) - Len(s) = k
      BY <1>1, <1>2
    <2>3. \A k \in DOMAIN t : c[k + Len(s)] = t[k]
      BY <1>2, <2>2
    <2>4. QED
      BY <2>1, <2>2, <2>3
  <1>4. \A k \in DOMAIN c : \/ k \in DOMAIN s /\ c[k] = s[k]
                            \/ /\ k \notin DOMAIN s /\ k - Len(s) \in DOMAIN t
                               /\ c[k] = t[k - Len(s)]
    BY <1>1, <1>2
  <1>5. ToSet(c) = ToSet(s) \cup ToSet(t)
    <2>1. \A k \in DOMAIN c : c[k] \in ToSet(s) \cup ToSet(t)
      BY <1>4 DEF ToSet
    <2>2. \A k \in DOMAIN s : s[k] \in ToSet(c)
      BY <1>3 DEF ToSet
    <2>3. \A k \in DOMAIN t : t[k] \in ToSet(c)
      BY <1>3 DEF ToSet
    <2>4. QED
      BY <2>1, <2>2, <2>3 DEF ToSet
  <1>6. ASSUME NoDuplicate(s), NoDuplicate(t), ToSet(s) \cap ToSet(t) = {},
               NEW k \in DOMAIN c, NEW l \in DOMAIN c, c[k] = c[l]
        PROVE  k = l
    <2>1. CASE k \in DOMAIN s /\ l \in DOMAIN s
      BY <1>3, <1>6, <2>1 DEF NoDuplicate
    <2>2. CASE k \notin DOMAIN s /\ l \notin DOMAIN s
      <3>1. k - Len(s) \in DOMAIN t /\ l - Len(s) \in DOMAIN t /\ t[k - Len(s)] = t[l - Len(s)]
        BY <1>4, <1>6, <2>2
      <3>2. k - Len(s) = l - Len(s)
        BY <1>6, <3>1 DEF NoDuplicate
      <3>3. k \in Int /\ l \in Int
        BY <1>1, <1>2
      <3>4. QED
        BY <1>1, <3>2, <3>3
    <2>3. CASE k \in DOMAIN s /\ l \notin DOMAIN s
      <3>1. s[k] \in ToSet(s) /\ l - Len(s) \in DOMAIN t /\ c[k] = s[k] /\ c[l] = t[l - Len(s)]
        BY <1>3, <1>4, <1>6, <2>3 DEF ToSet
      <3>2. t[l - Len(s)] \in ToSet(t)
        BY <3>1 DEF ToSet
      <3>3. QED
        BY <1>6, <3>1, <3>2
    <2>4. CASE k \notin DOMAIN s /\ l \in DOMAIN s
      BY ZenonT(40), <1>3, <1>4, <1>6, <2>4 DEF ToSet
    <2>5. QED
      BY <2>1, <2>2, <2>3, <2>4
  <1>7. QED
    BY <1>5, <1>6 DEF NoDuplicate, c

\* Without repetitions, the degrees in a list are those in the set of its edges.
LEMMA OnceDegree ==
  ASSUME NEW s \in Seq(Edge), NoDuplicate(s), NEW x
  PROVE  Degree(ToSet(s), x) = ListDegree(s, x)
  <1>1. ASSUME NEW i \in 1 .. 2
        PROVE  Cardinality({e \in ToSet(s) : e[i] = x}) = Cardinality(Ends(s, i, x))
    <2> DEFINE S == Ends(s, i, x)
               T == {e \in ToSet(s) : e[i] = x}
               f == [k \in S |-> s[k]]
    <2>1. IsFiniteSet(S)
      BY EndsFinite
    <2>2. f \in [S -> T]
      BY DEF Ends, ToSet
    <2>3. \A k, l \in S : f[k] = f[l] => k = l
      BY DEF NoDuplicate, Ends
    <2>4. \A e \in T : \E k \in S : f[k] = e
      BY DEF Ends, ToSet
    <2> HIDE DEF S, T, f
    <2>5. Cardinality(T) = Cardinality(S)
      BY <2>1, <2>2, <2>3, <2>4, SameCardinality
    <2>6. QED
      BY <2>5 DEF S, T
  <1>2. Degree(ToSet(s), x) = Cardinality(Ends(s, 1, x)) + Cardinality(Ends(s, 2, x))
    BY <1>1, 1 \in 1 .. 2, 2 \in 1 .. 2 DEF Degree
  <1>3. QED
    BY <1>2, ListDegreeIsEnds
-----------------------------------------------------------------------------
(****************************************************************************)
(* Weights of sets and of lists of edges.                                    *)
(****************************************************************************)
LEMMA WeightIsSum == \A B, w : Weight(B, w) = SumFunctionOnSet(w, B)
  BY DEF Weight

\* The weight of every position of the list s.
WeightsAt(s, w) == [k \in DOMAIN s |-> w[s[k]]]

\* The weight of a list is the sum over its positions.
LEMMA ListWeightIsSum ==
  \A s, w : ListWeight(s, w) = SumFunctionOnSet(WeightsAt(s, w), DOMAIN s)
  BY DEF ListWeight, SumFunction, WeightsAt

\* Lists of edges of the graph: every position has a weight.
Weighed(s, w) == s \in Seq(Edge) /\ \A k \in DOMAIN s : w[s[k]] \in Nat

\* The weight of a list of weighed edges is a sum over its positions, and a
\* natural number.
LEMMA WeighedList ==
  ASSUME NEW s, NEW w, Weighed(s, w)
  PROVE  /\ DOMAIN s = 1 .. Len(s) /\ Len(s) \in Nat
         /\ IsFiniteSet(DOMAIN s)
         /\ \A k \in DOMAIN s : WeightsAt(s, w)[k] = w[s[k]] /\ WeightsAt(s, w)[k] \in Int
         /\ ListWeight(s, w) = SumFunctionOnSet(WeightsAt(s, w), DOMAIN s)
         /\ ListWeight(s, w) \in Nat
  <1>1. DOMAIN s = 1 .. Len(s) /\ Len(s) \in Nat
    BY LenProperties DEF Weighed
  <1>2. IsFiniteSet(DOMAIN s)
    BY <1>1, FS_Interval
  <1>3. \A k \in DOMAIN s : WeightsAt(s, w)[k] = w[s[k]] /\ WeightsAt(s, w)[k] \in Nat
    BY DEF WeightsAt, Weighed
  <1>4. ListWeight(s, w) = SumFunctionOnSet(WeightsAt(s, w), DOMAIN s)
    BY <1>2, ListWeightIsSum
  <1>5. SumFunctionOnSet(WeightsAt(s, w), DOMAIN s) \in Nat
    BY <1>2, <1>3, SumNat
  <1>6. QED
    BY <1>1, <1>2, <1>3, <1>4, <1>5

\* The empty list weighs nothing.
LEMMA ListWeightEmpty == \A w : ListWeight(<<>>, w) = 0
  <1> TAKE w
  <1>1. DOMAIN <<>> = {} /\ IsFiniteSet({})
    BY FS_EmptySet
  <1>2. ListWeight(<<>>, w) = SumFunctionOnSet(WeightsAt(<<>>, w), {})
    BY <1>1, ListWeightIsSum
  <1>3. QED
    BY <1>2, SumEmpty

\* Weights in a concatenation add up.
LEMMA ListWeightConcat ==
  ASSUME NEW s, NEW t, NEW w, Weighed(s, w), Weighed(t, w)
  PROVE  Weighed(s \o t, w) /\ ListWeight(s \o t, w) = ListWeight(s, w) + ListWeight(t, w)
  <1> DEFINE c == s \o t
             n == Len(s)
             Later == {k + n : k \in DOMAIN t}
             shift == [k \in DOMAIN t |-> k + n]
  <1>1. /\ DOMAIN s = 1 .. n /\ n \in Nat
        /\ DOMAIN t = 1 .. Len(t) /\ Len(t) \in Nat
        /\ IsFiniteSet(DOMAIN s) /\ IsFiniteSet(DOMAIN t)
    BY WeighedList
  <1>2. s \in Seq(Edge) /\ t \in Seq(Edge)
    BY DEF Weighed
  <1>3. /\ c \in Seq(Edge) /\ DOMAIN c = 1 .. n + Len(t)
        /\ \A k \in 1 .. n + Len(t) : c[k] = IF k <= n THEN s[k] ELSE t[k - n]
    BY <1>2, ConcatProperties, LenProperties
  <1> HIDE DEF c, n
  <1>4. /\ \A k \in DOMAIN s : c[k] = s[k]
        /\ \A k \in DOMAIN t : c[k + n] = t[k]
    <2>1. \A k \in DOMAIN t : k + n \in 1 .. n + Len(t) /\ ~ (k + n <= n) /\ (k + n) - n = k
      BY <1>1
    <2>2. QED
      BY <1>1, <1>3, <2>1
  <1>5. DOMAIN c = DOMAIN s \cup Later /\ DOMAIN s \cap Later = {}
    <2>1. \A k \in DOMAIN c : k \notin DOMAIN s => k - n \in DOMAIN t /\ (k - n) + n = k
      BY <1>1, <1>3
    <2>2. \A k \in DOMAIN t : k + n \in DOMAIN c /\ k + n \notin DOMAIN s
      BY <1>1, <1>3
    <2>3. DOMAIN s \subseteq DOMAIN c
      BY <1>1, <1>3
    <2>4. QED
      BY <2>1, <2>2, <2>3
  <1>6. Weighed(c, w)
    <2>1. \A k \in DOMAIN s : w[c[k]] \in Nat
      BY <1>4 DEF Weighed
    <2>2. \A k \in Later : w[c[k]] \in Nat
      BY <1>4 DEF Weighed
    <2>3. QED
      BY <1>3, <1>5, <2>1, <2>2 DEF Weighed
  <1>7. /\ \A k \in DOMAIN s : WeightsAt(c, w)[k] = WeightsAt(s, w)[k] /\ WeightsAt(s, w)[k] \in Int
        /\ \A k \in DOMAIN t : WeightsAt(c, w)[k + n] = WeightsAt(t, w)[k] /\ WeightsAt(t, w)[k] \in Int
        /\ \A k \in DOMAIN c : WeightsAt(c, w)[k] \in Int
    <2>1. \A k \in DOMAIN t : k + n \in DOMAIN c
      BY <1>5
    <2>2. \A k \in DOMAIN c : WeightsAt(c, w)[k] = w[c[k]] /\ WeightsAt(c, w)[k] \in Int
      BY <1>6, WeighedList
    <2>3. /\ \A k \in DOMAIN s : WeightsAt(s, w)[k] = w[s[k]] /\ WeightsAt(s, w)[k] \in Int
          /\ \A k \in DOMAIN t : WeightsAt(t, w)[k] = w[t[k]] /\ WeightsAt(t, w)[k] \in Int
      BY WeighedList
    <2>4. QED
      BY <1>4, <1>5, <2>1, <2>2, <2>3
  <1>8. SumFunctionOnSet(WeightsAt(c, w), DOMAIN s) = SumFunctionOnSet(WeightsAt(s, w), DOMAIN s)
    BY <1>1, <1>7, SumSame
  <1>9. IsFiniteSet(Later) /\ SumFunctionOnSet(WeightsAt(c, w), Later) = SumFunctionOnSet(WeightsAt(t, w), DOMAIN t)
    <2>1. \A k, l \in DOMAIN t : shift[k] = shift[l] => k = l
      BY <1>1
    <2>2. shift \in [DOMAIN t -> Later] /\ \A y \in Later : \E k \in DOMAIN t : shift[k] = y
      OBVIOUS
    <2>3. \A k \in DOMAIN t : WeightsAt(t, w)[k] \in Int /\ WeightsAt(c, w)[shift[k]] = WeightsAt(t, w)[k]
      BY <1>7
    <2> DEFINE K == DOMAIN t
               g == WeightsAt(t, w)
               h == WeightsAt(c, w)
    <2>4. /\ IsFiniteSet(K) /\ shift \in [K -> Later]
          /\ \A k, l \in K : shift[k] = shift[l] => k = l
          /\ \A y \in Later : \E k \in K : shift[k] = y
          /\ \A k \in K : g[k] \in Int /\ h[shift[k]] = g[k]
      BY <1>1, <2>1, <2>2, <2>3
    <2> HIDE DEF shift, Later, K, g, h
    <2>5. IsFiniteSet(Later) /\ SumFunctionOnSet(h, Later) = SumFunctionOnSet(g, K)
      BY <2>4, SumImage
    <2>6. QED
      BY <2>5 DEF K, g, h
  <1>10. \A k \in DOMAIN s \cup Later : WeightsAt(c, w)[k] \in Int
    BY <1>5, <1>7
  <1> HIDE DEF Later, shift
  <1>11. SumFunctionOnSet(WeightsAt(c, w), DOMAIN c) = SumFunctionOnSet(WeightsAt(c, w), DOMAIN s) + SumFunctionOnSet(WeightsAt(c, w), Later)
    <2>1. SumFunctionOnSet(WeightsAt(c, w), DOMAIN s \cup Later) = SumFunctionOnSet(WeightsAt(c, w), DOMAIN s) + SumFunctionOnSet(WeightsAt(c, w), Later)
      BY <1>1, <1>5, <1>9, <1>10, SumUnion
    <2>2. QED
      BY <1>5, <2>1
  <1>12. /\ ListWeight(c, w) = SumFunctionOnSet(WeightsAt(c, w), DOMAIN c)
         /\ ListWeight(s, w) = SumFunctionOnSet(WeightsAt(s, w), DOMAIN s)
         /\ ListWeight(t, w) = SumFunctionOnSet(WeightsAt(t, w), DOMAIN t)
    BY <1>6, WeighedList
  <1>13. QED
    BY <1>6, <1>8, <1>9, <1>11, <1>12 DEF c

\* A further edge adds its weight.
LEMMA ListWeightAppend ==
  ASSUME NEW s, NEW w, Weighed(s, w), NEW e \in Edge, w[e] \in Nat
  PROVE  Weighed(Append(s, e), w) /\ ListWeight(Append(s, e), w) = ListWeight(s, w) + w[e]
  <1>1. /\ <<e>> \in Seq(Edge) /\ DOMAIN <<e>> = {1} /\ <<e>>[1] = e
        /\ Append(s, e) = s \o <<e>>
    BY DEF Weighed
  <1>2. Weighed(<<e>>, w)
    BY <1>1 DEF Weighed
  <1>3. ListWeight(<<e>>, w) = w[e]
    <2>1. /\ ListWeight(<<e>>, w) = SumFunctionOnSet(WeightsAt(<<e>>, w), {1})
          /\ WeightsAt(<<e>>, w)[1] = w[e]
      BY <1>1, <1>2, WeighedList
    <2>2. SumFunctionOnSet(WeightsAt(<<e>>, w), {1}) = WeightsAt(<<e>>, w)[1]
      <3> DEFINE g == WeightsAt(<<e>>, w)
      <3>1. g[1] \in Int
        BY <2>1
      <3> HIDE DEF g
      <3>2. SumFunctionOnSet(g, {1}) = g[1]
        BY <3>1, SumOne
      <3>3. QED
        BY <3>2 DEF g
    <2>3. QED
      BY <2>1, <2>2
  <1>4. QED
    BY <1>1, <1>2, <1>3, ListWeightConcat

\* Without repetitions, a list weighs what the set of its edges weighs.
LEMMA OnceWeight ==
  ASSUME NEW s, NEW w, Weighed(s, w), NoDuplicate(s)
  PROVE  Weight(ToSet(s), w) = ListWeight(s, w)
  <1> DEFINE K == DOMAIN s
             T == ToSet(s)
             f == [k \in K |-> s[k]]
             g == WeightsAt(s, w)
  <1>1. /\ IsFiniteSet(K) /\ \A k \in K : g[k] = w[s[k]] /\ g[k] \in Int
        /\ ListWeight(s, w) = SumFunctionOnSet(g, K)
    BY WeighedList
  <1>2. f \in [K -> T] /\ \A y \in T : \E k \in K : f[k] = y
    BY DEF ToSet
  <1>3. \A k, l \in K : f[k] = f[l] => k = l
    BY DEF NoDuplicate
  <1>4. \A k \in K : g[k] \in Int /\ w[f[k]] = g[k]
    BY <1>1
  <1> HIDE DEF K, T, f, g
  <1>5. SumFunctionOnSet(w, T) = SumFunctionOnSet(g, K)
    BY <1>1, <1>2, <1>3, <1>4, SumImage
  <1>6. QED
    BY <1>1, <1>5, WeightIsSum DEF T
-----------------------------------------------------------------------------
(****************************************************************************)
(* Degrees in a set of edges, and optimal b-matchings.                       *)
(****************************************************************************)
IncidentTo(e, x) == e[1] = x \/ e[2] = x

\* Degrees are natural numbers, grow with the set of edges, and count a loop
\* twice.
LEMMA DegreeFacts ==
  ASSUME NEW B \in SUBSET Edge, NEW x
  PROVE  /\ Degree(B, x) \in Nat
         /\ Degree(B, x) = 0 <=> \A e \in B : ~ IncidentTo(e, x)
         /\ \A A \in SUBSET B : Degree(A, x) <= Degree(B, x)
         /\ \A e \in B : IncidentTo(e, x) => Degree(B \ {e}, x) <= Degree(B, x) - 1
         /\ \A e \in B : e[1] = x /\ e[2] = x => Degree(B, x) >= 2
  <1> DEFINE Side(A, i) == {e \in A : e[i] = x}
  <1>1. \A A \in SUBSET B : \A i \in 1 .. 2 :
          IsFiniteSet(Side(A, i)) /\ Cardinality(Side(A, i)) \in Nat
    <2>1. \A A \in SUBSET B : \A i \in 1 .. 2 : Side(A, i) \in SUBSET Edge
      OBVIOUS
    <2> HIDE DEF Side
    <2>2. QED
      BY <2>1, EdgesFinite, FS_CardinalityType
  <1>2. \A A : Degree(A, x) = Cardinality(Side(A, 1)) + Cardinality(Side(A, 2))
    BY DEF Degree
  <1>3. \A A \in SUBSET B : \A i \in 1 .. 2 : Cardinality(Side(A, i)) <= Cardinality(Side(B, i))
    <2>1. \A A \in SUBSET B : \A i \in 1 .. 2 : Side(A, i) \in SUBSET Side(B, i)
      OBVIOUS
    <2> HIDE DEF Side
    <2>2. QED
      BY <1>1, <2>1, FS_Subset
  <1>4. \A i \in 1 .. 2 : Cardinality(Side(B, i)) = 0 <=> Side(B, i) = {}
    <2> HIDE DEF Side
    <2>1. QED
      BY <1>1, FS_EmptySet
  <1>5. ASSUME NEW e \in B, NEW i \in 1 .. 2, e[i] = x
        PROVE  Cardinality(Side(B \ {e}, i)) = Cardinality(Side(B, i)) - 1
    <2> DEFINE S == Side(B, i)
    <2>1. e \in S /\ Side(B \ {e}, i) = S \ {e}
      BY <1>5
    <2>2. IsFiniteSet(S)
      BY <1>1
    <2> HIDE DEF Side, S
    <2>3. Cardinality(S \ {e}) = Cardinality(S) - 1
      BY <2>1, <2>2, FS_RemoveElement
    <2>4. QED
      BY <2>1, <2>3 DEF S
  <1>6. 1 \in 1 .. 2 /\ 2 \in 1 .. 2
    OBVIOUS
  <1>7. \A i \in 1 .. 2 : Side(B, i) = {} <=> \A e \in B : e[i] # x
    OBVIOUS
  <1> HIDE DEF Side
  <1>8. Degree(B, x) \in Nat
    BY <1>1, <1>2, <1>6
  <1>9. Degree(B, x) = 0 <=> \A e \in B : ~ IncidentTo(e, x)
    BY <1>1, <1>2, <1>4, <1>6, <1>7 DEF IncidentTo
  <1>10. \A A \in SUBSET B : Degree(A, x) <= Degree(B, x)
    BY <1>1, <1>2, <1>3, <1>6
  <1>11. ASSUME NEW e \in B, IncidentTo(e, x)
         PROVE  Degree(B \ {e}, x) <= Degree(B, x) - 1
    <2>1. /\ Cardinality(Side(B \ {e}, 1)) <= Cardinality(Side(B, 1))
          /\ Cardinality(Side(B \ {e}, 2)) <= Cardinality(Side(B, 2))
          /\ Cardinality(Side(B \ {e}, 1)) \in Nat /\ Cardinality(Side(B, 1)) \in Nat
          /\ Cardinality(Side(B \ {e}, 2)) \in Nat /\ Cardinality(Side(B, 2)) \in Nat
      BY <1>1, <1>3, <1>6
    <2>2. CASE e[1] = x
      <3>1. Cardinality(Side(B \ {e}, 1)) = Cardinality(Side(B, 1)) - 1
        BY <1>5, <1>6, <2>2
      <3>2. QED
        BY <1>2, <2>1, <3>1
    <2>3. CASE e[2] = x
      <3>1. Cardinality(Side(B \ {e}, 2)) = Cardinality(Side(B, 2)) - 1
        BY <1>5, <1>6, <2>3
      <3>2. QED
        BY <1>2, <2>1, <3>1
    <2>4. QED
      BY <1>11, <2>2, <2>3 DEF IncidentTo
  <1>12. ASSUME NEW e \in B, e[1] = x, e[2] = x
         PROVE  Degree(B, x) >= 2
    <2>1. Side(B, 1) # {} /\ Side(B, 2) # {}
      BY <1>6, <1>7, <1>12
    <2>2. QED
      BY <1>1, <1>2, <1>4, <1>6, <2>1
  <1>13. QED
    BY <1>8, <1>9, <1>10, <1>11, <1>12

\* The best weight is the weight of some b-matching, and of none exceeded.
LEMMA BestIsBest ==
  ASSUME NEW E \in SUBSET Edge, NEW w, \A e \in E : w[e] \in Nat, NEW ub \in [Node -> Nat]
  PROVE  /\ \E B \in SUBSET E : IsBMatching(B, E, ub) /\ Weight(B, w) = BestWeight(E, w, ub)
         /\ \A B \in SUBSET E : IsBMatching(B, E, ub) => Weight(B, w) <= BestWeight(E, w, ub)
         /\ BestWeight(E, w, ub) \in Nat
  <1> DEFINE All == {B \in SUBSET E : IsBMatching(B, E, ub)}
             W == {Weight(B, w) : B \in All}
             f == [B \in All |-> Weight(B, w)]
  <1>1. \A B \in SUBSET E : Weight(B, w) \in Nat
    <2>1. \A B \in SUBSET E : IsFiniteSet(B) /\ \A e \in B : w[e] \in Nat
      BY EdgesFinite
    <2>2. QED
      BY <2>1, SumNat, WeightIsSum
  <1>2. IsFiniteSet(All)
    <2>1. IsFiniteSet(SUBSET E)
      BY EdgesFinite, FS_SUBSET
    <2>2. QED
      BY <2>1, FS_Subset
  <1>3. IsFiniteSet(W)
    <2>1. {f[B] : B \in All} = W
      OBVIOUS
    <2> HIDE DEF f, W, All
    <2>2. IsFiniteSet({f[B] : B \in All})
      BY <1>2, ImageFinite
    <2>3. QED
      BY <2>1, <2>2
  <1>4. {} \in All
    <2>1. \A x \in Node : Degree({}, x) = 0
      BY DegreeFacts
    <2>2. QED
      BY <2>1 DEF IsBMatching
  <1>5. W \in SUBSET Int /\ W # {} /\ W \subseteq Nat
    BY <1>1, <1>4
  <1>6. BestWeight(E, w, ub) = Max(W)
    BY DEF BestWeight
  <1> HIDE DEF W
  <1>7. Max(W) \in W /\ \A y \in W : Max(W) >= y
    BY <1>3, <1>5, MaxIsGreatest
  <1>8. \A y \in W : \A z \in W : z >= y <=> y <= z
    BY <1>5
  <1>9. QED
    BY <1>5, <1>6, <1>7, <1>8 DEF W

\* Degrees in disjoint sets of edges add up.
LEMMA DegreeUnion ==
  ASSUME NEW A \in SUBSET Edge, NEW B \in SUBSET Edge, A \cap B = {}, NEW x
  PROVE  Degree(A \cup B, x) = Degree(A, x) + Degree(B, x)
  <1> DEFINE Side(D, i) == {e \in D : e[i] = x}
  <1>1. ASSUME NEW i \in 1 .. 2
        PROVE  /\ Cardinality(Side(A \cup B, i)) = Cardinality(Side(A, i)) + Cardinality(Side(B, i))
               /\ Cardinality(Side(A, i)) \in Nat /\ Cardinality(Side(B, i)) \in Nat
    <2> DEFINE S == Side(A, i)
               T == Side(B, i)
    <2>1. Side(A \cup B, i) = S \cup T /\ S \cap T = {} /\ S \in SUBSET Edge /\ T \in SUBSET Edge
      OBVIOUS
    <2> HIDE DEF S, T, Side
    <2>2. IsFiniteSet(S) /\ IsFiniteSet(T)
      BY <2>1, EdgesFinite
    <2>3. Cardinality(S \cup T) = Cardinality(S) + Cardinality(T) - Cardinality(S \cap T)
      BY <2>2, FS_Union
    <2>4. Cardinality(S) \in Nat /\ Cardinality(T) \in Nat
      BY <2>2, FS_CardinalityType
    <2>5. Cardinality(S \cap T) = 0
      BY <2>1, FS_EmptySet
    <2>6. Cardinality(S \cup T) = Cardinality(S) + Cardinality(T)
      BY <2>3, <2>4, <2>5
    <2>7. QED
      BY <2>1, <2>4, <2>6 DEF S, T
  <1>2. \A D : Degree(D, x) = Cardinality(Side(D, 1)) + Cardinality(Side(D, 2))
    BY DEF Degree
  <1>3. 1 \in 1 .. 2 /\ 2 \in 1 .. 2
    OBVIOUS
  <1> HIDE DEF Side
  <1>4. QED
    BY <1>1, <1>2, <1>3

-----------------------------------------------------------------------------
(****************************************************************************)
(* Joining a sequence of lists.                                              *)
(****************************************************************************)
JoinRule(ss, F, i) == IF i = 1 THEN ss[i] ELSE F[i - 1] \o ss[i]

\* The recursion of FlattenSeq has a solution, for every length.
LEMMA JoinExists ==
  ASSUME NEW ss, NEW n \in Nat
  PROVE  \E F : F = [i \in 1 .. n |-> JoinRule(ss, F, i)]
  <1> DEFINE Upto(m) == \E F : F = [i \in 1 .. m |-> JoinRule(ss, F, i)]
             Bad == {m \in Nat : ~ Upto(m)}
  <1>1. Upto(0)
    <2> DEFINE F == [i \in 1 .. 0 |-> <<>>]
    <2>1. F = [i \in 1 .. 0 |-> JoinRule(ss, F, i)]
      OBVIOUS
    <2>2. QED
      BY <2>1
  <1>2. ASSUME NEW m \in Nat, Upto(m)
        PROVE  Upto(m + 1)
    <2>1. PICK G : G = [i \in 1 .. m |-> JoinRule(ss, G, i)]
      BY <1>2
    <2> DEFINE F == [i \in 1 .. m + 1 |-> JoinRule(ss, G, i)]
    <2>2. \A i \in 1 .. m : F[i] = G[i]
      BY <2>1
    <2>3. \A i \in 1 .. m + 1 : i = 1 \/ i - 1 \in 1 .. m
      OBVIOUS
    <2> HIDE DEF F
    <2>4. \A i \in 1 .. m + 1 : JoinRule(ss, F, i) = JoinRule(ss, G, i)
      BY <2>2, <2>3 DEF JoinRule
    <2>5. F = [i \in 1 .. m + 1 |-> JoinRule(ss, F, i)]
      BY <2>4 DEF F
    <2>6. QED
      BY <2>5
  <1>3. Bad = {}
    <2> SUFFICES ASSUME Bad # {} PROVE FALSE
      OBVIOUS
    <2>1. Bad \in SUBSET Nat
      OBVIOUS
    <2>2. PICK m \in Bad : m = 0 \/ m - 1 \notin Bad
      <3> HIDE DEF Bad
      <3> QED
        BY <2>1, LeastBad
    <2> HIDE DEF Upto
    <2>3. m # 0 /\ m \in Nat
      BY <1>1
    <2>4. m - 1 \in Nat /\ (m - 1) + 1 = m
      BY <2>3
    <2>5. QED
      BY <1>2, <2>2, <2>3, <2>4
  <1>4. QED
    BY <1>3

\* F joins the first lists of ss, as many as its argument says.
Joins(F, ss) ==
  \A i \in 1 .. Len(ss) : F[i] = IF i = 1 THEN ss[i] ELSE F[i - 1] \o ss[i]

\* FlattenSeq is such a solution.
LEMMA FlattenRuns ==
  ASSUME NEW S, NEW ss \in Seq(S), ss # <<>>
  PROVE  \E F : FlattenSeq(ss) = F[Len(ss)] /\ Joins(F, ss)
  <1> DEFINE n == Len(ss)
             F == CHOOSE G : G = [i \in 1 .. n |-> IF i = 1 THEN ss[i] ELSE G[i - 1] \o ss[i]]
  <1>1. n \in Nat /\ n # 0
    BY LenProperties, EmptySeq
  <1>2. FlattenSeq(ss) = F[n]
    BY SMTT(30), <1>1 DEF FlattenSeq
  <1>3. F = [i \in 1 .. n |-> IF i = 1 THEN ss[i] ELSE F[i - 1] \o ss[i]]
    <2> HIDE DEF n
    <2>1. \E G : G = [i \in 1 .. n |-> IF i = 1 THEN ss[i] ELSE G[i - 1] \o ss[i]]
      BY <1>1, JoinExists DEF JoinRule
    <2>2. QED
      BY <2>1
  <1> HIDE DEF F, n
  <1>4. \A i \in 1 .. n : F[i] = IF i = 1 THEN ss[i] ELSE F[i - 1] \o ss[i]
    BY <1>3
  <1>5. Joins(F, ss)
    BY <1>4 DEF Joins, n
  <1>6. QED
    BY <1>2, <1>5 DEF n

\* Joining goes on where it was: what comes first does not depend on what follows.
LEMMA FlattenAppend ==
  ASSUME NEW T, NEW ss \in Seq(Seq(T)), NEW t \in Seq(T)
  PROVE  /\ FlattenSeq(<<>>) = <<>>
         /\ FlattenSeq(ss) \in Seq(T)
         /\ FlattenSeq(Append(ss, t)) = FlattenSeq(ss) \o t
  <1> DEFINE tt == Append(ss, t)
             n == Len(ss)
  <1>1. FlattenSeq(<<>>) = <<>>
    BY DEF FlattenSeq
  <1>2. /\ n \in Nat /\ tt \in Seq(Seq(T)) /\ tt # <<>> /\ Len(tt) = n + 1
        /\ \A i \in 1 .. n : tt[i] = ss[i] /\ ss[i] \in Seq(T)
        /\ tt[n + 1] = t
    BY AppendProperties, LenProperties, ElementOfSeq
  <1>3. PICK F : FlattenSeq(tt) = F[n + 1] /\ Joins(F, tt)
    BY <1>2, FlattenRuns
  <1> HIDE DEF tt
  <1>4. CASE ss = <<>>
    <2>1. n = 0
      BY <1>4
    <2>2. F[1] = t
      BY <1>2, <1>3, <2>1 DEF Joins
    <2>3. <<>> \o t = t /\ <<>> \in Seq(T)
      BY ConcatEmptySeq
    <2>4. FlattenSeq(tt) = t
      BY <1>3, <2>1, <2>2
    <2>5. FlattenSeq(ss) = <<>>
      BY <1>1, <1>4
    <2>6. QED
      BY <1>1, <2>3, <2>4, <2>5 DEF tt
  <1>5. CASE ss # <<>>
    <2>1. PICK G : FlattenSeq(ss) = G[n] /\ Joins(G, ss)
      BY <1>5, FlattenRuns
    <2>2. n # 0
      BY <1>5, EmptySeq
    <2> DEFINE Good(i) == F[i] = G[i] /\ G[i] \in Seq(T)
               Bad == {i \in Nat : i + 1 <= n /\ ~ Good(i + 1)}
    <2> HIDE DEF n
    <2>3. /\ \A i \in 1 .. n : G[i] = IF i = 1 THEN ss[i] ELSE G[i - 1] \o ss[i]
          /\ \A i \in 1 .. n + 1 : F[i] = IF i = 1 THEN tt[i] ELSE F[i - 1] \o tt[i]
      <3>1. \A i \in 1 .. n : G[i] = IF i = 1 THEN ss[i] ELSE G[i - 1] \o ss[i]
        BY <2>1 DEF Joins, n
      <3>2. \A i \in 1 .. Len(tt) : F[i] = IF i = 1 THEN tt[i] ELSE F[i - 1] \o tt[i]
        BY <1>3 DEF Joins
      <3>3. QED
        BY <1>2, <3>1, <3>2
    <2>4. Good(1)
      BY SMTT(30), <1>2, <2>2, <2>3
    <2>5. ASSUME NEW i \in 1 .. n, i # 1, Good(i - 1)
          PROVE  Good(i)
      <3>0. i \in 1 .. n + 1
        BY <1>2
      <3>1. F[i] = F[i - 1] \o tt[i] /\ G[i] = G[i - 1] \o ss[i]
        BY <2>3, <2>5, <3>0
      <3>2. G[i - 1] \in Seq(T) /\ ss[i] \in Seq(T) /\ tt[i] = ss[i] /\ F[i - 1] = G[i - 1]
        BY <1>2, <2>5
      <3>3. G[i - 1] \o ss[i] \in Seq(T)
        BY <3>2, ConcatProperties
      <3>4. QED
        BY <3>1, <3>2, <3>3
    <2>6. Bad = {}
      <3> SUFFICES ASSUME Bad # {} PROVE FALSE
        OBVIOUS
      <3>1. Bad \in SUBSET Nat
        OBVIOUS
      <3>2. PICK i \in Bad : i = 0 \/ i - 1 \notin Bad
        <4> HIDE DEF Bad
        <4> QED
          BY <3>1, LeastBad
      <3> HIDE DEF Good
      <3>3. i \in Nat /\ i # 0 /\ i + 1 <= n /\ ~ Good(i + 1)
        BY <2>4
      <3>4. i - 1 \in Nat /\ (i - 1) + 1 = i /\ (i + 1) - 1 = i /\ i + 1 \in 1 .. n /\ i + 1 # 1
        BY <1>2, <3>3
      <3>5. Good(i)
        BY <1>2, <3>2, <3>3, <3>4
      <3>6. QED
        BY <2>5, <3>3, <3>4, <3>5
    <2>7. Good(n)
      <3>1. n - 1 \in Nat /\ (n - 1) + 1 = n
        BY <1>2, <2>2
      <3> HIDE DEF Good
      <3>2. \A i \in Nat : i + 1 <= n => Good(i + 1)
        BY <2>6
      <3>3. (n - 1) + 1 <= n
        BY <1>2, <3>1
      <3>4. Good((n - 1) + 1)
        BY <3>1, <3>2, <3>3
      <3>5. QED
        BY <3>1, <3>4
    <2>8. F[n + 1] = F[n] \o t
      <3>1. n + 1 \in 1 .. n + 1 /\ n + 1 # 1 /\ (n + 1) - 1 = n
        BY <1>2, <2>2
      <3>2. F[n + 1] = F[(n + 1) - 1] \o tt[n + 1]
        BY <2>3, <3>1
      <3>3. QED
        BY <1>2, <3>1, <3>2
    <2>9. QED
      BY <1>1, <1>3, <2>1, <2>7, <2>8 DEF tt
  <1>6. QED
    BY <1>4, <1>5
=============================================================================
