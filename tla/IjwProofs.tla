------------------------------- MODULE IjwProofs -------------------------------
(****************************************************************************)
(* Facts about the conversions of Vector.cpp: what a selection of entries    *)
(* keeps, and what normalising an edge list does to the weight of an edge.   *)
(****************************************************************************)
EXTENDS SolverContract, BMatchingProofs

-----------------------------------------------------------------------------
(****************************************************************************)
(* Counting off a finite set in a strict total order.                        *)
(****************************************************************************)
Rank(R, K, p) == Cardinality({q \in K : <<q, p>> \in R})

StrictOrder(R, K) ==
  /\ \A p \in K : <<p, p>> \notin R
  /\ \A p, q \in K : p = q \/ <<p, q>> \in R \/ <<q, p>> \in R
  /\ \A p, q, r \in K : <<p, q>> \in R /\ <<q, r>> \in R => <<p, r>> \in R

\* The ranks of n elements are 0 .. n-1 at most, and grow with the order.
LEMMA RankGrows ==
  ASSUME NEW K, IsFiniteSet(K), NEW R, StrictOrder(R, K)
  PROVE  /\ \A p \in K : Rank(R, K, p) \in 0 .. Cardinality(K) - 1
         /\ \A p, q \in K : <<p, q>> \in R => Rank(R, K, p) < Rank(R, K, q)
  <1> DEFINE Below(p) == {q \in K : <<q, p>> \in R}
  <1>1. \A p \in K : Below(p) \in SUBSET K /\ p \notin Below(p)
    BY DEF StrictOrder
  <1>2. \A p, q \in K : <<p, q>> \in R => Below(p) \in SUBSET Below(q) /\ p \in Below(q)
    BY DEF StrictOrder
  <1>3. \A p \in K : Rank(R, K, p) = Cardinality(Below(p))
    BY DEF Rank
  <1> HIDE DEF Below
  <1>4. \A p \in K : IsFiniteSet(Below(p)) /\ Cardinality(Below(p)) \in Nat
    BY <1>1, FS_Subset, FS_CardinalityType
  <1>5. Cardinality(K) \in Nat
    BY FS_CardinalityType
  <1>6. ASSUME NEW p \in K
        PROVE  Cardinality(Below(p)) < Cardinality(K)
    <2>1. Below(p) # K
      BY <1>1
    <2>2. QED
      BY <1>1, <1>4, <1>5, <2>1, FS_Subset
  <1>7. ASSUME NEW p \in K, NEW q \in K, <<p, q>> \in R
        PROVE  Cardinality(Below(p)) < Cardinality(Below(q))
    <2>1. Below(p) # Below(q) /\ Below(p) \in SUBSET Below(q)
      BY <1>1, <1>2, <1>7
    <2>2. QED
      BY <1>4, <2>1, FS_Subset
  <1>8. QED
    BY <1>3, <1>4, <1>5, <1>6, <1>7

\* The k-th member in the order, which exists and is the only one.
KthIn(R, K, k) == CHOOSE p \in K : Rank(R, K, p) = k - 1

\* Every rank is taken once, so the elements can be listed in their order.
LEMMA CountOff ==
  ASSUME NEW K, IsFiniteSet(K), NEW R, StrictOrder(R, K)
  PROVE  /\ Cardinality(K) \in Nat
         /\ \A k \in 1 .. Cardinality(K) : /\ KthIn(R, K, k) \in K
                                           /\ Rank(R, K, KthIn(R, K, k)) = k - 1
         /\ \A p \in K : /\ Rank(R, K, p) + 1 \in 1 .. Cardinality(K)
                         /\ KthIn(R, K, Rank(R, K, p) + 1) = p
         /\ \A k, l \in 1 .. Cardinality(K) :
              k < l <=> <<KthIn(R, K, k), KthIn(R, K, l)>> \in R
  <1> DEFINE n == Cardinality(K)
             f == [p \in K |-> Rank(R, K, p)]
  <1>1. n \in Nat
    BY FS_CardinalityType
  <1>2. /\ \A p \in K : Rank(R, K, p) \in 0 .. n - 1
        /\ \A p, q \in K : <<p, q>> \in R => Rank(R, K, p) < Rank(R, K, q)
    BY RankGrows
  <1>3. \A p, q \in K : Rank(R, K, p) = Rank(R, K, q) => p = q
    <2> SUFFICES ASSUME NEW p \in K, NEW q \in K, Rank(R, K, p) = Rank(R, K, q) PROVE p = q
      OBVIOUS
    <2>1. ~ (Rank(R, K, p) < Rank(R, K, q)) /\ ~ (Rank(R, K, q) < Rank(R, K, p))
      BY <1>1, <1>2
    <2>2. <<p, q>> \notin R /\ <<q, p>> \notin R
      BY <1>2, <2>1
    <2>3. QED
      BY <2>2 DEF StrictOrder
  <1>4. \A i \in 0 .. n - 1 : \E p \in K : Rank(R, K, p) = i
    <2>1. f \in [K -> 0 .. n - 1] /\ \A p, q \in K : f[p] = f[q] => p = q
      BY <1>2, <1>3
    <2>2. IsFiniteSet(0 .. n - 1) /\ Cardinality(0 .. n - 1) = n
      BY <1>1, FS_Interval
    <2> HIDE DEF f
    <2>3. f \in Injection(K, 0 .. n - 1)
      BY <2>1, Fun_IsInj
    <2>4. f \in Surjection(K, 0 .. n - 1)
      BY <2>2, <2>3, FS_Injection
    <2>5. \A i \in 0 .. n - 1 : \E p \in K : f[p] = i
      BY <2>4 DEF Surjection
    <2>6. QED
      BY <2>5 DEF f
  <1> HIDE DEF f
  <1>5. \A k \in 1 .. n : KthIn(R, K, k) \in K /\ Rank(R, K, KthIn(R, K, k)) = k - 1
    <2> TAKE k \in 1 .. n
    <2>1. \E p \in K : Rank(R, K, p) = k - 1
      BY <1>1, <1>4
    <2>2. QED
      BY <2>1 DEF KthIn
  <1>6. \A p \in K : Rank(R, K, p) + 1 \in 1 .. n /\ KthIn(R, K, Rank(R, K, p) + 1) = p
    <2> TAKE p \in K
    <2>1. Rank(R, K, p) + 1 \in 1 .. n /\ (Rank(R, K, p) + 1) - 1 = Rank(R, K, p)
      BY <1>1, <1>2
    <2>2. QED
      BY <1>3, <1>5, <2>1
  <1>7. ASSUME NEW k \in 1 .. n, NEW l \in 1 .. n
        PROVE  k < l <=> <<KthIn(R, K, k), KthIn(R, K, l)>> \in R
    <2> DEFINE p == KthIn(R, K, k)
               q == KthIn(R, K, l)
    <2>1. p \in K /\ q \in K /\ Rank(R, K, p) = k - 1 /\ Rank(R, K, q) = l - 1
      BY <1>5
    <2> HIDE DEF p, q
    <2>2. CASE <<p, q>> \in R
      <3>1. k - 1 < l - 1
        BY <1>2, <2>1, <2>2
      <3>2. QED
        BY <1>1, <2>2, <3>1 DEF p, q
    <2>3. CASE <<p, q>> \notin R
      <3>1. p = q \/ <<q, p>> \in R
        BY <2>1, <2>3 DEF StrictOrder
      <3>2. k - 1 = l - 1 \/ l - 1 < k - 1
        BY <1>2, <2>1, <3>1
      <3>3. QED
        BY <1>1, <2>3, <3>2 DEF p, q
    <2>4. QED
      BY <2>2, <2>3
  <1>8. QED
    BY <1>1, <1>5, <1>6, <1>7
-----------------------------------------------------------------------------
(****************************************************************************)
(* Entries kept of a list.                                                   *)
(****************************************************************************)
SelectRule(s, K, F, i) ==
  IF i = 0 THEN <<>> ELSE IF i \in K THEN Append(F[i - 1], s[i]) ELSE F[i - 1]

\* The recursion of a selection has a solution, for every length.
LEMMA SelectionExists ==
  ASSUME NEW s, NEW n \in Nat, NEW K
  PROVE  \E F : F = [i \in 0 .. n |-> SelectRule(s, K, F, i)]
  <1> DEFINE Upto(m) == \E F : F = [i \in 0 .. m |-> SelectRule(s, K, F, i)]
             Bad == {m \in Nat : ~ Upto(m)}
  <1>1. Upto(0)
    <2> DEFINE F == [i \in 0 .. 0 |-> <<>>]
    <2>1. F = [i \in 0 .. 0 |-> SelectRule(s, K, F, i)]
      BY DEF SelectRule
    <2>2. QED
      BY <2>1
  <1>2. ASSUME NEW m \in Nat, Upto(m)
        PROVE  Upto(m + 1)
    <2>1. PICK G : G = [i \in 0 .. m |-> SelectRule(s, K, G, i)]
      BY <1>2
    <2> DEFINE F == [i \in 0 .. m + 1 |-> SelectRule(s, K, G, i)]
    <2>2. \A i \in 0 .. m : F[i] = G[i]
      BY <2>1
    <2>3. \A i \in 0 .. m + 1 : i = 0 \/ i - 1 \in 0 .. m
      OBVIOUS
    <2> HIDE DEF F
    <2>4. \A i \in 0 .. m + 1 : SelectRule(s, K, F, i) = SelectRule(s, K, G, i)
      BY <2>2, <2>3 DEF SelectRule
    <2>5. F = [i \in 0 .. m + 1 |-> SelectRule(s, K, F, i)]
      BY <2>4 DEF F
    <2>6. QED
      BY <2>5
  <1>3. Bad = {}
    <2> SUFFICES ASSUME Bad # {} PROVE FALSE
      OBVIOUS
    <2>1. Bad \in SUBSET Nat
      OBVIOUS
    <2>2. PICK m \in Bad : m = 0 \/ m - 1 \notin Bad
      <3> HIDE DEF Bad
      <3> QED
        BY <2>1, LeastBad
    <2> HIDE DEF Upto
    <2>3. m # 0 /\ m \in Nat
      BY <1>1
    <2>4. m - 1 \in Nat /\ (m - 1) + 1 = m
      BY <2>3
    <2>5. QED
      BY <1>2, <2>2, <2>3, <2>4
  <1>4. QED
    BY <1>3

\* t has the entries of s at the positions in K.
Selects(F, s, K) ==
  /\ F[0] = <<>>
  /\ \A i \in 1 .. Len(s) : F[i] = IF i \in K THEN Append(F[i - 1], s[i]) ELSE F[i - 1]

IsSelection(t, s, K) == \E F : t = F[Len(s)] /\ Selects(F, s, K)

\* The function defined by the recursion is such a solution.
LEMMA RecursionRuns ==
  ASSUME NEW T, NEW s \in Seq(T), NEW K,
         NEW F, F = CHOOSE G : G = [i \in 0 .. Len(s) |-> SelectRule(s, K, G, i)]
  PROVE  IsSelection(F[Len(s)], s, K)
  <1> DEFINE n == Len(s)
  <1>1. n \in Nat
    BY LenProperties
  <1>2. F = [i \in 0 .. n |-> SelectRule(s, K, F, i)]
    <2> HIDE DEF n
    <2>1. \E G : G = [i \in 0 .. n |-> SelectRule(s, K, G, i)]
      BY <1>1, SelectionExists
    <2>2. QED
      BY <2>1 DEF n
  <1> HIDE DEF n
  <1>3. \A i \in 0 .. n : F[i] = SelectRule(s, K, F, i)
    BY <1>2
  <1>4. F[0] = <<>> /\ \A i \in 1 .. n : F[i] = IF i \in K THEN Append(F[i - 1], s[i]) ELSE F[i - 1]
    BY SMTT(30), <1>1, <1>3 DEF SelectRule
  <1>5. Selects(F, s, K)
    BY <1>4 DEF Selects, n
  <1>6. QED
    BY <1>5 DEF IsSelection

\* What is kept comes from where K says; nothing is lost when K is everything.
LEMMA SelectionEntries ==
  ASSUME NEW T, NEW s \in Seq(T), NEW K, NEW t, IsSelection(t, s, K)
  PROVE  /\ t \in Seq(T)
         /\ \A k \in DOMAIN t : \E p \in K \cap DOMAIN s : t[k] = s[p]
         /\ (DOMAIN s) \subseteq K => t = s
  <1>1. DOMAIN s = 1 .. Len(s) /\ Len(s) \in Nat /\ \A i \in 1 .. Len(s) : s[i] \in T
    BY LenProperties, ElementOfSeq
  <1> DEFINE n == Len(s)
  <1>2. PICK F : /\ t = F[n]
                 /\ F[0] = <<>>
                 /\ \A i \in 1 .. n : F[i] = IF i \in K THEN Append(F[i - 1], s[i]) ELSE F[i - 1]
    BY DEF IsSelection, Selects
  <1> DEFINE Good(i) == /\ F[i] \in Seq(T)
                        /\ \A k \in 1 .. Len(F[i]) : \E p \in K \cap (1 .. n) : F[i][k] = s[p]
                        /\ (1 .. n) \subseteq K => Len(F[i]) = i /\ \A k \in 1 .. i : F[i][k] = s[k]
             Bad == {i \in Nat : i <= n /\ ~ Good(i)}
  <1> HIDE DEF n
  <1>3. Good(0)
    <2>1. <<>> \in Seq(T) /\ Len(<<>>) = 0
      OBVIOUS
    <2>2. QED
      BY <1>2, <2>1
  <1>4. ASSUME NEW i \in 1 .. n, Good(i - 1)
        PROVE  Good(i)
    <2>1. CASE i \notin K
      <3>1. F[i] = F[i - 1] /\ ~ ((1 .. n) \subseteq K)
        BY <1>2, <2>1
      <3>2. QED
        BY <1>4, <3>1
    <2>2. CASE i \in K
      <3> DEFINE g == F[i - 1]
      <3>1. F[i] = Append(g, s[i]) /\ s[i] \in T /\ g \in Seq(T)
        BY <1>1, <1>2, <1>4, <2>2 DEF n
      <3> HIDE DEF g
      <3>2. /\ Append(g, s[i]) \in Seq(T)
            /\ Len(Append(g, s[i])) = Len(g) + 1
            /\ \A k \in 1 .. Len(g) : Append(g, s[i])[k] = g[k]
            /\ Append(g, s[i])[Len(g) + 1] = s[i]
            /\ Len(g) \in Nat
        BY <3>1, AppendProperties, LenProperties
      <3>3. i \in K \cap (1 .. n)
        BY <2>2
      <3>4. ASSUME NEW k \in 1 .. Len(F[i])
            PROVE  \E p \in K \cap (1 .. n) : F[i][k] = s[p]
        <4>1. k \in 1 .. Len(g) \/ k = Len(g) + 1
          BY <3>1, <3>2
        <4>2. CASE k \in 1 .. Len(g)
          BY <1>4, <3>1, <3>2, <4>2 DEF g
        <4>3. CASE k = Len(g) + 1
          BY <3>1, <3>2, <3>3, <4>3
        <4>4. QED
          BY <4>1, <4>2, <4>3
      <3>5. ASSUME (1 .. n) \subseteq K
            PROVE  Len(F[i]) = i /\ \A k \in 1 .. i : F[i][k] = s[k]
        <4>1. Len(g) = i - 1 /\ \A k \in 1 .. (i - 1) : g[k] = s[k]
          BY <1>4, <3>5 DEF g
        <4>2. \A k \in 1 .. i : k \in 1 .. (i - 1) \/ k = i
          BY <1>1 DEF n
        <4>3. QED
          BY <3>1, <3>2, <4>1, <4>2
      <3>6. QED
        BY <3>1, <3>2, <3>4, <3>5
    <2>3. QED
      BY <2>1, <2>2
  <1>5. Bad = {}
    <2> SUFFICES ASSUME Bad # {} PROVE FALSE
      OBVIOUS
    <2>1. Bad \in SUBSET Nat
      OBVIOUS
    <2>2. PICK m \in Bad : m = 0 \/ m - 1 \notin Bad
      <3> HIDE DEF Bad
      <3> QED
        BY <2>1, LeastBad
    <2> HIDE DEF Good
    <2>3. m # 0 /\ m \in Nat /\ m <= n /\ ~ Good(m)
      BY <1>3
    <2>4. m \in 1 .. n /\ m - 1 \in Nat /\ m - 1 <= n
      BY <1>1, <2>3 DEF n
    <2>5. Good(m - 1)
      BY <2>2, <2>3, <2>4
    <2>6. QED
      BY <1>4, <2>3, <2>4, <2>5
  <1>6. Good(n)
    BY <1>1, <1>5 DEF n
  <1>7. t \in Seq(T) /\ \A k \in 1 .. Len(t) : \E p \in K \cap (1 .. n) : t[k] = s[p]
    BY <1>2, <1>6
  <1>8. ASSUME (1 .. n) \subseteq K
        PROVE  t = s
    <2>1. Len(t) = n /\ \A k \in 1 .. n : t[k] = s[k]
      BY <1>2, <1>6, <1>8
    <2>2. QED
      BY <1>7, <2>1, SeqEqual DEF n
  <1>9. DOMAIN t = 1 .. Len(t)
    BY <1>7, LenProperties
  <1>10. QED
    BY <1>1, <1>7, <1>8, <1>9 DEF n

\* Where the entries that are kept come from: in their order, and all of K.
LEMMA SelectionPlaces ==
  ASSUME NEW T, NEW s \in Seq(T), NEW K, NEW t, IsSelection(t, s, K)
  PROVE  \E g : /\ \A k \in DOMAIN t : g[k] \in K \cap DOMAIN s /\ t[k] = s[g[k]]
                /\ \A k, l \in DOMAIN t : k < l => g[k] < g[l]
                /\ \A p \in K \cap DOMAIN s : \E k \in DOMAIN t : g[k] = p
  <1> DEFINE n == Len(s)
  <1>1. DOMAIN s = 1 .. n /\ n \in Nat /\ \A i \in 1 .. n : s[i] \in T
    BY LenProperties, ElementOfSeq
  <1>2. PICK F : /\ t = F[n]
                 /\ F[0] = <<>>
                 /\ \A i \in 1 .. n : F[i] = IF i \in K THEN Append(F[i - 1], s[i]) ELSE F[i - 1]
    BY DEF IsSelection, Selects
  <1> DEFINE Placed(i, g) ==
               /\ \A k \in 1 .. Len(F[i]) : g[k] \in K /\ g[k] \in 1 .. i /\ F[i][k] = s[g[k]]
               /\ \A k, l \in 1 .. Len(F[i]) : k < l => g[k] < g[l]
               /\ \A p \in 1 .. i : p \in K => \E k \in 1 .. Len(F[i]) : g[k] = p
             Good(i) == F[i] \in Seq(T) /\ \E g : Placed(i, g)
             Bad == {i \in Nat : i <= n /\ ~ Good(i)}
  <1> HIDE DEF n
  <1>3. Good(0)
    <2>1. <<>> \in Seq(T) /\ Len(<<>>) = 0
      OBVIOUS
    <2>2. Placed(0, <<>>)
      BY <1>2, <2>1
    <2>3. QED
      BY <1>2, <2>1, <2>2
  <1>4. ASSUME NEW i \in 1 .. n, Good(i - 1)
        PROVE  Good(i)
    <2>1. i \in Nat /\ \A p : p \in 1 .. i <=> p \in 1 .. (i - 1) \/ p = i
      BY <1>1
    <2>2. PICK g : Placed(i - 1, g)
      BY <1>4
    <2>3. CASE i \notin K
      <3>1. F[i] = F[i - 1]
        BY <1>2, <2>3
      <3>2. Placed(i, g)
        BY <2>1, <2>2, <2>3, <3>1
      <3>3. QED
        BY <1>4, <3>1, <3>2
    <2>4. CASE i \in K
      <3> DEFINE a == F[i - 1]
                 b == F[i]
                 m == Len(a)
                 h == [k \in 1 .. m + 1 |-> IF k = m + 1 THEN i ELSE g[k]]
      <3>1. b = Append(a, s[i]) /\ s[i] \in T /\ a \in Seq(T)
        BY <1>1, <1>2, <1>4, <2>4
      <3>2. /\ \A k \in 1 .. m : g[k] \in K /\ g[k] \in 1 .. (i - 1) /\ a[k] = s[g[k]]
            /\ \A k, l \in 1 .. m : k < l => g[k] < g[l]
            /\ \A p \in 1 .. (i - 1) : p \in K => \E k \in 1 .. m : g[k] = p
        BY <2>2
      <3> HIDE DEF a, b
      <3>3. /\ b \in Seq(T) /\ Len(b) = m + 1 /\ m \in Nat
            /\ \A k \in 1 .. m : b[k] = a[k]
            /\ b[m + 1] = s[i]
        BY <3>1, AppendProperties, LenProperties
      <3>4. h[m + 1] = i /\ \A k \in 1 .. m : h[k] = g[k]
        BY <3>3
      <3> HIDE DEF h, m
      <3>5. \A k : k \in 1 .. m + 1 <=> k \in 1 .. m \/ k = m + 1
        BY <3>3
      <3>6. \A k \in 1 .. m + 1 : h[k] \in K /\ h[k] \in 1 .. i /\ b[k] = s[h[k]]
        BY <2>1, <2>4, <3>2, <3>3, <3>4, <3>5
      <3>7. ASSUME NEW k \in 1 .. m + 1, NEW l \in 1 .. m + 1, k < l
            PROVE  h[k] < h[l]
        <4>1. k \in 1 .. m /\ h[k] = g[k]
          BY <3>3, <3>4, <3>7
        <4>2. CASE l \in 1 .. m
          BY <3>2, <3>4, <3>7, <4>1, <4>2
        <4>3. CASE l = m + 1
          <5>1. g[k] \in 1 .. (i - 1) /\ h[l] = i
            BY <3>2, <3>4, <4>1, <4>3
          <5>2. QED
            BY <2>1, <4>1, <5>1
        <4>4. QED
          BY <3>5, <4>2, <4>3
      <3>8. ASSUME NEW p \in 1 .. i, p \in K
            PROVE  \E k \in 1 .. m + 1 : h[k] = p
        BY <2>1, <3>2, <3>4, <3>5, <3>8
      <3>9. Placed(i, h)
        BY <3>3, <3>6, <3>7, <3>8 DEF b
      <3>10. QED
        BY <3>3, <3>9 DEF b
    <2>5. QED
      BY <2>3, <2>4
  <1>5. Bad = {}
    <2> SUFFICES ASSUME Bad # {} PROVE FALSE
      OBVIOUS
    <2>1. Bad \in SUBSET Nat
      OBVIOUS
    <2>2. PICK m \in Bad : m = 0 \/ m - 1 \notin Bad
      <3> HIDE DEF Bad
      <3> QED
        BY <2>1, LeastBad
    <2> HIDE DEF Good
    <2>3. m # 0 /\ m \in Nat /\ m <= n /\ ~ Good(m)
      BY <1>3
    <2>4. m \in 1 .. n /\ m - 1 \in Nat /\ m - 1 <= n
      BY <1>1, <2>3
    <2>5. Good(m - 1)
      BY <2>2, <2>3, <2>4
    <2>6. QED
      BY <1>4, <2>3, <2>4, <2>5
  <1>6. Good(n)
    <2>1. n \notin Bad
      BY <1>5
    <2> HIDE DEF Good
    <2>2. QED
      BY <1>1, <2>1
  <1>7. DOMAIN t = 1 .. Len(t)
    BY <1>2, <1>6, LenProperties
  <1>8. PICK g : Placed(n, g)
    BY <1>6
  <1>9. /\ \A k \in DOMAIN t : g[k] \in K \cap DOMAIN s /\ t[k] = s[g[k]]
        /\ \A k, l \in DOMAIN t : k < l => g[k] < g[l]
        /\ \A p \in K \cap DOMAIN s : \E k \in DOMAIN t : g[k] = p
    BY <1>1, <1>2, <1>7, <1>8
  <1>10. QED
    BY <1>9

\* ijw_upper_tri is the selection of the entries above (or on) the diagonal.
LEMMA UpperTriSelects ==
  ASSUME NEW T, NEW s \in Seq(T), NEW x
  PROVE  IsSelection(ijw_upper_tri(s, x), s,
                     {k \in DOMAIN s : s[k][1] < s[k][2] \/ (s[k][1] = s[k][2] /\ ~ x)})
  <1> DEFINE K == {k \in DOMAIN s : s[k][1] < s[k][2] \/ (s[k][1] = s[k][2] /\ ~ x)}
             F == CHOOSE G : G = [i \in 0 .. Len(s) |->
                    IF i = 0 THEN <<>>
                    ELSE IF s[i][1] < s[i][2] \/ (s[i][1] = s[i][2] /\ ~ x)
                         THEN Append(G[i - 1], s[i]) ELSE G[i - 1]]
  <1>1. ijw_upper_tri(s, x) = F[Len(s)]
    BY DEF ijw_upper_tri, Selected
  <1>2. \A i \in 0 .. Len(s) : i # 0 => (i \in K <=> s[i][1] < s[i][2] \/ (s[i][1] = s[i][2] /\ ~ x))
    BY LenProperties
  <1>3. F = CHOOSE G : G = [i \in 0 .. Len(s) |-> SelectRule(s, K, G, i)]
    <2> HIDE DEF K
    <2>1. \A G : [i \in 0 .. Len(s) |->
                    IF i = 0 THEN <<>>
                    ELSE IF s[i][1] < s[i][2] \/ (s[i][1] = s[i][2] /\ ~ x)
                         THEN Append(G[i - 1], s[i]) ELSE G[i - 1]]
                 = [i \in 0 .. Len(s) |-> SelectRule(s, K, G, i)]
      BY <1>2 DEF SelectRule
    <2>2. QED
      BY <2>1
  <1> HIDE DEF F, K
  <1>4. IsSelection(F[Len(s)], s, K)
    BY <1>3, RecursionRuns
  <1>5. QED
    BY <1>1, <1>4 DEF K

\* ijw_nnz is the selection of the entries that are not zero.
LEMMA NnzSelects ==
  ASSUME NEW T, NEW s \in Seq(T)
  PROVE  IsSelection(ijw_nnz(s), s, {k \in DOMAIN s : s[k][3] # 0})
  <1> DEFINE K == {k \in DOMAIN s : s[k][3] # 0}
             F == CHOOSE G : G = [i \in 0 .. Len(s) |->
                    IF i = 0 THEN <<>>
                    ELSE IF s[i][3] # 0 THEN Append(G[i - 1], s[i]) ELSE G[i - 1]]
  <1>1. ijw_nnz(s) = F[Len(s)]
    BY DEF ijw_nnz, Selected
  <1>2. \A i \in 0 .. Len(s) : i # 0 => (i \in K <=> s[i][3] # 0)
    BY LenProperties
  <1>3. F = CHOOSE G : G = [i \in 0 .. Len(s) |-> SelectRule(s, K, G, i)]
    <2> HIDE DEF K
    <2>1. \A G : [i \in 0 .. Len(s) |->
                    IF i = 0 THEN <<>>
                    ELSE IF s[i][3] # 0 THEN Append(G[i - 1], s[i]) ELSE G[i - 1]]
                 = [i \in 0 .. Len(s) |-> SelectRule(s, K, G, i)]
      BY <1>2 DEF SelectRule
    <2>2. QED
      BY <2>1
  <1> HIDE DEF F, K
  <1>4. IsSelection(F[Len(s)], s, K)
    BY <1>3, RecursionRuns
  <1>5. QED
    BY <1>1, <1>4 DEF K
-----------------------------------------------------------------------------
(****************************************************************************)
(* Adding up the entries of an edge list.                                    *)
(****************************************************************************)
Entry == Node \X Node \X Int

EntriesAt(s, p) == {k \in DOMAIN s : s[k][1] = p[1] /\ s[k][2] = p[2]}

\* The cell of a matrix made from a list is the sum of the entries for it.
LEMMA TotalFacts ==
  ASSUME NEW s \in Seq(Entry), NEW p
  PROVE  /\ Total(s, p) \in Int
         /\ ~ HasNegativeWeight(s) => Total(s, p) \in Nat
         /\ p = <<p[1], p[2]>> /\ p \notin Positions(s) => Total(s, p) = 0
         /\ IsFiniteSet(EntriesAt(s, p))
         /\ Total(s, p) = SumFunctionOnSet(Listed(s), EntriesAt(s, p))
  <1> DEFINE K == EntriesAt(s, p)
             g == Listed(s)
  <1>1. DOMAIN s = 1 .. Len(s) /\ Len(s) \in Nat /\ \A k \in DOMAIN s : s[k] \in Entry
    BY LenProperties, ElementOfSeq
  <1>2. Total(s, p) = SumFunctionOnSet(g, K)
    BY DEF Total, EntriesAt
  <1>3. K \in SUBSET DOMAIN s
    BY DEF EntriesAt
  <1>4. IsFiniteSet(K)
    <2>1. IsFiniteSet(1 .. Len(s))
      BY <1>1, FS_Interval
    <2>2. QED
      BY <1>1, <1>3, <2>1, FS_Subset
  <1>5. \A k \in K : g[k] = s[k][3] /\ g[k] \in Int
    BY <1>1, <1>3 DEF Listed, Entry
  <1>6. ASSUME ~ HasNegativeWeight(s)
        PROVE  SumFunctionOnSet(g, K) \in Nat
    <2>1. \A k \in K : g[k] \in Nat
      BY <1>3, <1>5, <1>6 DEF HasNegativeWeight
    <2> HIDE DEF g, K
    <2>2. QED
      BY <1>4, <2>1, SumNat
  <1>7. ASSUME p = <<p[1], p[2]>>, p \notin Positions(s)
        PROVE  SumFunctionOnSet(g, K) = 0
    <2>1. K = {}
      <3> SUFFICES ASSUME NEW k \in K PROVE FALSE
        OBVIOUS
      <3>1. k \in DOMAIN s /\ <<s[k][1], s[k][2]>> = p
        BY <1>7 DEF EntriesAt
      <3>2. s[k] \in ToSet(s)
        BY <3>1 DEF ToSet
      <3>3. QED
        BY <1>7, <3>1, <3>2 DEF Positions
    <2>2. QED
      BY <2>1, SumEmpty
  <1> HIDE DEF g, K
  <1>8. SumFunctionOnSet(g, K) \in Int
    BY <1>4, <1>5, SumType
  <1>9. QED
    BY <1>2, <1>4, <1>6, <1>7, <1>8 DEF g, K

\* Entries elsewhere do not count.
LEMMA TotalAppended ==
  ASSUME NEW s \in Seq(Entry), NEW t \in Seq(Entry), NEW p,
         \A k \in DOMAIN t : ~ (t[k][1] = p[1] /\ t[k][2] = p[2])
  PROVE  Total(s \o t, p) = Total(s, p)
  <1> DEFINE K == EntriesAt(s, p)
             L == EntriesAt(s \o t, p)
             g == Listed(s)
             h == Listed(s \o t)
  <1>1. /\ DOMAIN s = 1 .. Len(s) /\ Len(s) \in Nat
        /\ DOMAIN t = 1 .. Len(t) /\ Len(t) \in Nat
    BY LenProperties
  <1>2. /\ s \o t \in Seq(Entry)
        /\ DOMAIN (s \o t) = 1 .. Len(s) + Len(t)
        /\ \A k \in 1 .. Len(s) + Len(t) : (s \o t)[k] = IF k <= Len(s) THEN s[k] ELSE t[k - Len(s)]
    <2>1. s \o t \in Seq(Entry) /\ Len(s \o t) = Len(s) + Len(t)
      BY ConcatProperties
    <2>2. DOMAIN (s \o t) = 1 .. Len(s \o t)
      BY <2>1, LenProperties
    <2>3. QED
      BY <2>1, <2>2, ConcatProperties
  <1>3. L = K
    <2>1. ASSUME NEW k \in L
          PROVE  k \in K
      <3>1. k \in 1 .. Len(s) + Len(t) /\ (s \o t)[k][1] = p[1] /\ (s \o t)[k][2] = p[2]
        BY <1>2 DEF EntriesAt
      <3>2. CASE k <= Len(s)
        BY <1>1, <1>2, <3>1, <3>2 DEF EntriesAt
      <3>3. CASE ~ (k <= Len(s))
        <4>1. k - Len(s) \in DOMAIN t /\ (s \o t)[k] = t[k - Len(s)]
          BY <1>1, <1>2, <3>1, <3>3
        <4>2. QED
          BY <3>1, <4>1
      <3>4. QED
        BY <3>2, <3>3
    <2>2. ASSUME NEW k \in K
          PROVE  k \in L
      <3>1. k \in 1 .. Len(s) /\ s[k][1] = p[1] /\ s[k][2] = p[2]
        BY <1>1 DEF EntriesAt
      <3>2. k \in 1 .. Len(s) + Len(t) /\ (s \o t)[k] = s[k]
        BY <1>1, <1>2, <3>1
      <3>3. QED
        BY <1>2, <3>1, <3>2 DEF EntriesAt
    <2>3. QED
      BY <2>1, <2>2
  <1>4. \A k \in K : g[k] = h[k]
    <2> TAKE k \in K
    <2>1. k \in 1 .. Len(s)
      BY <1>1 DEF EntriesAt
    <2>2. k \in 1 .. Len(s) + Len(t) /\ (s \o t)[k] = s[k]
      BY <1>1, <1>2, <2>1
    <2>3. QED
      BY <1>1, <1>2, <2>1, <2>2 DEF Listed
  <1>5. IsFiniteSet(K) /\ Total(s, p) = SumFunctionOnSet(g, K)
    BY TotalFacts
  <1>6. Total(s \o t, p) = SumFunctionOnSet(h, L)
    BY <1>2, TotalFacts
  <1> HIDE DEF K, L, g, h
  <1>7. SumFunctionOnSet(g, K) = SumFunctionOnSet(h, K)
    BY <1>4, <1>5, SumSame
  <1>8. QED
    BY <1>3, <1>5, <1>6, <1>7

\* Making the matrix symmetric leaves the upper triangle as it was listed.
LEMMA SymmUpper ==
  ASSUME NEW s \in Seq(Entry)
  PROVE  LET t == ijw_add_upper_tri_transpose(s, TRUE)
         IN  /\ t \in Seq(Entry)
             /\ \A e \in Edge : Total(t, e) = Total(s, e)
  <1> DEFINE r == ijw_upper_tri(s, TRUE)
             q == ijw_transpose(r)
  <1>1. r \in Seq(Entry) /\ \A k \in DOMAIN r : r[k][1] < r[k][2]
    <2> DEFINE K == {k \in DOMAIN s : s[k][1] < s[k][2] \/ (s[k][1] = s[k][2] /\ ~ TRUE)}
    <2>1. IsSelection(r, s, K)
      BY UpperTriSelects
    <2>2. \A k \in K : s[k][1] < s[k][2]
      OBVIOUS
    <2> HIDE DEF K, r
    <2>3. r \in Seq(Entry) /\ \A k \in DOMAIN r : \E p \in K \cap DOMAIN s : r[k] = s[p]
      BY <2>1, SelectionEntries
    <2>4. QED
      BY <2>2, <2>3
  <1> HIDE DEF r
  <1>2. q \in Seq(Entry) /\ \A k \in DOMAIN q : q[k][1] > q[k][2]
    <2>1. DOMAIN r = 1 .. Len(r) /\ Len(r) \in Nat /\ \A k \in 1 .. Len(r) : r[k] \in Entry
      BY <1>1, LenProperties, ElementOfSeq
    <2>2. q = [k \in 1 .. Len(r) |-> <<r[k][2], r[k][1], r[k][3]>>]
      BY <2>1 DEF ijw_transpose
    <2>3. \A k \in 1 .. Len(r) : <<r[k][2], r[k][1], r[k][3]>> \in Entry
      BY <2>1 DEF Entry
    <2>4. \A k \in 1 .. Len(r) : r[k][1] < r[k][2] /\ r[k][1] \in Int /\ r[k][2] \in Int
      <3>1. \A d \in Entry : d[1] \in Int /\ d[2] \in Int
        BY NumNodeAssumption DEF Entry, Node
      <3>2. QED
        BY <1>1, <2>1, <3>1
    <2> HIDE DEF q
    <2>5. q \in Seq(Entry)
      BY <2>1, <2>2, <2>3, IsASeq
    <2>6. QED
      BY <2>2, <2>4, <2>5
  <1> HIDE DEF q
  <1>3. ijw_add_upper_tri_transpose(s, TRUE) = s \o q
    BY DEF ijw_add_upper_tri_transpose, q, r
  <1>4. s \o q \in Seq(Entry)
    BY <1>2, ConcatProperties
  <1>5. ASSUME NEW e \in Edge
        PROVE  Total(s \o q, e) = Total(s, e)
    <2>1. e[1] <= e[2] /\ e[1] \in Int /\ e[2] \in Int
      BY NumNodeAssumption DEF Edge, Node
    <2>2. DOMAIN q = 1 .. Len(q) /\ \A k \in 1 .. Len(q) : q[k] \in Entry
      BY <1>2, LenProperties, ElementOfSeq
    <2>3. \A k \in DOMAIN q : q[k][1] \in Int /\ q[k][2] \in Int
      BY <2>2, NumNodeAssumption DEF Entry, Node
    <2>4. \A k \in DOMAIN q : ~ (q[k][1] = e[1] /\ q[k][2] = e[2])
      BY <1>2, <2>1, <2>3
    <2>5. QED
      BY <1>2, <2>4, TotalAppended
  <1>6. QED
    BY <1>3, <1>4, <1>5

\* Row by row, column by column: the order in which a matrix is listed.
Cell == Node \X Node
RowOrder == {r \in Cell \X Cell : Before(r[1], r[2])}

\* It is a strict total order, so the cells can be counted off in it.
LEMMA RowOrderIsStrict ==
  ASSUME NEW E \in SUBSET Cell
  PROVE  /\ StrictOrder(RowOrder, E)
         /\ \A p \in E : {q \in E : Before(q, p)} = {q \in E : <<q, p>> \in RowOrder}
  <1>1. \A e \in E : e[1] \in Int /\ e[2] \in Int /\ e = <<e[1], e[2]>>
    BY NumNodeAssumption DEF Cell, Node
  <1>2. \A p, q \in E : <<p, q>> \in RowOrder <=> Before(p, q)
    BY DEF RowOrder
  <1>3. \A p \in E : ~ Before(p, p)
    BY <1>1 DEF Before
  <1>4. \A p, q \in E : p = q \/ Before(p, q) \/ Before(q, p)
    <2> TAKE p, q \in E
    <2>1. /\ p[1] \in Int /\ p[2] \in Int /\ p = <<p[1], p[2]>>
          /\ q[1] \in Int /\ q[2] \in Int /\ q = <<q[1], q[2]>>
      BY <1>1
    <2>2. CASE p[1] = q[1] /\ p[2] = q[2]
      BY <2>1, <2>2
    <2>3. CASE ~ (p[1] = q[1] /\ p[2] = q[2])
      BY <2>1, <2>3 DEF Before
    <2>4. QED
      BY <2>2, <2>3
  <1>5. \A p, q, r \in E : Before(p, q) /\ Before(q, r) => Before(p, r)
    BY <1>1 DEF Before
  <1>6. QED
    BY <1>2, <1>3, <1>4, <1>5 DEF StrictOrder

\* There are finitely many cells.
LEMMA CellsFinite == \A D \in SUBSET Cell : IsFiniteSet(D)
  BY NodeFinite, FS_Product, FS_Subset DEF Cell

\* svecvec_2_ijw lists every cell that is not zero once, in their order.
LEMMA MatrixListed ==
  ASSUME NEW D \in SUBSET Cell, NEW w \in [D -> Int]
  PROVE  LET s == svecvec_2_ijw(w)
         IN  /\ s \in Seq(Entry)
             /\ \A k \in DOMAIN s : /\ <<s[k][1], s[k][2]>> \in D
                                    /\ s[k][3] = w[<<s[k][1], s[k][2]>>] /\ s[k][3] # 0
             /\ \A e \in D : w[e] # 0 => \E k \in DOMAIN s : s[k][1] = e[1] /\ s[k][2] = e[2]
             /\ \A k, l \in DOMAIN s : k < l => Before(s[k], s[l])
  <1> DEFINE s == svecvec_2_ijw(w)
             S == {p \in DOMAIN w : w[p] # 0}
             n == Cardinality(S)
             Kth(k) == CHOOSE p \in S : Cardinality({q \in S : Before(q, p)}) = k - 1
  <1>1. S \in SUBSET D /\ S \in SUBSET Cell /\ \A p \in D : p \in S <=> w[p] # 0
    OBVIOUS
  <1>2. s = [k \in 1 .. n |-> <<Kth(k)[1], Kth(k)[2], w[Kth(k)]>>]
    BY DEF svecvec_2_ijw
  <1> HIDE DEF S
  <1>3. IsFiniteSet(S) /\ StrictOrder(RowOrder, S)
    BY <1>1, CellsFinite, RowOrderIsStrict
  <1>4. \A p \in S : Cardinality({q \in S : Before(q, p)}) = Rank(RowOrder, S, p)
    BY <1>1, RowOrderIsStrict DEF Rank
  <1>5. \A k : Kth(k) = KthIn(RowOrder, S, k)
    BY <1>4 DEF KthIn
  <1>6. /\ n \in Nat
        /\ \A k \in 1 .. n : KthIn(RowOrder, S, k) \in S
        /\ \A p \in S : \E k \in 1 .. n : KthIn(RowOrder, S, k) = p
        /\ \A k, l \in 1 .. n : k < l => <<KthIn(RowOrder, S, k), KthIn(RowOrder, S, l)>> \in RowOrder
    BY <1>3, CountOff
  <1> HIDE DEF Kth, n, s
  <1>7. /\ \A k \in 1 .. n : Kth(k) \in S
        /\ \A p \in S : \E k \in 1 .. n : Kth(k) = p
        /\ \A k, l \in 1 .. n : k < l => Before(Kth(k), Kth(l))
    BY <1>5, <1>6 DEF RowOrder
  <1>8. \A e \in S : e[1] \in Node /\ e[2] \in Node /\ e = <<e[1], e[2]>> /\ w[e] \in Int
    BY <1>1 DEF Cell
  <1>9. DOMAIN s = 1 .. n /\ \A k \in 1 .. n : s[k] = <<Kth(k)[1], Kth(k)[2], w[Kth(k)]>>
    BY <1>2
  <1>10. \A k \in 1 .. n : /\ s[k][1] = Kth(k)[1] /\ s[k][2] = Kth(k)[2] /\ s[k][3] = w[Kth(k)]
                           /\ <<s[k][1], s[k][2]>> = Kth(k)
    BY <1>7, <1>8, <1>9
  <1>11. s \in Seq(Entry)
    <2>1. \A k \in 1 .. n : <<Kth(k)[1], Kth(k)[2], w[Kth(k)]>> \in Entry
      BY <1>7, <1>8 DEF Entry
    <2>2. \A k \in 1 .. n : s[k] \in Entry
      BY <1>2, <2>1
    <2>3. QED
      BY <1>2, <1>6, <2>2, IsASeq
  <1>12. \A k \in DOMAIN s : /\ <<s[k][1], s[k][2]>> \in D
                             /\ s[k][3] = w[<<s[k][1], s[k][2]>>] /\ s[k][3] # 0
    BY <1>1, <1>7, <1>9, <1>10
  <1>13. \A e \in D : w[e] # 0 => \E k \in DOMAIN s : s[k][1] = e[1] /\ s[k][2] = e[2]
    BY <1>1, <1>7, <1>9, <1>10
  <1>14. \A k, l \in DOMAIN s : k < l => Before(s[k], s[l])
    BY <1>7, <1>9, <1>10 DEF Before
  <1>15. QED
    BY <1>11, <1>12, <1>13, <1>14 DEF s

\* A list without repetitions has the weight of its entry for every cell.
LEMMA TotalOfEntry ==
  ASSUME NEW s \in Seq(Entry), \A k, l \in DOMAIN s : k < l => Before(s[k], s[l])
  PROVE  /\ \A k \in DOMAIN s : Total(s, <<s[k][1], s[k][2]>>) = s[k][3]
         /\ \A e \in Cell : (\A k \in DOMAIN s : <<s[k][1], s[k][2]>> # e) => Total(s, e) = 0
  <1>1. \A k \in DOMAIN s : /\ s[k] \in Entry /\ k \in Int
                            /\ s[k][1] \in Int /\ s[k][2] \in Int /\ s[k][3] \in Int
    BY NumNodeAssumption DEF Entry, Node
  <1>2. ASSUME NEW k \in DOMAIN s
        PROVE  Total(s, <<s[k][1], s[k][2]>>) = s[k][3]
    <2> DEFINE e == <<s[k][1], s[k][2]>>
    <2>1. \A l \in DOMAIN s : s[l][1] = s[k][1] /\ s[l][2] = s[k][2] => l = k
      <3> SUFFICES ASSUME NEW l \in DOMAIN s, s[l][1] = s[k][1], s[l][2] = s[k][2], l # k
                   PROVE  FALSE
        OBVIOUS
      <3>1. k < l \/ l < k
        BY <1>1
      <3>2. Before(s[k], s[l]) \/ Before(s[l], s[k])
        BY <3>1
      <3>3. QED
        BY <1>1, <3>2 DEF Before
    <2>2. EntriesAt(s, e) = {k}
      BY <2>1 DEF EntriesAt
    <2>3. Total(s, e) = SumFunctionOnSet(Listed(s), EntriesAt(s, e))
      BY TotalFacts
    <2>4. Listed(s)[k] = s[k][3] /\ Listed(s)[k] \in Int
      BY <1>1 DEF Listed
    <2>5. QED
      BY <2>2, <2>3, <2>4, SumOne
  <1>3. ASSUME NEW e \in Cell, \A k \in DOMAIN s : <<s[k][1], s[k][2]>> # e
        PROVE  Total(s, e) = 0
    <2>1. e = <<e[1], e[2]>>
      BY DEF Cell
    <2>2. EntriesAt(s, e) = {}
      BY <1>3, <2>1 DEF EntriesAt
    <2>3. QED
      BY <2>2, TotalFacts, SumEmpty
  <1>4. QED
    BY <1>2, <1>3

\* svecvec_2_ijw lists every edge of a graph once, with its weight.
LEMMA ListOfGraph ==
  ASSUME NEW E \in SUBSET Edge, NEW w \in [E -> Int], \A e \in E : w[e] # 0
  PROVE  LET s == svecvec_2_ijw(w)
         IN  /\ s \in Seq(Entry)
             /\ \A e \in Edge : Total(s, e) = IF e \in E THEN w[e] ELSE 0
             /\ HasNegativeWeight(s) => \E e \in E : w[e] < 0
  <1> DEFINE s == svecvec_2_ijw(w)
  <1>1. E \in SUBSET Cell /\ Edge \subseteq Cell
    BY DEF Edge, Cell
  <1>2. /\ s \in Seq(Entry)
        /\ \A k \in DOMAIN s : <<s[k][1], s[k][2]>> \in E /\ s[k][3] = w[<<s[k][1], s[k][2]>>]
        /\ \A e \in E : \E k \in DOMAIN s : s[k][1] = e[1] /\ s[k][2] = e[2]
        /\ \A k, l \in DOMAIN s : k < l => Before(s[k], s[l])
    BY <1>1, MatrixListed
  <1> HIDE DEF s
  <1>3. /\ \A k \in DOMAIN s : Total(s, <<s[k][1], s[k][2]>>) = s[k][3]
        /\ \A e \in Cell : (\A k \in DOMAIN s : <<s[k][1], s[k][2]>> # e) => Total(s, e) = 0
    BY <1>2, TotalOfEntry
  <1>4. ASSUME NEW e \in E
        PROVE  Total(s, e) = w[e]
    <2>1. PICK k \in DOMAIN s : s[k][1] = e[1] /\ s[k][2] = e[2]
      BY <1>2
    <2>2. e = <<s[k][1], s[k][2]>>
      BY <1>1, <2>1 DEF Cell
    <2>3. QED
      BY <1>2, <1>3, <2>2
  <1>5. \A e \in Edge : e \notin E => Total(s, e) = 0
    BY <1>1, <1>2, <1>3
  <1>6. HasNegativeWeight(s) => \E e \in E : w[e] < 0
    BY <1>2 DEF HasNegativeWeight
  <1>7. QED
    BY <1>2, <1>4, <1>5, <1>6 DEF s

\* The edges of a set, listed once each: what svecvec_2_ijw makes of a matrix
\* of ones.
LEMMA EdgesListed ==
  ASSUME NEW B \in SUBSET Edge
  PROVE  LET s == svecvec_2_ijw([e \in B |-> 1])
             v == [k \in DOMAIN s |-> <<s[k][1], s[k][2]>>]
         IN  v \in Seq(Edge) /\ NoDuplicate(v) /\ ToSet(v) = B
  <1> DEFINE w == [e \in B |-> 1]
             s == svecvec_2_ijw(w)
             v == [k \in DOMAIN s |-> <<s[k][1], s[k][2]>>]
  <1>1. B \in SUBSET Cell /\ w \in [B -> Int] /\ \A e \in B : w[e] # 0
    BY DEF Edge, Cell
  <1>2. v = [k \in DOMAIN s |-> <<s[k][1], s[k][2]>>]
    OBVIOUS
  <1> HIDE DEF w
  <1>3. /\ s \in Seq(Entry)
        /\ \A k \in DOMAIN s : <<s[k][1], s[k][2]>> \in B
        /\ \A e \in B : \E k \in DOMAIN s : s[k][1] = e[1] /\ s[k][2] = e[2]
        /\ \A k, l \in DOMAIN s : k < l => Before(s[k], s[l])
    BY <1>1, MatrixListed
  <1> HIDE DEF s, v
  <1>4. DOMAIN v = DOMAIN s /\ \A k \in DOMAIN s : v[k] = <<s[k][1], s[k][2]>>
    BY <1>2
  <1>5. DOMAIN s = 1 .. Len(s) /\ Len(s) \in Nat
    BY <1>3, LenProperties
  <1>6. /\ \A k \in DOMAIN s : v[k] \in B
        /\ \A k \in DOMAIN s : v[k][1] = s[k][1] /\ v[k][2] = s[k][2]
        /\ \A e \in B : \E k \in DOMAIN s : v[k] = e
    <2>1. \A e \in B : e = <<e[1], e[2]>>
      BY <1>1 DEF Cell
    <2>2. \A k \in DOMAIN s : v[k] \in B
      BY <1>3, <1>4
    <2>3. \A k \in DOMAIN s : v[k][1] = s[k][1] /\ v[k][2] = s[k][2]
      BY <1>4
    <2>4. ASSUME NEW e \in B PROVE \E k \in DOMAIN s : v[k] = e
      <3>1. PICK k \in DOMAIN s : s[k][1] = e[1] /\ s[k][2] = e[2]
        BY <1>3
      <3>2. v[k] = <<e[1], e[2]>>
        BY <1>4, <3>1
      <3>3. QED
        BY <2>1, <3>2
    <2>5. QED
      BY <2>2, <2>3, <2>4
  <1>7. v \in Seq(Edge)
    <2>1. \A k \in 1 .. Len(s) : v[k] \in Edge
      BY <1>5, <1>6
    <2>2. v = [k \in 1 .. Len(s) |-> v[k]]
      BY <1>2, <1>5
    <2>3. QED
      BY <1>5, <2>1, <2>2, IsASeq
  <1>8. NoDuplicate(v)
    <2> SUFFICES ASSUME NEW k \in DOMAIN s, NEW l \in DOMAIN s, v[k] = v[l], k # l PROVE FALSE
      BY <1>4 DEF NoDuplicate
    <2>1. k \in Int /\ l \in Int
      BY <1>5
    <2>2. s[k][1] = s[l][1] /\ s[k][2] = s[l][2]
      BY <1>6
    <2>3. s[k][1] \in Int /\ s[k][2] \in Int
      BY SMTT(30), <1>3, NumNodeAssumption DEF Entry, Node
    <2>4. Before(s[k], s[l]) \/ Before(s[l], s[k])
      BY <1>3, <2>1
    <2>5. QED
      BY <2>2, <2>3, <2>4 DEF Before
  <1>9. ToSet(v) = B
    <2>1. ToSet(v) = {v[k] : k \in DOMAIN v}
      BY DEF ToSet
    <2>2. \A e : e \in ToSet(v) <=> \E k \in DOMAIN s : v[k] = e
      BY <1>4, <2>1
    <2>3. QED
      BY <1>6, <2>2
  <1>10. QED
    BY <1>7, <1>8, <1>9 DEF v, s, w
-----------------------------------------------------------------------------
(****************************************************************************)
(* The normal form: the upper triangle, in its order, no position twice.     *)
(****************************************************************************)
Sorted(s) == \A k, l \in DOMAIN s : k < l => Before(s[k], s[l])

\* No position is listed twice.
Single(s) == \A k, l \in DOMAIN s : s[k][1] = s[l][1] /\ s[k][2] = s[l][2] => k = l

\* The entries of a list.
LEMMA EntryFacts ==
  ASSUME NEW s \in Seq(Entry)
  PROVE  /\ DOMAIN s = 1 .. Len(s) /\ Len(s) \in Nat
         /\ \A k \in DOMAIN s : /\ k \in Nat /\ s[k] \in Entry
                                /\ s[k][1] \in Node /\ s[k][2] \in Node
                                /\ s[k][1] \in Int /\ s[k][2] \in Int /\ s[k][3] \in Int
                                /\ s[k] = <<s[k][1], s[k][2], s[k][3]>>
  <1>1. DOMAIN s = 1 .. Len(s) /\ Len(s) \in Nat /\ \A k \in DOMAIN s : s[k] \in Entry
    BY LenProperties, ElementOfSeq
  <1>2. \A d \in Entry : /\ d[1] \in Node /\ d[2] \in Node /\ d[3] \in Int
                         /\ d = <<d[1], d[2], d[3]>>
    BY DEF Entry
  <1>3. \A x \in Node : x \in Int
    BY NumNodeAssumption DEF Node
  <1>4. QED
    BY <1>1, <1>2, <1>3

\* A sorted list has no position twice.
LEMMA SortedIsSingle ==
  ASSUME NEW s \in Seq(Entry), Sorted(s)
  PROVE  Single(s)
  <1> SUFFICES ASSUME NEW k \in DOMAIN s, NEW l \in DOMAIN s,
                      s[k][1] = s[l][1], s[k][2] = s[l][2], k # l
               PROVE  FALSE
    BY DEF Single
  <1>1. /\ k \in Nat /\ l \in Nat /\ s[k][1] \in Int /\ s[k][2] \in Int
    BY EntryFacts
  <1>2. Before(s[k], s[l]) \/ Before(s[l], s[k])
    BY <1>1 DEF Sorted
  <1>3. QED
    BY <1>1, <1>2 DEF Before

\* Then the weight of a position is that of its only entry.
LEMMA TotalOfSingle ==
  ASSUME NEW s \in Seq(Entry), Single(s), NEW k \in DOMAIN s
  PROVE  Total(s, <<s[k][1], s[k][2]>>) = s[k][3]
  <1> DEFINE e == <<s[k][1], s[k][2]>>
  <1>1. EntriesAt(s, e) = {k}
    BY DEF EntriesAt, Single
  <1>2. Total(s, e) = SumFunctionOnSet(Listed(s), EntriesAt(s, e))
    BY TotalFacts
  <1>3. Listed(s)[k] = s[k][3] /\ Listed(s)[k] \in Int
    BY EntryFacts DEF Listed
  <1>4. QED
    BY <1>1, <1>2, <1>3, SumOne

\* A selection of a sorted list is sorted, and has all that K keeps.
LEMMA SelectionSorted ==
  ASSUME NEW s \in Seq(Entry), Sorted(s), NEW K, NEW t, IsSelection(t, s, K)
  PROVE  Sorted(t) /\ \A p \in K \cap DOMAIN s : \E k \in DOMAIN t : t[k] = s[p]
  <1>1. PICK g : /\ \A k \in DOMAIN t : g[k] \in K \cap DOMAIN s /\ t[k] = s[g[k]]
                 /\ \A k, l \in DOMAIN t : k < l => g[k] < g[l]
                 /\ \A p \in K \cap DOMAIN s : \E k \in DOMAIN t : g[k] = p
    BY SelectionPlaces
  <1>2. QED
    BY <1>1 DEF Sorted

\* Sorted lists of the same entries are equal.
LEMMA SortedUnique ==
  ASSUME NEW s \in Seq(Entry), NEW t \in Seq(Entry), Sorted(s), Sorted(t), ToSet(s) = ToSet(t)
  PROVE  s = t
  <1>1. /\ DOMAIN s = 1 .. Len(s) /\ Len(s) \in Nat /\ DOMAIN t = 1 .. Len(t) /\ Len(t) \in Nat
        /\ \A k \in DOMAIN s : s[k][1] \in Int /\ s[k][2] \in Int
        /\ \A k \in DOMAIN t : t[k][1] \in Int /\ t[k][2] \in Int
    BY EntryFacts
  <1>2. /\ \A k \in DOMAIN s : \E l \in DOMAIN t : s[k] = t[l]
        /\ \A k \in DOMAIN t : \E l \in DOMAIN s : t[k] = s[l]
    <2>1. ToSet(s) = {s[k] : k \in DOMAIN s} /\ ToSet(t) = {t[k] : k \in DOMAIN t}
      BY DEF ToSet
    <2>2. QED
      BY <2>1
  <1>3. \A k, l \in DOMAIN s : s[k] = s[l] => k = l
    BY SortedIsSingle DEF Single
  <1>4. \A k, l \in DOMAIN t : t[k] = t[l] => k = l
    BY SortedIsSingle DEF Single
  <1> DEFINE Same(k) == k \in DOMAIN s /\ k \in DOMAIN t /\ s[k] = t[k]
             Bad == {k \in Nat : (k \in DOMAIN s \/ k \in DOMAIN t) /\ ~ Same(k)}
  <1>5. Bad = {}
    <2> SUFFICES ASSUME Bad # {} PROVE FALSE
      OBVIOUS
    <2>1. PICK m \in Bad : \A k \in 1 .. (m - 1) : k \notin Bad
      <3> DEFINE Upto == {m \in Nat : \E k \in Bad : k <= m}
      <3>1. Upto \in SUBSET Nat /\ Upto # {} /\ \A k \in Bad : k \in Upto /\ k \in Nat
        OBVIOUS
      <3>2. PICK m \in Upto : m = 0 \/ m - 1 \notin Upto
        <4> HIDE DEF Upto, Bad
        <4> QED
          BY <3>1, LeastBad
      <3> HIDE DEF Bad
      <3>3. PICK k \in Bad : k <= m /\ m \in Nat /\ k \in Nat
        BY <3>1, <3>2
      <3>4. ASSUME NEW j \in 1 .. (k - 1), j \in Bad
            PROVE  FALSE
        <4>1. j \in Nat /\ j <= m - 1 /\ m - 1 \in Nat /\ m # 0
          BY <3>1, <3>3
        <4>2. m - 1 \in Upto
          BY <3>4, <4>1
        <4>3. QED
          BY <3>2, <4>1, <4>2
      <3>5. QED
        BY <3>3, <3>4
    <2>2. /\ m \in Nat /\ m >= 1 /\ ~ Same(m) /\ (m \in DOMAIN s \/ m \in DOMAIN t)
      BY <1>1
    <2>3. \A k \in 1 .. (m - 1) : k \in Nat /\ Same(k)
      <3> TAKE k \in 1 .. (m - 1)
      <3>1. k \in DOMAIN s \/ k \in DOMAIN t
        BY <1>1, <2>2
      <3>2. QED
        BY <2>1, <2>2, <3>1
    <2> HIDE DEF Bad
    <2>4. ASSUME m \in DOMAIN s
          PROVE  \E l \in DOMAIN t : s[m] = t[l] /\ l > m
      <3>1. PICK l \in DOMAIN t : s[m] = t[l]
        BY <1>2, <2>4
      <3>2. l # m
        BY <2>2, <2>4, <3>1
      <3>3. ~ (l < m)
        <4> SUFFICES ASSUME l < m PROVE FALSE
          OBVIOUS
        <4>1. l \in 1 .. (m - 1)
          BY <1>1, <2>2
        <4>2. s[l] = t[l] /\ l \in DOMAIN s
          BY <2>3, <4>1
        <4>3. QED
          BY <1>3, <2>4, <3>1, <3>2, <4>2
      <3>4. QED
        BY <1>1, <2>2, <3>1, <3>2, <3>3
    <2>5. ASSUME m \in DOMAIN t
          PROVE  \E l \in DOMAIN s : t[m] = s[l] /\ l > m
      <3>1. PICK l \in DOMAIN s : t[m] = s[l]
        BY <1>2, <2>5
      <3>2. l # m
        BY <2>2, <2>5, <3>1
      <3>3. ~ (l < m)
        <4> SUFFICES ASSUME l < m PROVE FALSE
          OBVIOUS
        <4>1. l \in 1 .. (m - 1)
          BY <1>1, <2>2
        <4>2. s[l] = t[l] /\ l \in DOMAIN t
          BY <2>3, <4>1
        <4>3. QED
          BY <1>4, <2>5, <3>1, <3>2, <4>2
      <3>4. QED
        BY <1>1, <2>2, <3>1, <3>2, <3>3
    <2>6. m \in DOMAIN s /\ m \in DOMAIN t
      <3>1. m \in DOMAIN s => \E l \in DOMAIN t : l > m
        BY <2>4
      <3>2. m \in DOMAIN t => \E l \in DOMAIN s : l > m
        BY <2>5
      <3>3. QED
        BY <1>1, <2>2, <3>1, <3>2
    <2>7. PICK a \in DOMAIN t : s[m] = t[a] /\ a > m
      BY <2>4, <2>6
    <2>8. PICK b \in DOMAIN s : t[m] = s[b] /\ b > m
      BY <2>5, <2>6
    <2>9. Before(t[m], s[m]) /\ Before(s[m], t[m])
      <3>1. Before(t[m], t[a]) /\ Before(s[m], s[b])
        BY <2>2, <2>6, <2>7, <2>8, <1>1 DEF Sorted
      <3>2. QED
        BY <2>7, <2>8, <3>1
    <2>10. QED
      BY <1>1, <2>6, <2>9 DEF Before
  <1>6. Len(s) = Len(t)
    <2> DEFINE ls == Len(s)
               lt == Len(t)
    <2>1. ls \in Nat /\ lt \in Nat /\ \A k \in Nat : k \in 1 .. ls <=> k \in 1 .. lt
      BY <1>1, <1>5
    <2> HIDE DEF ls, lt
    <2>2. ls <= lt
      BY <2>1
    <2>3. lt <= ls
      BY <2>1
    <2>4. ls = lt
      BY <2>1, <2>2, <2>3
    <2>5. QED
      BY <2>4 DEF ls, lt
  <1>7. \A k \in 1 .. Len(s) : s[k] = t[k]
    BY <1>1, <1>5
  <1>8. QED
    BY <1>6, <1>7, SeqEqual

\* The matrix of a list stores the listed positions, with their weights.
LEMMA MatrixOfList ==
  ASSUME NEW s \in Seq(Entry)
  PROVE  /\ Positions(s) \in SUBSET Cell
         /\ ijw_2_svecvec(s) \in [Positions(s) -> Int]
         /\ \A p : p \in Positions(s) <=> \E k \in DOMAIN s : p = <<s[k][1], s[k][2]>>
         /\ \A p \in Positions(s) : ijw_2_svecvec(s)[p] = Total(s, p)
  <1>1. \A p : p \in Positions(s) <=> \E k \in DOMAIN s : p = <<s[k][1], s[k][2]>>
    BY DEF Positions, ToSet
  <1>2. Positions(s) \in SUBSET Cell
    BY <1>1, EntryFacts DEF Cell
  <1>3. \A p : Total(s, p) \in Int
    BY TotalFacts
  <1>4. QED
    BY <1>1, <1>2, <1>3 DEF ijw_2_svecvec

\* A list in normal form: sorted, above the diagonal or on it, without zeros.
InNormalForm(s) ==
  /\ s \in Seq(Entry)
  /\ Sorted(s)
  /\ \A k \in DOMAIN s : s[k][1] <= s[k][2] /\ s[k][3] # 0

\* What the upper triangle of a listed matrix holds.
LEMMA UpperOfMatrix ==
  ASSUME NEW D \in SUBSET Cell, NEW w \in [D -> Int]
  PROVE  LET t == ijw_upper_tri(svecvec_2_ijw(w), FALSE)
         IN  /\ InNormalForm(t)
             /\ \A k \in DOMAIN t : <<t[k][1], t[k][2]>> \in D /\ t[k][3] = w[<<t[k][1], t[k][2]>>]
             /\ \A e \in D : w[e] # 0 /\ e[1] <= e[2] => \E k \in DOMAIN t : t[k] = <<e[1], e[2], w[e]>>
  <1> DEFINE s == svecvec_2_ijw(w)
             t == ijw_upper_tri(s, FALSE)
             K == {k \in DOMAIN s : s[k][1] < s[k][2] \/ (s[k][1] = s[k][2] /\ ~ FALSE)}
  <1>1. /\ s \in Seq(Entry)
        /\ \A k \in DOMAIN s : /\ <<s[k][1], s[k][2]>> \in D
                               /\ s[k][3] = w[<<s[k][1], s[k][2]>>] /\ s[k][3] # 0
        /\ \A e \in D : w[e] # 0 => \E k \in DOMAIN s : s[k][1] = e[1] /\ s[k][2] = e[2]
        /\ Sorted(s)
    BY MatrixListed DEF Sorted
  <1> HIDE DEF s
  <1>2. IsSelection(t, s, K)
    BY <1>1, UpperTriSelects
  <1>3. \A k \in DOMAIN s : /\ s[k][1] \in Int /\ s[k][2] \in Int
                            /\ s[k] = <<s[k][1], s[k][2], s[k][3]>>
    BY <1>1, EntryFacts
  <1>4. \A k : k \in K <=> k \in DOMAIN s /\ s[k][1] <= s[k][2]
    BY <1>3
  <1> HIDE DEF t, K
  <1>5. /\ t \in Seq(Entry)
        /\ \A k \in DOMAIN t : \E p \in K \cap DOMAIN s : t[k] = s[p]
    BY <1>1, <1>2, SelectionEntries
  <1>6. Sorted(t) /\ \A p \in K \cap DOMAIN s : \E k \in DOMAIN t : t[k] = s[p]
    BY <1>1, <1>2, SelectionSorted
  <1>7. InNormalForm(t)
    <2>1. ASSUME NEW k \in DOMAIN t
          PROVE  t[k][1] <= t[k][2] /\ t[k][3] # 0
      <3>1. PICK p \in K \cap DOMAIN s : t[k] = s[p]
        BY <1>5
      <3>2. s[p][1] <= s[p][2] /\ s[p][3] # 0
        BY <1>1, <1>4
      <3>3. QED
        BY <3>1, <3>2
    <2>2. QED
      BY <1>5, <1>6, <2>1 DEF InNormalForm
  <1>8. \A k \in DOMAIN t : <<t[k][1], t[k][2]>> \in D /\ t[k][3] = w[<<t[k][1], t[k][2]>>]
    BY <1>1, <1>5
  <1>9. ASSUME NEW e \in D, w[e] # 0, e[1] <= e[2]
        PROVE  \E k \in DOMAIN t : t[k] = <<e[1], e[2], w[e]>>
    <2>1. PICK p \in DOMAIN s : s[p][1] = e[1] /\ s[p][2] = e[2]
      BY <1>1, <1>9
    <2>2. e = <<e[1], e[2]>>
      BY DEF Cell
    <2>3. s[p] = <<e[1], e[2], w[e]>>
      BY <1>1, <1>3, <2>1, <2>2
    <2>4. p \in K \cap DOMAIN s
      BY <1>4, <1>9, <2>1
    <2>5. QED
      BY <1>6, <2>3, <2>4
  <1>10. QED
    BY <1>7, <1>8, <1>9 DEF s, t

\* Normalising brings a list into normal form.
LEMMA NormalisedForm ==
  ASSUME NEW s \in Seq(Entry)
  PROVE  InNormalForm(ijw_upper_tri(svecvec_2_ijw(ijw_2_svecvec_symm(s)), FALSE))
  <1> DEFINE t == ijw_add_upper_tri_transpose(s, TRUE)
  <1>1. t \in Seq(Entry)
    BY SymmUpper
  <1>2. ijw_2_svecvec_symm(s) = ijw_2_svecvec(t)
    BY DEF ijw_2_svecvec_symm
  <1> HIDE DEF t
  <1>3. Positions(t) \in SUBSET Cell /\ ijw_2_svecvec(t) \in [Positions(t) -> Int]
    BY <1>1, MatrixOfList
  <1>4. QED
    BY <1>2, <1>3, UpperOfMatrix

\* The places of two lists one after the other.
LEMMA Joined ==
  ASSUME NEW T, NEW s \in Seq(T), NEW t \in Seq(T)
  PROVE  LET b == s \o t
         IN  /\ b \in Seq(T)
             /\ \A k \in DOMAIN s : k \in DOMAIN b /\ b[k] = s[k]
             /\ \A k \in DOMAIN t : Len(s) + k \in DOMAIN b /\ b[Len(s) + k] = t[k]
             /\ \A q \in DOMAIN b : q \in DOMAIN s \/ \E k \in DOMAIN t : q = Len(s) + k
  <1> DEFINE b == s \o t
             n == Len(s)
             l == Len(t)
  <1>1. DOMAIN s = 1 .. n /\ n \in Nat /\ DOMAIN t = 1 .. l /\ l \in Nat
    BY LenProperties
  <1>2. /\ b \in Seq(T) /\ Len(b) = n + l
        /\ \A i \in 1 .. n + l : b[i] = IF i <= n THEN s[i] ELSE t[i - n]
    BY ConcatProperties
  <1> HIDE DEF n, l, b
  <1>3. DOMAIN b = 1 .. n + l
    BY <1>2, LenProperties
  <1>4. \A k \in DOMAIN s : k \in DOMAIN b /\ b[k] = s[k]
    BY <1>1, <1>2, <1>3
  <1>5. ASSUME NEW k \in DOMAIN t
        PROVE  n + k \in DOMAIN b /\ b[n + k] = t[k]
    <2> DEFINE i == n + k
    <2>1. i \in 1 .. n + l /\ ~ (i <= n) /\ i - n = k
      BY <1>1
    <2> HIDE DEF i
    <2>2. i \in DOMAIN b /\ b[i] = t[k]
      BY <1>2, <1>3, <2>1
    <2>3. QED
      BY <2>2 DEF i
  <1>6. ASSUME NEW q \in DOMAIN b, q \notin DOMAIN s
        PROVE  \E k \in DOMAIN t : q = n + k
    <2>1. q - n \in DOMAIN t /\ q = n + (q - n)
      BY <1>1, <1>3, <1>6
    <2>2. QED
      BY <2>1
  <1>7. QED
    BY <1>2, <1>4, <1>5, <1>6 DEF b, n

\* Every position once, above the diagonal or on it.
IsUpper(s) ==
  /\ s \in Seq(Entry)
  /\ Single(s)
  /\ \A k \in DOMAIN s : s[k][1] <= s[k][2]

LEMMA NormalFormIsUpper ==
  ASSUME NEW t, InNormalForm(t)
  PROVE  IsUpper(t)
  BY SortedIsSingle DEF InNormalForm, IsUpper

\* A selection of a list has no position twice when the list has none.
LEMMA SelectionSingle ==
  ASSUME NEW T, NEW s \in Seq(T), Single(s), NEW K, NEW t, IsSelection(t, s, K)
  PROVE  Single(t) /\ \A p \in K \cap DOMAIN s : \E k \in DOMAIN t : t[k] = s[p]
  <1>1. PICK g : /\ \A k \in DOMAIN t : g[k] \in K \cap DOMAIN s /\ t[k] = s[g[k]]
                 /\ \A k, l \in DOMAIN t : k < l => g[k] < g[l]
                 /\ \A p \in K \cap DOMAIN s : \E k \in DOMAIN t : g[k] = p
    BY SelectionPlaces
  <1>2. DOMAIN s = 1 .. Len(s) /\ DOMAIN t = 1 .. Len(t) /\ Len(t) \in Nat
    <2>1. t \in Seq(T)
      BY SelectionEntries
    <2>2. QED
      BY <2>1, LenProperties
  <1>3. ASSUME NEW k \in DOMAIN t, NEW l \in DOMAIN t, t[k][1] = t[l][1], t[k][2] = t[l][2]
        PROVE  k = l
    <2>1. g[k] = g[l]
      BY <1>1, <1>3 DEF Single
    <2>2. k \in Int /\ l \in Int /\ g[k] \in Int /\ g[l] \in Int
      BY <1>1, <1>2
    <2>3. ~ (k < l) /\ ~ (l < k)
      BY <1>1, <2>1, <2>2
    <2>4. QED
      BY <2>2, <2>3
  <1>4. QED
    BY <1>1, <1>3 DEF Single

\* The two triangles of such a list list no position twice.
LEMMA BothTriangles ==
  ASSUME NEW t, IsUpper(t)
  PROVE  LET b == ijw_add_upper_tri_transpose(t, TRUE)
         IN  /\ b \in Seq(Entry) /\ Single(b)
             /\ \A q \in DOMAIN b : \E k \in DOMAIN t :
                  b[q] = t[k] \/ b[q] = <<t[k][2], t[k][1], t[k][3]>>
             /\ \A k \in DOMAIN t :
                  /\ \E q \in DOMAIN b : b[q] = t[k]
                  /\ \E q \in DOMAIN b : b[q] = <<t[k][2], t[k][1], t[k][3]>>
  <1> DEFINE r == ijw_upper_tri(t, TRUE)
             u == ijw_transpose(r)
             b == ijw_add_upper_tri_transpose(t, TRUE)
             K == {k \in DOMAIN t : t[k][1] < t[k][2] \/ (t[k][1] = t[k][2] /\ ~ TRUE)}
  <1>1. /\ t \in Seq(Entry) /\ Single(t)
        /\ \A k \in DOMAIN t : t[k][1] <= t[k][2]
    BY DEF IsUpper
  <1>2. IsSelection(r, t, K)
    BY <1>1, UpperTriSelects
  <1>3. \A k : k \in K <=> k \in DOMAIN t /\ t[k][1] < t[k][2]
    OBVIOUS
  <1>4. b = t \o u
    BY DEF ijw_add_upper_tri_transpose
  <1> HIDE DEF K, r, b
  <1>5. /\ r \in Seq(Entry) /\ Single(r)
        /\ \A k \in DOMAIN r : \E p \in K \cap DOMAIN t : r[k] = t[p]
        /\ \A p \in K \cap DOMAIN t : \E k \in DOMAIN r : r[k] = t[p]
    BY <1>1, <1>2, SelectionEntries, SelectionSingle
  <1>6. /\ DOMAIN t = 1 .. Len(t) /\ Len(t) \in Nat
        /\ DOMAIN r = 1 .. Len(r) /\ Len(r) \in Nat
        /\ \A k \in DOMAIN t : /\ t[k] \in Entry /\ t[k][1] \in Int /\ t[k][2] \in Int
                               /\ t[k] = <<t[k][1], t[k][2], t[k][3]>>
        /\ \A k \in DOMAIN r : r[k] \in Entry /\ r[k][1] \in Int /\ r[k][2] \in Int
    BY <1>1, <1>5, EntryFacts
  <1>7. \A k \in DOMAIN r : r[k][1] < r[k][2]
    BY <1>3, <1>5
  <1>8. /\ u \in Seq(Entry) /\ Len(u) = Len(r) /\ DOMAIN u = 1 .. Len(r)
        /\ \A k \in DOMAIN r : u[k] = <<r[k][2], r[k][1], r[k][3]>>
    <2>1. u = [k \in 1 .. Len(r) |-> <<r[k][2], r[k][1], r[k][3]>>]
      BY <1>6 DEF ijw_transpose
    <2>2. \A k \in 1 .. Len(r) : <<r[k][2], r[k][1], r[k][3]>> \in Entry
      BY <1>6 DEF Entry
    <2> HIDE DEF u
    <2>3. u \in Seq(Entry) /\ Len(u) = Len(r)
      BY <1>6, <2>1, <2>2, IsASeq, LenProperties
    <2>4. QED
      BY <1>6, <2>1, <2>3
  <1> HIDE DEF u
  <1> DEFINE n == Len(t)
  <1>9. /\ b \in Seq(Entry) /\ n \in Nat
        /\ \A k \in DOMAIN t : k \in DOMAIN b /\ b[k] = t[k]
        /\ \A k \in DOMAIN u : n + k \in DOMAIN b /\ b[n + k] = u[k]
        /\ \A q \in DOMAIN b : q \in DOMAIN t \/ \E k \in DOMAIN u : q = n + k
    <2>1. /\ t \o u \in Seq(Entry)
          /\ \A k \in DOMAIN t : k \in DOMAIN (t \o u) /\ (t \o u)[k] = t[k]
          /\ \A k \in DOMAIN u : n + k \in DOMAIN (t \o u) /\ (t \o u)[n + k] = u[k]
          /\ \A q \in DOMAIN (t \o u) : q \in DOMAIN t \/ \E k \in DOMAIN u : q = n + k
      BY Zenon, <1>1, <1>8, Joined
    <2>2. n \in Nat
      BY <1>6
    <2>3. QED
      BY Zenon, <1>4, <2>1, <2>2
  <1> HIDE DEF n
  <1>10. /\ \A k \in DOMAIN r : /\ n + k \in DOMAIN b
                                  /\ b[n + k] = <<r[k][2], r[k][1], r[k][3]>>
         /\ \A q \in DOMAIN b : q \in DOMAIN t \/ \E k \in DOMAIN r : q = n + k
    BY <1>6, <1>8, <1>9
  <1>11. /\ \A k \in DOMAIN t : b[k][1] = t[k][1] /\ b[k][2] = t[k][2]
         /\ \A k \in DOMAIN r : b[n + k][1] = r[k][2] /\ b[n + k][2] = r[k][1]
    BY <1>9, <1>10
  <1>12. Single(b)
    <2> SUFFICES ASSUME NEW p \in DOMAIN b, NEW q \in DOMAIN b,
                        b[p][1] = b[q][1], b[p][2] = b[q][2]
                 PROVE  p = q
      BY DEF Single
    <2>1. CASE p \in DOMAIN t /\ q \in DOMAIN t
      <3>1. t[p][1] = t[q][1] /\ t[p][2] = t[q][2]
        BY <1>11, <2>1
      <3>2. QED
        BY <1>1, <2>1, <3>1 DEF Single
    <2>2. ASSUME NEW k \in DOMAIN t, NEW i \in DOMAIN r,
                 b[k][1] = b[n + i][1], b[k][2] = b[n + i][2]
          PROVE  FALSE
      <3>1. t[k][1] = r[i][2] /\ t[k][2] = r[i][1]
        BY <1>11, <2>2
      <3>2. t[k][1] <= t[k][2] /\ r[i][1] < r[i][2] /\ r[i][1] \in Int /\ r[i][2] \in Int
        BY <1>1, <1>6, <1>7
      <3>3. QED
        BY <3>1, <3>2
    <2>3. CASE \E i, j \in DOMAIN r : p = n + i /\ q = n + j
      <3>1. PICK i \in DOMAIN r, j \in DOMAIN r : p = n + i /\ q = n + j
        BY <2>3
      <3>2. r[i][1] = r[j][1] /\ r[i][2] = r[j][2]
        BY <1>11, <3>1
      <3>3. i = j
        BY <1>5, <3>2 DEF Single
      <3>4. QED
        BY <3>1, <3>3
    <2>4. QED
      BY <1>10, <2>1, <2>2, <2>3
  <1>13. ASSUME NEW q \in DOMAIN b
         PROVE  \E k \in DOMAIN t : b[q] = t[k] \/ b[q] = <<t[k][2], t[k][1], t[k][3]>>
    <2>1. CASE q \in DOMAIN t
      BY <1>9, <2>1
    <2>2. CASE \E i \in DOMAIN r : q = n + i
      <3>1. PICK i \in DOMAIN r : q = n + i
        BY <2>2
      <3>2. PICK k \in DOMAIN t : r[i] = t[k]
        BY <1>5
      <3>3. QED
        BY <1>10, <3>1, <3>2
    <2>3. QED
      BY <1>10, <2>1, <2>2
  <1>14. ASSUME NEW k \in DOMAIN t
         PROVE  /\ \E q \in DOMAIN b : b[q] = t[k]
                /\ \E q \in DOMAIN b : b[q] = <<t[k][2], t[k][1], t[k][3]>>
    <2>1. \E q \in DOMAIN b : b[q] = t[k]
      BY <1>9
    <2>2. CASE t[k][1] = t[k][2]
      <3>1. t[k] = <<t[k][2], t[k][1], t[k][3]>>
        BY <1>6, <2>2
      <3>2. QED
        BY <2>1, <3>1
    <2>3. CASE t[k][1] < t[k][2]
      <3>1. PICK i \in DOMAIN r : r[i] = t[k]
        BY <1>3, <1>5, <2>3
      <3>2. n + i \in DOMAIN b /\ b[n + i] = <<t[k][2], t[k][1], t[k][3]>>
        BY <1>10, <3>1
      <3>3. QED
        BY <2>1, <3>2
    <2>4. t[k][1] = t[k][2] \/ t[k][1] < t[k][2]
      BY <1>1, <1>6
    <2>5. QED
      BY <2>2, <2>3, <2>4
  <1>15. QED
    BY <1>9, <1>12, <1>13, <1>14 DEF b

\* So normalising it again changes nothing, and its matrix is symmetric.
LEMMA NormalFormStays ==
  ASSUME NEW t, InNormalForm(t)
  PROVE  LET m == ijw_2_svecvec_symm(t)
         IN  /\ ijw_upper_tri(svecvec_2_ijw(m), FALSE) = t
             /\ \A p \in DOMAIN m : At(m, <<p[2], p[1]>>) = m[p]
  <1> DEFINE b == ijw_add_upper_tri_transpose(t, TRUE)
             m == ijw_2_svecvec_symm(t)
             z == ijw_upper_tri(svecvec_2_ijw(m), FALSE)
             D == Positions(b)
  <1>1. /\ b \in Seq(Entry) /\ Single(b)
        /\ \A q \in DOMAIN b : \E k \in DOMAIN t :
             b[q] = t[k] \/ b[q] = <<t[k][2], t[k][1], t[k][3]>>
        /\ \A k \in DOMAIN t : /\ \E q \in DOMAIN b : b[q] = t[k]
                               /\ \E q \in DOMAIN b : b[q] = <<t[k][2], t[k][1], t[k][3]>>
    BY NormalFormIsUpper, BothTriangles
  <1>2. m = ijw_2_svecvec(b)
    BY DEF ijw_2_svecvec_symm
  <1> HIDE DEF b, m
  <1>3. /\ D \in SUBSET Cell /\ m \in [D -> Int]
        /\ \A p : p \in D <=> \E q \in DOMAIN b : p = <<b[q][1], b[q][2]>>
        /\ \A p \in D : m[p] = Total(b, p)
    BY <1>1, <1>2, MatrixOfList
  <1> HIDE DEF D
  <1>4. \A q \in DOMAIN b : <<b[q][1], b[q][2]>> \in D /\ m[<<b[q][1], b[q][2]>>] = b[q][3]
    BY ZenonT(40), <1>1, <1>3, TotalOfSingle
  <1>5. /\ t \in Seq(Entry) /\ Sorted(t)
        /\ \A k \in DOMAIN t : /\ t[k][1] <= t[k][2] /\ t[k][3] # 0
                               /\ t[k][1] \in Int /\ t[k][2] \in Int
                               /\ t[k] = <<t[k][1], t[k][2], t[k][3]>>
    BY EntryFacts DEF InNormalForm
  <1>6. \A k \in DOMAIN t : /\ <<t[k][1], t[k][2]>> \in D /\ <<t[k][2], t[k][1]>> \in D
                            /\ m[<<t[k][1], t[k][2]>>] = t[k][3]
                            /\ m[<<t[k][2], t[k][1]>>] = t[k][3]
    <2> TAKE k \in DOMAIN t
    <2>1. PICK q \in DOMAIN b : b[q] = t[k]
      BY <1>1
    <2>2. PICK p \in DOMAIN b : b[p] = <<t[k][2], t[k][1], t[k][3]>>
      BY <1>1
    <2>3. <<b[q][1], b[q][2]>> = <<t[k][1], t[k][2]>> /\ b[q][3] = t[k][3]
      BY <2>1
    <2>4. <<b[p][1], b[p][2]>> = <<t[k][2], t[k][1]>> /\ b[p][3] = t[k][3]
      BY <2>2
    <2>5. QED
      BY <1>4, <2>3, <2>4
  <1>7. \A p \in D : \E k \in DOMAIN t : p = <<t[k][1], t[k][2]>> \/ p = <<t[k][2], t[k][1]>>
    <2> TAKE p \in D
    <2>1. PICK q \in DOMAIN b : p = <<b[q][1], b[q][2]>>
      BY <1>3
    <2>2. PICK k \in DOMAIN t : b[q] = t[k] \/ b[q] = <<t[k][2], t[k][1], t[k][3]>>
      BY <1>1
    <2>3. QED
      BY <2>1, <2>2
  <1>8. \A p \in DOMAIN m : At(m, <<p[2], p[1]>>) = m[p]
    <2> TAKE p \in DOMAIN m
    <2>1. p \in D /\ DOMAIN m = D
      BY <1>3
    <2>2. PICK k \in DOMAIN t : p = <<t[k][1], t[k][2]>> \/ p = <<t[k][2], t[k][1]>>
      BY <1>7, <2>1
    <2>3. <<p[2], p[1]>> \in D /\ m[<<p[2], p[1]>>] = m[p]
      BY <1>6, <2>2
    <2>4. QED
      BY <2>1, <2>3 DEF At
  <1>9. /\ InNormalForm(z)
        /\ \A k \in DOMAIN z : <<z[k][1], z[k][2]>> \in D /\ z[k][3] = m[<<z[k][1], z[k][2]>>]
        /\ \A e \in D : m[e] # 0 /\ e[1] <= e[2] => \E k \in DOMAIN z : z[k] = <<e[1], e[2], m[e]>>
    BY <1>3, UpperOfMatrix
  <1> HIDE DEF z
  <1>10. ASSUME NEW k \in DOMAIN t
         PROVE  \E l \in DOMAIN z : z[l] = t[k]
    <2> DEFINE e == <<t[k][1], t[k][2]>>
    <2>1. e \in D /\ m[e] = t[k][3] /\ m[e] # 0 /\ e[1] = t[k][1] /\ e[2] = t[k][2]
      BY <1>5, <1>6
    <2> HIDE DEF e
    <2>2. e[1] <= e[2]
      BY <1>5, <2>1
    <2>3. PICK l \in DOMAIN z : z[l] = <<e[1], e[2], m[e]>>
      BY <1>9, <2>1, <2>2
    <2>4. <<e[1], e[2], m[e]>> = <<t[k][1], t[k][2], t[k][3]>>
      BY <2>1
    <2>5. QED
      BY <1>5, <2>3, <2>4
  <1>11. ASSUME NEW l \in DOMAIN z
         PROVE  \E k \in DOMAIN t : z[l] = t[k]
    <2>1. /\ z \in Seq(Entry)
          /\ z[l][1] <= z[l][2] /\ z[l][1] \in Int /\ z[l][2] \in Int
          /\ z[l] = <<z[l][1], z[l][2], z[l][3]>>
      BY <1>9, EntryFacts DEF InNormalForm
    <2>2. PICK k \in DOMAIN t : \/ <<z[l][1], z[l][2]>> = <<t[k][1], t[k][2]>>
                                \/ <<z[l][1], z[l][2]>> = <<t[k][2], t[k][1]>>
      BY <1>7, <1>9
    <2>3. z[l][1] = t[k][1] /\ z[l][2] = t[k][2]
      BY <1>5, <2>1, <2>2
    <2>4. z[l][3] = t[k][3]
      <3>1. z[l][3] = m[<<z[l][1], z[l][2]>>]
        BY <1>9
      <3>2. <<z[l][1], z[l][2]>> = <<t[k][1], t[k][2]>>
        BY <2>3
      <3>3. m[<<t[k][1], t[k][2]>>] = t[k][3]
        BY <1>6
      <3>4. QED
        BY <3>1, <3>2, <3>3
    <2>5. QED
      BY <1>5, <2>1, <2>3, <2>4
  <1>12. ToSet(z) = ToSet(t)
    BY <1>10, <1>11 DEF ToSet
  <1>13. z = t
    BY <1>5, <1>9, <1>12, SortedUnique DEF InNormalForm
  <1>14. QED
    BY <1>8, <1>13 DEF z, m
=============================================================================
