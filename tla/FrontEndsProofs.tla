---------------------------- MODULE FrontEndsProofs ----------------------------
(****************************************************************************)
(* Theorems about the two front ends.  Whatever is typed, however it is      *)
(* shaped and whatever the options say, a solver is called with a pair of    *)
(* bounds for every node and with no index beyond the last node, nor with    *)
(* one before the first node unless the list itself has one; and when        *)
(* what is typed or passed means a problem, in any of the formats of module  *)
(* Formats, the solver is called with that problem, the user reads off the   *)
(* matching the solver found, and how the call has ended can be told.        *)
(*                                                                           *)
(* FrontInv and LowInv are for the first, MeantInv is for the others:        *)
(* it follows the problem that was meant from the texts or matrices to the   *)
(* edge list and the bounds, and the answer from the solver to the output.   *)
(****************************************************************************)
EXTENDS FrontEnds, IjwProofs

-----------------------------------------------------------------------------
(****************************************************************************)
(* Edge lists of which only the indices matter.                              *)
(****************************************************************************)
Indexed(T) == \A t \in T : t[1] \in Int /\ t[2] \in Int
Listing(s) == \E T : Indexed(T) /\ s \in Seq(T)

\* No index reaches n.
Below(s, n) == \A k \in DOMAIN s : s[k][1] < n /\ s[k][2] < n

LEMMA ListingFacts ==
  ASSUME NEW s, Listing(s)
  PROVE  /\ DOMAIN s = 1 .. Len(s) /\ Len(s) \in Nat
         /\ \A k \in DOMAIN s : s[k][1] \in Int /\ s[k][2] \in Int
  <1>1. PICK T : Indexed(T) /\ s \in Seq(T)
    BY DEF Listing
  <1>2. DOMAIN s = 1 .. Len(s) /\ Len(s) \in Nat /\ \A k \in 1 .. Len(s) : s[k] \in T
    BY <1>1, LenProperties, ElementOfSeq
  <1>3. QED
    BY <1>1, <1>2 DEF Indexed

\* A list that is written down entry by entry.
LEMMA ListingOf ==
  ASSUME NEW n \in Nat, NEW f, \A k \in 1 .. n : f[k][1] \in Int /\ f[k][2] \in Int
  PROVE  Listing([k \in 1 .. n |-> f[k]])
  <1> DEFINE T == {f[k] : k \in 1 .. n}
             s == [k \in 1 .. n |-> f[k]]
  <1>1. Indexed(T)
    BY DEF Indexed
  <1>2. \A k \in 1 .. n : f[k] \in T
    OBVIOUS
  <1> HIDE DEF T
  <1>3. s \in Seq(T)
    BY <1>2, IsASeq
  <1>4. QED
    BY <1>1, <1>3 DEF Listing

\* What a filter leaves of a list.
LEMMA ListingSelected ==
  ASSUME NEW s, Listing(s), NEW K, NEW t, IsSelection(t, s, K)
  PROVE  /\ Listing(t)
         /\ \A k \in DOMAIN t : \E p \in DOMAIN s : t[k] = s[p]
  <1>1. PICK T : Indexed(T) /\ s \in Seq(T)
    BY DEF Listing
  <1>2. t \in Seq(T) /\ \A k \in DOMAIN t : \E p \in K \cap DOMAIN s : t[k] = s[p]
    BY <1>1, SelectionEntries
  <1>3. QED
    BY <1>1, <1>2 DEF Listing

LEMMA ListingFiltered ==
  ASSUME NEW s, Listing(s), NEW x
  PROVE  /\ Listing(ijw_upper_tri(s, x)) /\ Listing(ijw_nnz(s))
         /\ \A k \in DOMAIN ijw_upper_tri(s, x) : \E p \in DOMAIN s : ijw_upper_tri(s, x)[k] = s[p]
         /\ \A k \in DOMAIN ijw_nnz(s) : \E p \in DOMAIN s : ijw_nnz(s)[k] = s[p]
  <1>1. PICK T : s \in Seq(T)
    BY DEF Listing
  <1>2. /\ \E K : IsSelection(ijw_upper_tri(s, x), s, K)
        /\ \E K : IsSelection(ijw_nnz(s), s, K)
    BY <1>1, UpperTriSelects, NnzSelects
  <1>3. QED
    BY <1>2, ListingSelected

LEMMA FilteredFrom ==
  ASSUME NEW s, Listing(s), NEW c, FromFirst(s, c)
  PROVE  FromFirst(ijw_nnz(ijw_upper_tri(s, FALSE)), c)
  <1> DEFINE r == ijw_upper_tri(s, FALSE)
  <1>1. Listing(r) /\ \A k \in DOMAIN r : \E p \in DOMAIN s : r[k] = s[p]
    <2>1. \A x : /\ Listing(ijw_upper_tri(s, x))
                 /\ \A k \in DOMAIN ijw_upper_tri(s, x) :
                       \E p \in DOMAIN s : ijw_upper_tri(s, x)[k] = s[p]
      BY ListingFiltered
    <2>2. QED
      BY Zenon, <2>1
  <1> HIDE DEF r
  <1>2. \A k \in DOMAIN ijw_nnz(r) : \E p \in DOMAIN r : ijw_nnz(r)[k] = r[p]
    BY <1>1, ListingFiltered
  <1>3. FromFirst(ijw_nnz(r), c)
    BY <1>1, <1>2 DEF FromFirst
  <1>4. QED
    BY <1>3 DEF r

\* The two nodes of an entry are those of an entry of s, in either order.
SameNodes(t, s) ==
    \E k \in DOMAIN s : \/ t[1] = s[k][1] /\ t[2] = s[k][2]
                        \/ t[1] = s[k][2] /\ t[2] = s[k][1]

\* The full matrix of method 5 has the indices of the list.
LEMMA FullMatrixNodes ==
  ASSUME NEW s, Listing(s), NEW m
  PROVE  /\ Listing(SolverInput(m, s))
         /\ \A q \in DOMAIN SolverInput(m, s) : SameNodes(SolverInput(m, s)[q], s)
  <1> DEFINE r == ijw_upper_tri(s, TRUE)
             u == ijw_transpose(r)
  <1>1. Listing(r) /\ \A k \in DOMAIN r : \E p \in DOMAIN s : r[k] = s[p]
    <2>1. \A x : /\ Listing(ijw_upper_tri(s, x))
                 /\ \A k \in DOMAIN ijw_upper_tri(s, x) :
                       \E p \in DOMAIN s : ijw_upper_tri(s, x)[k] = s[p]
      BY ListingFiltered
    <2>2. QED
      BY Zenon, <2>1
  <1>2. SolverInput(m, s) = IF m = 5 THEN s \o u ELSE s
    BY DEF SolverInput, ijw_add_upper_tri_transpose
  <1> HIDE DEF r
  <1>3. /\ DOMAIN r = 1 .. Len(r) /\ Len(r) \in Nat
        /\ \A k \in 1 .. Len(r) : r[k][1] \in Int /\ r[k][2] \in Int
    BY <1>1, ListingFacts
  <1>4. u = [k \in 1 .. Len(r) |-> <<r[k][2], r[k][1], r[k][3]>>]
    BY <1>3 DEF ijw_transpose
  <1> HIDE DEF u
  <1>5. Listing(u) /\ DOMAIN u = 1 .. Len(r) /\ \A k \in DOMAIN u : SameNodes(u[k], s)
    <2> DEFINE f == [k \in 1 .. Len(r) |-> <<r[k][2], r[k][1], r[k][3]>>]
    <2>1. \A k \in 1 .. Len(r) : f[k][1] = r[k][2] /\ f[k][2] = r[k][1]
      OBVIOUS
    <2>2. u = [k \in 1 .. Len(r) |-> f[k]]
      BY <1>4
    <2> HIDE DEF f
    <2>3. Listing(u)
      BY <1>3, <2>1, <2>2, ListingOf
    <2>4. \A k \in DOMAIN u : SameNodes(u[k], s)
      BY <1>1, <1>3, <2>1, <2>2 DEF SameNodes
    <2>5. QED
      BY <2>2, <2>3, <2>4
  <1>6. Listing(s \o u) /\ \A q \in DOMAIN (s \o u) : SameNodes((s \o u)[q], s)
    <2>1. PICK T : Indexed(T) /\ s \in Seq(T)
      BY DEF Listing
    <2>2. PICK U : Indexed(U) /\ u \in Seq(U)
      BY <1>5 DEF Listing
    <2> DEFINE V == T \cup U
    <2>3. Indexed(V) /\ \A t : (t \in T => t \in V) /\ (t \in U => t \in V)
      BY <2>1, <2>2 DEF Indexed
    <2>4. s \in Seq(V) /\ u \in Seq(V)
      <3>1. /\ DOMAIN s = 1 .. Len(s) /\ Len(s) \in Nat /\ \A k \in 1 .. Len(s) : s[k] \in T
            /\ DOMAIN u = 1 .. Len(u) /\ Len(u) \in Nat /\ \A k \in 1 .. Len(u) : u[k] \in U
            /\ s = [k \in 1 .. Len(s) |-> s[k]] /\ u = [k \in 1 .. Len(u) |-> u[k]]
        BY <2>1, <2>2, LenProperties, ElementOfSeq
      <3> HIDE DEF V
      <3>2. [k \in 1 .. Len(s) |-> s[k]] \in Seq(V) /\ [k \in 1 .. Len(u) |-> u[k]] \in Seq(V)
        BY <2>3, <3>1, IsASeq
      <3>3. QED
        BY <3>1, <3>2
    <2> HIDE DEF V
    <2>5. /\ s \o u \in Seq(V)
          /\ \A k \in DOMAIN s : k \in DOMAIN (s \o u) /\ (s \o u)[k] = s[k]
          /\ \A k \in DOMAIN u : Len(s) + k \in DOMAIN (s \o u) /\ (s \o u)[Len(s) + k] = u[k]
          /\ \A q \in DOMAIN (s \o u) : q \in DOMAIN s \/ \E k \in DOMAIN u : q = Len(s) + k
      BY <2>4, Joined
    <2> DEFINE b == s \o u
    <2>6. \A q \in DOMAIN b : \/ q \in DOMAIN s /\ b[q] = s[q]
                              \/ \E k \in DOMAIN u : b[q] = u[k]
      BY Zenon, <2>5
    <2>7. Listing(b)
      BY <2>3, <2>5 DEF Listing
    <2> HIDE DEF b
    <2>8. \A q \in DOMAIN b : SameNodes(b[q], s)
      BY <1>5, <2>6 DEF SameNodes
    <2>9. QED
      BY <2>7, <2>8 DEF b
  <1>7. \A q \in DOMAIN s : SameNodes(s[q], s)
    BY DEF SameNodes
  <1>8. QED
    BY <1>2, <1>6, <1>7

LEMMA FullMatrixBelow ==
  ASSUME NEW s, Listing(s), NEW n, Below(s, n), NEW m
  PROVE  Listing(SolverInput(m, s)) /\ Below(SolverInput(m, s), n)
  BY FullMatrixNodes DEF SameNodes, Below

LEMMA FullMatrixFrom ==
  ASSUME NEW s, Listing(s), NEW c, FromFirst(s, c), NEW m
  PROVE  FromFirst(SolverInput(m, s), c)
  BY FullMatrixNodes DEF SameNodes, FromFirst

\* As many nodes as the list speaks of are enough.
LEMMA NumIjwNodeSuffices ==
  ASSUME NEW s, Listing(s)
  PROVE  NumIjwNode(s) \in Nat /\ Below(s, NumIjwNode(s))
  <1> DEFINE f == [k \in DOMAIN s |-> 1 + s[k][1]]
             g == [k \in DOMAIN s |-> 1 + s[k][2]]
             F == {f[k] : k \in DOMAIN s}
             G == {g[k] : k \in DOMAIN s}
             S == {0} \cup F \cup G
  <1>1. /\ DOMAIN s = 1 .. Len(s) /\ Len(s) \in Nat
        /\ \A k \in DOMAIN s : s[k][1] \in Int /\ s[k][2] \in Int
    BY ListingFacts
  <1>2. NumIjwNode(s) = Max(S)
    BY DEF NumIjwNode
  <1>3. \A k \in DOMAIN s : /\ f[k] = 1 + s[k][1] /\ f[k] \in F /\ f[k] \in Int
                            /\ g[k] = 1 + s[k][2] /\ g[k] \in G /\ g[k] \in Int
    BY <1>1
  <1> HIDE DEF f, g
  <1>4. IsFiniteSet(F) /\ IsFiniteSet(G)
    <2>1. IsFiniteSet(DOMAIN s)
      BY <1>1, FS_Interval
    <2>2. QED
      BY <2>1, ImageFinite
  <1>5. S \in SUBSET Int /\ IsFiniteSet(S) /\ 0 \in S
    <2>1. F \in SUBSET Int /\ G \in SUBSET Int
      BY <1>3
    <2> HIDE DEF F, G
    <2>2. IsFiniteSet({0}) /\ IsFiniteSet({0} \cup F)
      BY <1>4, FS_Singleton, FS_Union
    <2>3. IsFiniteSet(S)
      BY <1>4, <2>2, FS_Union
    <2>4. QED
      BY <2>1, <2>3
  <1>6. \A k \in DOMAIN s : f[k] \in S /\ g[k] \in S
    BY <1>3
  <1> HIDE DEF S
  <1>7. Max(S) \in Int /\ \A y \in S : y <= Max(S)
    BY <1>5, MaxIsGreatest
  <1>8. 0 <= Max(S) /\ \A k \in DOMAIN s : f[k] <= Max(S) /\ g[k] <= Max(S)
    BY <1>5, <1>6, <1>7
  <1>9. \A k \in DOMAIN s : s[k][1] < Max(S) /\ s[k][2] < Max(S)
    BY SMTT(30), <1>1, <1>3, <1>7, <1>8
  <1>10. QED
    BY <1>2, <1>7, <1>8, <1>9 DEF Below
-----------------------------------------------------------------------------
(****************************************************************************)
(* What the tool reads.                                                      *)
(****************************************************************************)
Texts == Seq(Seq(Int))

\* All rows of m have the same number of elements.
Matrix(m) == m \in Texts /\ \A k \in DOMAIN m : Len(m[k]) = Columns(m)

LEMMA RowsTyped ==
  ASSUME NEW m \in Texts
  PROVE  /\ DOMAIN m = 1 .. Len(m) /\ Len(m) \in Nat
         /\ \A k \in 1 .. Len(m) :
               /\ m[k] \in Seq(Int) /\ Len(m[k]) \in Nat /\ DOMAIN m[k] = 1 .. Len(m[k])
               /\ \A c \in 1 .. Len(m[k]) : m[k][c] \in Int
         /\ Columns(m) \in Nat
  <1>1. DOMAIN m = 1 .. Len(m) /\ Len(m) \in Nat /\ \A k \in 1 .. Len(m) : m[k] \in Seq(Int)
    BY LenProperties, ElementOfSeq DEF Texts
  <1>2. \A k \in 1 .. Len(m) :
          /\ Len(m[k]) \in Nat /\ DOMAIN m[k] = 1 .. Len(m[k])
          /\ \A c \in 1 .. Len(m[k]) : m[k][c] \in Int
    BY <1>1, LenProperties, ElementOfSeq
  <1>3. m # <<>> => Len(m) \in Nat \ {0}
    BY EmptySeq DEF Texts
  <1>4. Columns(m) \in Nat
    BY <1>1, <1>2, <1>3 DEF Columns
  <1>5. QED
    BY <1>1, <1>2, <1>4

LEMMA MinOfRange ==
  ASSUME NEW n \in Nat, NEW S, \A k \in S : k \in 1 .. n, S # {}
  PROVE  Min(S) \in S /\ Min(S) \in 1 .. n
  <1>1. IsFiniteSet(1 .. n) /\ S \in SUBSET (1 .. n)
    BY FS_Interval
  <1>2. IsFiniteSet(S)
    BY <1>1, FS_Subset
  <1>3. S \in SUBSET Int
    OBVIOUS
  <1>4. Min(S) \in S
    BY <1>2, <1>3, MinIsLeast
  <1>5. QED
    BY <1>4

LEMMA BlockLengthInText ==
  ASSUME NEW text \in Texts
  PROVE  BlockLength(text) \in 0 .. Len(text)
  <1> DEFINE S == {k \in 1 .. Len(text) + 1 : k = Len(text) + 1 \/ text[k] = <<>>}
  <1>1. Len(text) \in Nat
    BY RowsTyped
  <1>2. (\A k \in S : k \in 1 .. Len(text) + 1) /\ Len(text) + 1 \in S
    BY <1>1
  <1>3. BlockLength(text) = Min(S) - 1
    BY DEF BlockLength
  <1> HIDE DEF S
  <1> DEFINE n == Len(text) + 1
  <1>4. n \in Nat /\ S # {} /\ \A k \in S : k \in 1 .. n
    BY <1>1, <1>2
  <1> HIDE DEF n
  <1>5. Min(S) \in 1 .. n
    BY <1>4, MinOfRange
  <1>6. QED
    BY <1>1, <1>3, <1>5 DEF n

\* A part of a text.
LEMMA PartOfText ==
  ASSUME NEW text \in Texts, NEW a \in Nat, a >= 1, NEW b \in Nat, b <= Len(text)
  PROVE  /\ SubSeq(text, a, b) \in Texts
         /\ Len(SubSeq(text, a, b)) = IF a <= b THEN b - a + 1 ELSE 0
         /\ \A k \in 1 .. b - a + 1 : SubSeq(text, a, b)[k] = text[a + k - 1]
  <1>1. \A k \in a .. b : text[k] \in Seq(Int)
    BY RowsTyped
  <1>2. QED
    BY <1>1, SubSeqProperties DEF Texts

\* What is read is a matrix of lines of the text, and what is left is a text.
LEMMA ReadBlock ==
  ASSUME NEW text \in Texts
  PROVE  /\ Matrix(read_mn_matrix(text).rows) /\ read_mn_matrix(text).rest \in Texts
         /\ \A k \in DOMAIN read_mn_matrix(text).rows :
               \E l \in DOMAIN text : read_mn_matrix(text).rows[k] = text[l]
  <1> DEFINE n == BlockLength(text)
             R == RaggedLines(text)
  <1>1. n \in Nat /\ n <= Len(text) /\ Len(text) \in Nat
    BY BlockLengthInText, RowsTyped
  <1>2. R = {k \in 1 .. n : Len(text[k]) # Len(text[1])}
    BY DEF RaggedLines
  <1>3. read_mn_matrix(text) =
          IF R # {} THEN [rows |-> <<>>, rest |-> SubSeq(text, Min(R) + 1, Len(text))]
          ELSE [rows |-> SubSeq(text, 1, n), rest |-> SubSeq(text, n + 2, Len(text))]
    BY DEF read_mn_matrix
  <1> HIDE DEF n, R
  <1>4. CASE R # {}
    <2>1. \A k \in R : k \in 1 .. n
      BY <1>2
    <2>2. Min(R) \in 1 .. n
      BY <1>1, <1>4, <2>1, MinOfRange
    <2>3. Min(R) + 1 \in Nat /\ Min(R) + 1 >= 1
      BY <1>1, <2>2
    <2>5. SubSeq(text, Min(R) + 1, Len(text)) \in Texts
      BY <1>1, <2>3, PartOfText
    <2>6. Matrix(<<>>) /\ DOMAIN <<>> = {}
      <3>1. <<>> \in Texts /\ Len(<<>>) = 0
        BY EmptySeq DEF Texts
      <3>2. DOMAIN <<>> = {}
        OBVIOUS
      <3>3. QED
        BY <3>1, <3>2 DEF Matrix
    <2>7. QED
      BY <1>3, <1>4, <2>5, <2>6
  <1>5. CASE R = {}
    <2> DEFINE m == SubSeq(text, 1, n)
               rest == SubSeq(text, n + 2, Len(text))
    <2>1. rest \in Texts
      BY <1>1, PartOfText
    <2>2. /\ m \in Texts /\ Len(m) = n
          /\ \A k \in 1 .. n : m[k] = text[k]
      <3>1. /\ m \in Texts
            /\ Len(m) = IF 1 <= n THEN n - 1 + 1 ELSE 0
            /\ \A k \in 1 .. n - 1 + 1 : m[k] = text[1 + k - 1]
        BY <1>1, PartOfText
      <3> HIDE DEF m
      <3>2. QED
        BY <1>1, <3>1
    <2> HIDE DEF m, rest
    <2>3. DOMAIN m = 1 .. n /\ (n # 0 => m # <<>>)
      BY <2>2, RowsTyped
    <2>4. \A k \in 1 .. n : Len(m[k]) = Len(m[1])
      BY <1>1, <1>2, <1>5, <2>2
    <2>5. Matrix(m)
      BY <1>1, <2>2, <2>3, <2>4 DEF Matrix, Columns
    <2>6. \A k \in DOMAIN m : \E l \in DOMAIN text : m[k] = text[l]
      <3>1. DOMAIN text = 1 .. Len(text)
        BY RowsTyped
      <3>2. QED
        BY <1>1, <2>2, <2>3, <3>1
    <2>7. read_mn_matrix(text).rows = m /\ read_mn_matrix(text).rest = rest
      <3>1. read_mn_matrix(text) = [rows |-> m, rest |-> rest]
        BY Zenon, <1>3, <1>5 DEF m, rest
      <3>2. QED
        BY <3>1
    <2>8. QED
      BY Zenon, <2>1, <2>5, <2>6, <2>7
  <1>6. QED
    BY <1>4, <1>5

\* An n x n matrix read element by element, by rows (the tool) or by columns
\* (find in Matlab), counting from c.
LEMMA ElementsListed ==
  ASSUME NEW n \in Nat, NEW c \in Int, NEW v
  PROVE  /\ Listing([k \in 1 .. n * n |-> <<((k - 1) \div n) + c, ((k - 1) % n) + c, v[k]>>])
         /\ Listing([k \in 1 .. n * n |-> <<((k - 1) % n) + c, ((k - 1) \div n) + c, v[k]>>])
         /\ FromFirst([k \in 1 .. n * n |-> <<((k - 1) \div n) + c, ((k - 1) % n) + c, v[k]>>], c)
         /\ FromFirst([k \in 1 .. n * n |-> <<((k - 1) % n) + c, ((k - 1) \div n) + c, v[k]>>], c)
  <1> DEFINE q == n * n
             f == [k \in 1 .. q |-> <<((k - 1) \div n) + c, ((k - 1) % n) + c, v[k]>>]
             g == [k \in 1 .. q |-> <<((k - 1) % n) + c, ((k - 1) \div n) + c, v[k]>>]
  <1>1. q \in Nat /\ (n = 0 => q = 0)
    OBVIOUS
  <1> HIDE DEF q
  <1>2. \A k \in 1 .. q : /\ ((k - 1) \div n) + c \in Int /\ ((k - 1) % n) + c \in Int
                         /\ ((k - 1) \div n) + c >= c /\ ((k - 1) % n) + c >= c
    <2>1. ASSUME NEW k \in 1 .. q PROVE (k - 1) \div n \in Nat /\ (k - 1) % n \in Nat
      BY <1>1
    <2>2. QED
      BY <2>1
  <1>3. \A k \in 1 .. q : /\ f[k][1] \in Int /\ f[k][2] \in Int
                          /\ g[k][1] \in Int /\ g[k][2] \in Int
                          /\ f[k][1] >= c /\ f[k][2] >= c /\ g[k][1] >= c /\ g[k][2] >= c
    BY <1>2
  <1>4. f = [k \in 1 .. q |-> f[k]] /\ g = [k \in 1 .. q |-> g[k]]
    OBVIOUS
  <1> HIDE DEF f, g
  <1>5. Listing(f) /\ Listing(g)
    BY <1>1, <1>3, <1>4, ListingOf
  <1>6. FromFirst(f, c) /\ FromFirst(g, c)
    BY <1>3, <1>4 DEF FromFirst
  <1>7. QED
    BY <1>5, <1>6 DEF f, g, q

\* The list of the weights that are read, in either format.
LEMMA WeightsListed ==
  ASSUME NEW m, Matrix(m)
  PROVE  /\ Listing(ijw_read_ijw(m))
         /\ Listing(ijw_nnz(ijw_upper_tri(ijw_read_matrix(m), FALSE)))
         /\ FromFirst(ijw_nnz(ijw_upper_tri(ijw_read_matrix(m), FALSE)), 0)
  <1>1. m \in Texts /\ \A k \in DOMAIN m : Len(m[k]) = Columns(m)
    BY DEF Matrix
  <1>2. Listing(<<>>)
    <2>1. Indexed({}) /\ <<>> \in Seq({})
      BY EmptySeq DEF Indexed
    <2>2. QED
      BY <2>1 DEF Listing
  <1>3. Listing(ijw_read_ijw(m))
    <2>1. CASE Columns(m) # 3
      BY <1>2, <2>1 DEF ijw_read_ijw
    <2>2. CASE Columns(m) = 3
      <3> DEFINE T == {r \in Seq(Int) : Len(r) = 3}
      <3>1. Indexed(T)
        <4>1. \A r \in T : r[1] \in Int /\ r[2] \in Int
          <5>1. ASSUME NEW r \in Seq(Int), Len(r) = 3 PROVE r[1] \in Int /\ r[2] \in Int
            <6>1. \A k \in 1 .. Len(r) : r[k] \in Int
              BY ElementOfSeq
            <6>2. QED
              BY <5>1, <6>1
          <5>2. QED
            BY <5>1
        <4>2. QED
          BY <4>1 DEF Indexed
      <3>2. \A k \in 1 .. Len(m) : m[k] \in T
        BY <1>1, <2>2, RowsTyped
      <3>3. Len(m) \in Nat /\ m = [k \in 1 .. Len(m) |-> m[k]]
        BY <1>1, RowsTyped, LenProperties DEF Texts
      <3> HIDE DEF T
      <3>4. [k \in 1 .. Len(m) |-> m[k]] \in Seq(T)
        BY <3>2, <3>3, IsASeq
      <3>5. Listing(m)
        BY <3>1, <3>3, <3>4 DEF Listing
      <3>6. QED
        BY <2>2, <3>5 DEF ijw_read_ijw
    <2>3. QED
      BY <2>1, <2>2
  <1>4. Listing(ijw_read_matrix(m)) /\ FromFirst(ijw_read_matrix(m), 0)
    <2>1. CASE Rows(m) # Columns(m)
      <3>1. ijw_read_matrix(m) = <<>> /\ DOMAIN <<>> = {}
        BY <2>1 DEF ijw_read_matrix
      <3>2. QED
        BY <1>2, <3>1 DEF FromFirst
    <2>2. CASE Rows(m) = Columns(m)
      <3> DEFINE n == Rows(m)
                 v == [k \in 1 .. n * n |-> m[((k - 1) \div n) + 1][((k - 1) % n) + 1]]
      <3>1. n \in Nat
        BY <1>1, RowsTyped DEF Rows
      <3>2. ijw_read_matrix(m) =
              [k \in 1 .. n * n |-> <<(k - 1) \div n, (k - 1) % n, m[((k - 1) \div n) + 1][((k - 1) % n) + 1]>>]
        BY <2>2 DEF ijw_read_matrix
      <3> HIDE DEF n
      <3>3. \A k \in 1 .. n * n : /\ ((k - 1) \div n) + 0 = (k - 1) \div n
                                  /\ ((k - 1) % n) + 0 = (k - 1) % n
        <4> DEFINE q == n * n
        <4>1. q \in Nat /\ (n = 0 => q = 0)
          BY <3>1
        <4> HIDE DEF q
        <4>2. \A k \in 1 .. q : /\ ((k - 1) \div n) + 0 = (k - 1) \div n
                                /\ ((k - 1) % n) + 0 = (k - 1) % n
          BY <3>1, <4>1
        <4>3. QED
          BY <4>2 DEF q
      <3>4. ijw_read_matrix(m) =
              [k \in 1 .. n * n |-> <<((k - 1) \div n) + 0, ((k - 1) % n) + 0, v[k]>>]
        BY Zenon, <3>2, <3>3
      <3> HIDE DEF v
      <3>5. \A w : /\ Listing([k \in 1 .. n * n |-> <<((k - 1) \div n) + 0, ((k - 1) % n) + 0, w[k]>>])
                   /\ FromFirst([k \in 1 .. n * n |-> <<((k - 1) \div n) + 0, ((k - 1) % n) + 0, w[k]>>], 0)
        <4>1. 0 \in Int
          OBVIOUS
        <4>2. QED
          BY Zenon, <3>1, <4>1, ElementsListed
      <3>6. QED
        BY Zenon, <3>4, <3>5
    <2>3. QED
      BY <2>1, <2>2
  <1>5. Listing(ijw_upper_tri(ijw_read_matrix(m), FALSE))
    BY <1>4, ListingFiltered
  <1>6. QED
    BY <1>3, <1>4, <1>5, ListingFiltered, FilteredFrom

\* The number of bounds.  Which of the shapes it is matters for the bounds only.
LEMMA BoundsCounted ==
  ASSUME NEW m, Matrix(m), NEW n \in Nat
  PROVE  Len(read_degrees(m, n)) \in Nat
  <1>1. m \in Texts /\ Rows(m) \in Nat /\ Columns(m) \in Nat /\ Rows(m) = Len(m)
    BY RowsTyped DEF Matrix, Rows
  <1>2. \A a, b : Len(init_const_degrees(n, a, b)) = n
    BY DEF init_const_degrees
  <1>3. /\ Len([x \in 1 .. Rows(m) |-> <<0, m[x][1]>>]) = Rows(m)
        /\ Len([x \in 1 .. Columns(m) |-> <<0, m[1][x]>>]) = Columns(m)
        /\ Len(<<>>) = 0
    BY <1>1
  <1>4. QED
    BY <1>1, <1>2, <1>3 DEF read_degrees
-----------------------------------------------------------------------------
(****************************************************************************)
(* What the Matlab functions pass on.                                        *)
(****************************************************************************)
LEMMA Size2Columns == \A m : Size2(m) = Columns(m)
  BY DEF Size2, Columns

LEMMA TransposeSize ==
  ASSUME NEW m \in Texts
  PROVE  Size2(Transpose(m)) \in Nat
  <1> DEFINE row(c) == [r \in 1 .. Size1(m) |-> m[r][c]]
             T == {row(c) : c \in 1 .. Size2(m)}
             t == [c \in 1 .. Size2(m) |-> row(c)]
  <1>1. Size1(m) \in Nat /\ Size2(m) \in Nat
    BY RowsTyped, Size2Columns DEF Size1
  <1>2. \A c : Len(row(c)) = Size1(m)
    BY <1>1
  <1>3. Transpose(m) = t
    BY DEF Transpose
  <1>4. \A c \in 1 .. Size2(m) : row(c) \in T
    OBVIOUS
  <1> HIDE DEF T, row
  <1>5. t \in Seq(T)
    BY <1>1, <1>4, IsASeq
  <1>6. t # <<>> => Len(t[1]) \in Nat
    <2>1. Len(t) = Size2(m) /\ \A c \in 1 .. Size2(m) : t[c] = row(c)
      BY <1>1
    <2> HIDE DEF t
    <2>2. t # <<>> => 1 \in 1 .. Size2(m)
      BY <1>1, <1>5, <2>1, EmptySeq
    <2>3. QED
      BY <1>1, <1>2, <2>1, <2>2
  <1> HIDE DEF t
  <1>7. QED
    BY <1>3, <1>6 DEF Size2

LEMMA ShapedBoundsSize ==
  ASSUME N \in Nat, deg_bdd \in Texts
  PROVE  Size2(ShapedBounds) \in Nat
  <1> DEFINE zeros == [x \in 1 .. N |-> 0]
  <1>1. \A f : Size2(<<zeros, f>>) = N
    <2>1. Len(zeros) = N
      OBVIOUS
    <2> HIDE DEF zeros
    <2>2. \A f : <<zeros, f>> # <<>> /\ <<zeros, f>>[1] = zeros
      OBVIOUS
    <2>3. QED
      BY <2>1, <2>2 DEF Size2
  <1>2. Size2(deg_bdd) \in Nat /\ Size2(Transpose(deg_bdd)) \in Nat
    BY RowsTyped, Size2Columns, TransposeSize
  <1>3. Size2(<<>>) = 0
    BY DEF Size2
  <1>4. \/ \E f : ShapedBounds = <<zeros, f>>
        \/ ShapedBounds \in {deg_bdd, Transpose(deg_bdd), <<>>}
    BY DEF ShapedBounds
  <1> HIDE DEF zeros
  <1>5. QED
    BY <1>1, <1>2, <1>3, <1>4

LEMMA TriuListed ==
  ASSUME N \in Nat
  PROVE  Listing(FindTriu) /\ FromFirst(FindTriu, 1)
  <1> DEFINE v == [k \in 1 .. N * N |-> W[((k - 1) % N) + 1][((k - 1) \div N) + 1]]
             all == [k \in 1 .. N * N |-> <<((k - 1) % N) + 1, ((k - 1) \div N) + 1, v[k]>>]
  <1>1. FindTriu = ijw_nnz(ijw_upper_tri(all, FALSE))
    BY DEF FindTriu
  <1>2. \A w : /\ Listing([k \in 1 .. N * N |-> <<((k - 1) % N) + 1, ((k - 1) \div N) + 1, w[k]>>])
               /\ FromFirst([k \in 1 .. N * N |-> <<((k - 1) % N) + 1, ((k - 1) \div N) + 1, w[k]>>], 1)
    <2>1. 1 \in Int
      OBVIOUS
    <2>2. QED
      BY Zenon, <2>1, ElementsListed
  <1> HIDE DEF v
  <1>3. Listing(all) /\ FromFirst(all, 1)
    BY Zenon, <1>2
  <1> HIDE DEF all
  <1>4. Listing(ijw_upper_tri(all, FALSE))
    BY <1>3, ListingFiltered
  <1>5. QED
    BY <1>1, <1>3, <1>4, ListingFiltered, FilteredFrom

\* The list counted from 0, and the nodes that are enough for it.
LEMMA CountedFromZero ==
  ASSUME NEW s, Listing(s), NEW n \in Nat,
         ~ (n < Max(UNION {{s[k][1], s[k][2]} : k \in DOMAIN s}))
  PROVE  LET z == [k \in DOMAIN s |-> <<s[k][1] - 1, s[k][2] - 1, s[k][3]>>]
         IN  Listing(z) /\ Below(z, n) /\ (FromFirst(s, 1) => FromFirst(z, 0))
  <1> DEFINE z == [k \in DOMAIN s |-> <<s[k][1] - 1, s[k][2] - 1, s[k][3]>>]
             f == [k \in DOMAIN s |-> {s[k][1], s[k][2]}]
             F == {f[k] : k \in DOMAIN s}
             I == UNION F
  <1>1. /\ DOMAIN s = 1 .. Len(s) /\ Len(s) \in Nat
        /\ \A k \in DOMAIN s : s[k][1] \in Int /\ s[k][2] \in Int
    BY ListingFacts
  <1>2. I = UNION {{s[k][1], s[k][2]} : k \in DOMAIN s}
    OBVIOUS
  <1>3. \A k \in DOMAIN s : f[k] = {s[k][1], s[k][2]} /\ f[k] \in F
    OBVIOUS
  <1>4. \A D \in F : \E k \in DOMAIN s : D = {s[k][1], s[k][2]}
    OBVIOUS
  <1>5. IsFiniteSet(F)
    <2>1. IsFiniteSet(DOMAIN s)
      BY <1>1, FS_Interval
    <2> HIDE DEF f
    <2>2. QED
      BY <2>1, ImageFinite
  <1> HIDE DEF f, F
  <1>6. IsFiniteSet(I)
    <2>1. ASSUME NEW a, NEW b PROVE IsFiniteSet({a, b})
      <3>1. IsFiniteSet({a}) /\ IsFiniteSet({b})
        BY FS_Singleton
      <3>2. IsFiniteSet({a} \cup {b})
        BY <3>1, FS_Union
      <3>3. {a, b} = {a} \cup {b}
        OBVIOUS
      <3>4. QED
        BY Zenon, <3>2, <3>3
    <2>2. \A D \in F : IsFiniteSet(D)
      <3> SUFFICES ASSUME NEW D \in F PROVE IsFiniteSet(D)
        OBVIOUS
      <3>1. PICK k \in DOMAIN s : D = {s[k][1], s[k][2]}
        BY <1>4
      <3>2. IsFiniteSet({s[k][1], s[k][2]})
        BY Zenon, <2>1
      <3>3. QED
        BY Zenon, <3>1, <3>2
    <2>3. QED
      BY <1>5, <2>2, FS_UNION
  <1>7. (\A k \in DOMAIN s : s[k][1] \in I /\ s[k][2] \in I) /\ I \in SUBSET Int
    BY <1>1, <1>3, <1>4
  <1>8. ~ (n < Max(I))
    BY <1>2
  <1> HIDE DEF I
  <1>9. \A k \in DOMAIN s : s[k][1] - 1 < n /\ s[k][2] - 1 < n
    <2> SUFFICES ASSUME NEW k \in DOMAIN s PROVE s[k][1] - 1 < n /\ s[k][2] - 1 < n
      OBVIOUS
    <2>1. I # {}
      BY <1>7
    <2>2. Max(I) \in I /\ \A y \in I : Max(I) >= y
      BY <1>6, <1>7, <2>1, MaxIsGreatest
    <2>3. Max(I) \in Int /\ Max(I) >= s[k][1] /\ Max(I) >= s[k][2]
      BY <1>7, <2>2
    <2>4. QED
      BY <1>1, <1>8, <2>3
  <1>10. \A k \in 1 .. Len(s) : /\ z[k][1] = s[k][1] - 1 /\ z[k][2] = s[k][2] - 1
                                /\ z[k][1] \in Int /\ z[k][2] \in Int
    BY <1>1
  <1>11. z = [k \in 1 .. Len(s) |-> z[k]] /\ DOMAIN z = 1 .. Len(s)
    BY <1>1
  <1> HIDE DEF z
  <1>12. Listing(z)
    BY <1>1, <1>10, <1>11, ListingOf
  <1>13. Below(z, n)
    BY <1>1, <1>9, <1>10, <1>11 DEF Below
  <1>14. FromFirst(s, 1) => FromFirst(z, 0)
    BY <1>1, <1>10, <1>11 DEF FromFirst
  <1>15. QED
    BY <1>12, <1>13, <1>14 DEF z
-----------------------------------------------------------------------------
(****************************************************************************)
(* The invariant: as soon as a list is there, no index is beyond its nodes,  *)
(* and as soon as bounds are, there is a pair for every node.                *)
(****************************************************************************)
ReadsKnown == stdin \in Texts /\ \A f \in DOMAIN files : files[f] \in Texts

ArgumentsKnown == N \in Nat /\ deg_bdd \in Texts /\ Size2(ijw_bdd) \in Nat /\ Listing(ijw_in)

ProblemKnown ==
    /\ num_node \in Nat
    /\ phase \in {"bounds", "method", "solve"} => Listing(ijw_vec) /\ Below(ijw_vec, num_node)
    /\ phase \in {"method", "solve"} => Len(deg_bdd_vec) = num_node

FrontInv == ReadsKnown /\ ArgumentsKnown /\ ProblemKnown

LEMMA FrontInvInit == FInit => FrontInv
  <1> SUFFICES ASSUME FInit PROVE FrontInv
    OBVIOUS
  <1>1. /\ session \in Sessions
        /\ stdin = session.text /\ files = session.files
        /\ N = Len(session.mat)
        /\ deg_bdd \in {<<>>, session.bounds} /\ ijw_bdd \in {<<>>, session.bounds}
        /\ ijw_in = session.list
        /\ num_node = 0
    BY DEF FInit, InterfaceInit, ToolInit, MatlabInit
  <1>2. /\ session.front \in {"tool", "bmatch_matrix", "bmatch_ijw"}
        /\ session.text \in Texts /\ \A f \in DOMAIN session.files : session.files[f] \in Texts
        /\ session.mat \in Texts /\ session.bounds \in Texts
        /\ session.list \in Seq(Int \X Int \X Int)
    BY <1>1, SessionAssumption DEF Texts
  <1>3. phase \in {"options", "bmatch_matrix", "bmatch_ijw"}
    BY <1>2 DEF FInit
  <1>4. <<>> \in Texts
    BY EmptySeq DEF Texts
  <1>5. N \in Nat /\ deg_bdd \in Texts /\ ijw_bdd \in Texts
    BY <1>1, <1>2, <1>4, RowsTyped
  <1>6. Size2(ijw_bdd) \in Nat
    BY <1>5, RowsTyped, Size2Columns
  <1>7. Listing(session.list)
    <2>1. Indexed(Int \X Int \X Int)
      BY DEF Indexed
    <2>2. QED
      BY <1>2, <2>1 DEF Listing
  <1>8. ReadsKnown /\ ArgumentsKnown
    BY <1>1, <1>2, <1>5, <1>6, <1>7 DEF ReadsKnown, ArgumentsKnown
  <1>9. ProblemKnown
    BY <1>1, <1>3 DEF ProblemKnown
  <1>10. QED
    BY <1>8, <1>9 DEF FrontInv

\* A step after which no call is to come.
LEMMA EndKeeps ==
  ASSUME ProblemKnown, UNCHANGED problem, phase' \notin {"bounds", "method", "solve"}
  PROVE  ProblemKnown'
  BY DEF ProblemKnown, problem

LEMMA TextTyped ==
  ASSUME ReadsKnown, NEW o
  PROVE  Text(o) \in Texts
  <1>1. <<>> \in Texts
    BY EmptySeq DEF Texts
  <1>2. QED
    BY <1>1 DEF Text, ReadsKnown

LEMMA ReadWeightsKeeps == FrontInv /\ ReadWeights => ReadsKnown' /\ ProblemKnown'
  <1> SUFFICES ASSUME FrontInv, ReadWeights PROVE ReadsKnown' /\ ProblemKnown'
    OBVIOUS
  <1> DEFINE r == read_mn_matrix(Text(PP.weights))
  <1>1. Matrix(r.rows) /\ r.rest \in Texts
    BY TextTyped, ReadBlock DEF FrontInv
  <1>2. /\ Consume(PP.weights, r)
        /\ ijw_vec' = IF PP.sparse = 1 THEN ijw_read_ijw(r.rows)
                      ELSE ijw_nnz(ijw_upper_tri(ijw_read_matrix(r.rows), FALSE))
        /\ num_node' = NumIjwNode(ijw_vec') /\ phase' = "bounds" /\ files' = files
    BY DEF ReadWeights
  <1> HIDE DEF r
  <1>3. ReadsKnown'
    BY <1>1, <1>2 DEF Consume, ReadsKnown, FrontInv
  <1>4. Listing(ijw_vec')
    BY <1>1, <1>2, WeightsListed
  <1>5. num_node' \in Nat /\ Below(ijw_vec', num_node')
    BY <1>2, <1>4, NumIjwNodeSuffices
  <1>6. QED
    BY <1>2, <1>3, <1>4, <1>5 DEF ProblemKnown

LEMMA ReadBoundsKeeps == FrontInv /\ ReadBounds => ReadsKnown' /\ ProblemKnown'
  <1> SUFFICES ASSUME FrontInv, ReadBounds PROVE ReadsKnown' /\ ProblemKnown'
    OBVIOUS
  <1> DEFINE r == read_mn_matrix(Text(PP.degrees))
             bounds == read_degrees(r.rows, num_node)
  <1>1. Matrix(r.rows) /\ r.rest \in Texts
    BY TextTyped, ReadBlock DEF FrontInv
  <1>2. /\ Consume(PP.degrees, r)
        /\ deg_bdd_vec' = bounds /\ num_node' = Len(bounds)
        /\ IF Len(bounds) < num_node THEN Exit(1) ELSE phase' = "method" /\ UNCHANGED status
        /\ ijw_vec' = ijw_vec /\ files' = files /\ phase = "bounds"
    BY DEF ReadBounds
  <1> HIDE DEF r
  <1>3. ReadsKnown'
    BY <1>1, <1>2 DEF Consume, ReadsKnown, FrontInv
  <1>4. num_node \in Nat /\ Listing(ijw_vec) /\ Below(ijw_vec, num_node)
    BY <1>2 DEF FrontInv, ProblemKnown
  <1>5. Len(bounds) \in Nat
    BY <1>1, <1>4, BoundsCounted
  <1> HIDE DEF bounds
  <1>6. CASE Len(bounds) < num_node
    <2>1. phase' = "exited"
      BY <1>2, <1>6 DEF Exit
    <2>2. QED
      BY <1>2, <1>3, <1>5, <2>1 DEF ProblemKnown
  <1>7. CASE ~ (Len(bounds) < num_node)
    <2>1. Below(ijw_vec, Len(bounds))
      <3>1. \A k \in DOMAIN ijw_vec : ijw_vec[k][1] \in Int /\ ijw_vec[k][2] \in Int
        BY <1>4, ListingFacts
      <3>2. QED
        BY <1>4, <1>5, <1>7, <3>1 DEF Below
    <2>2. QED
      BY <1>2, <1>3, <1>4, <1>5, <1>7, <2>1 DEF ProblemKnown
  <1>8. QED
    BY <1>6, <1>7

LEMMA ConstantBoundsKeeps == FrontInv /\ ConstantBounds => ProblemKnown'
  <1> SUFFICES ASSUME FrontInv, ConstantBounds PROVE ProblemKnown'
    OBVIOUS
  <1>1. /\ num_node \in Nat /\ Listing(ijw_vec) /\ Below(ijw_vec, num_node)
        /\ num_node' = num_node /\ ijw_vec' = ijw_vec /\ phase' = "method"
    BY DEF FrontInv, ProblemKnown, ConstantBounds
  <1>2. Len(deg_bdd_vec') = num_node
    <2>1. deg_bdd_vec' = init_const_degrees(num_node, Max({PP.const_l, 0}), PP.const_u)
      BY DEF ConstantBounds
    <2>2. \A a, b : Len(init_const_degrees(num_node, a, b)) = num_node
      BY <1>1 DEF init_const_degrees
    <2>3. QED
      BY <2>1, <2>2
  <1>3. QED
    BY <1>1, <1>2 DEF ProblemKnown

LEMMA ChooseMethodKeeps == FrontInv /\ ChooseMethod => ProblemKnown'
  <1> SUFFICES ASSUME FrontInv, ChooseMethod PROVE ProblemKnown'
    OBVIOUS
  <1>1. /\ num_node \in Nat /\ Listing(ijw_vec) /\ Below(ijw_vec, num_node)
        /\ Len(deg_bdd_vec) = num_node
        /\ num_node' = num_node /\ deg_bdd_vec' = deg_bdd_vec
        /\ ijw_vec' = SolverInput(PP.method, ijw_vec)
    BY DEF FrontInv, ProblemKnown, ChooseMethod, NewSolver
  <1>2. Listing(ijw_vec') /\ Below(ijw_vec', num_node)
    BY <1>1, FullMatrixBelow
  <1>3. QED
    BY <1>1, <1>2 DEF ProblemKnown

LEMMA CallSolverKeeps == FrontInv /\ CallSolver => ProblemKnown'
  <1>1. CallSolver => UNCHANGED problem /\ phase' \notin {"bounds", "method", "solve"}
    BY DEF CallSolver, solve_bmatching_problem, ReadBeyondVectors, DeleteUnset, DeleteSolver
  <1>2. QED
    BY <1>1, EndKeeps DEF FrontInv

LEMMA BmatchMatrixKeeps == FrontInv /\ bmatch_matrix => ArgumentsKnown' /\ ProblemKnown'
  <1> SUFFICES ASSUME FrontInv, bmatch_matrix PROVE ArgumentsKnown' /\ ProblemKnown'
    OBVIOUS
  <1>1. N \in Nat /\ deg_bdd \in Texts /\ Listing(ijw_in)
    BY DEF FrontInv, ArgumentsKnown
  <1>2. /\ ijw_bdd' = ShapedBounds /\ ijw_in' \in {ijw_in, FindTriu}
        /\ phase' \in {"error", "bmatch_ijw"}
        /\ N' = N /\ deg_bdd' = deg_bdd /\ UNCHANGED problem
    BY DEF bmatch_matrix, marguments
  <1>3. Size2(ShapedBounds) \in Nat
    BY <1>1, ShapedBoundsSize
  <1>4. Listing(FindTriu)
    BY <1>1, TriuListed
  <1>5. Listing(ijw_in')
    BY <1>1, <1>2, <1>4
  <1>6. ArgumentsKnown'
    BY <1>1, <1>2, <1>3, <1>5 DEF ArgumentsKnown, Size2
  <1>7. ProblemKnown'
    BY <1>2, EndKeeps DEF FrontInv
  <1>8. QED
    BY <1>6, <1>7

LEMMA BmatchIjwMexKeeps == FrontInv /\ bmatch_ijw_mex => ProblemKnown'
  <1> SUFFICES ASSUME FrontInv, bmatch_ijw_mex PROVE ProblemKnown'
    OBVIOUS
  <1> DEFINE z == [k \in DOMAIN ijw_in |-> <<ijw_in[k][1] - 1, ijw_in[k][2] - 1, ijw_in[k][3]>>]
             n == Size2(ijw_bdd)
  <1>1. Listing(ijw_in) /\ n \in Nat
    BY DEF FrontInv, ArgumentsKnown
  <1>2. IF n < MaxIndex \/ Size1(ijw_bdd) # 2
        THEN phase' = "error" /\ UNCHANGED <<problem, object>>
        ELSE /\ num_node' = n
             /\ deg_bdd_vec' = RowMajor(ijw_bdd)
             /\ IF method \in 1 .. 5 THEN NewSolver(method, z) /\ phase' = "solve"
                ELSE ijw_vec' = z /\ phase' = "output" /\ UNCHANGED object
    BY DEF bmatch_ijw_mex
  <1>3. ~ (n < MaxIndex) => Listing(z) /\ Below(z, n)
    BY <1>1, CountedFromZero DEF MaxIndex
  <1>4. Len(RowMajor(ijw_bdd)) = n
    BY <1>1 DEF RowMajor
  <1> HIDE DEF z, n
  <1>5. CASE n < MaxIndex \/ Size1(ijw_bdd) # 2
    BY <1>2, <1>5, EndKeeps DEF FrontInv
  <1>6. CASE ~ (n < MaxIndex \/ Size1(ijw_bdd) # 2)
    <2>1. Listing(z) /\ Below(z, n)
      BY <1>3, <1>6
    <2>2. Listing(SolverInput(method, z)) /\ Below(SolverInput(method, z), n)
      BY <2>1, FullMatrixBelow
    <2>3. /\ num_node' = n /\ deg_bdd_vec' = RowMajor(ijw_bdd)
          /\ \/ ijw_vec' = SolverInput(method, z)
             \/ phase' = "output"
      BY <1>2, <1>6 DEF NewSolver
    <2>4. phase' \in {"solve", "output"}
      BY <1>2, <1>6
    <2>5. QED
      BY <1>1, <1>4, <2>2, <2>3, <2>4 DEF ProblemKnown
  <1>7. QED
    BY <1>5, <1>6

LEMMA ReturnKeeps == FrontInv /\ Return => ProblemKnown'
  <1>1. Return => UNCHANGED problem /\ phase' \in {"error", "returned"}
    BY DEF Return
  <1>2. QED
    BY <1>1, EndKeeps DEF FrontInv

LEMMA ToolKeeps == FrontInv /\ Tool => ReadsKnown' /\ ProblemKnown'
  <1> SUFFICES ASSUME FrontInv, Tool PROVE ReadsKnown' /\ ProblemKnown'
    OBVIOUS
  <1>1. ReadsKnown /\ (UNCHANGED <<stdin, files>> => ReadsKnown')
    BY DEF FrontInv, ReadsKnown
  <1>2. CASE Options
    BY <1>1, <1>2 DEF Options, ivars, problem, tvars, FrontInv, ProblemKnown
  <1>3. CASE ExitHelp
    <2>1. UNCHANGED problem /\ phase' = "exited" /\ UNCHANGED <<stdin, files>>
      BY <1>3 DEF ExitHelp, Exit
    <2>2. QED
      BY <1>1, <2>1, EndKeeps DEF FrontInv
  <1>4. CASE ReadWeights
    BY <1>4, ReadWeightsKeeps
  <1>5. CASE ConstantBounds
    BY <1>1, <1>5, ConstantBoundsKeeps DEF ConstantBounds, tvars
  <1>6. CASE ReadBounds
    BY <1>6, ReadBoundsKeeps
  <1>7. CASE ChooseMethod
    BY <1>1, <1>7, ChooseMethodKeeps DEF ChooseMethod, tvars
  <1>8. CASE RefuseMethod
    <2>1. UNCHANGED problem /\ phase' = "exited" /\ UNCHANGED <<stdin, files>>
      BY <1>8 DEF RefuseMethod, Exit
    <2>2. QED
      BY <1>1, <2>1, EndKeeps DEF FrontInv
  <1>9. CASE CallSolver /\ UNCHANGED <<pvars, tvars>>
    BY <1>1, <1>9, CallSolverKeeps DEF tvars
  <1>10. CASE WriteMatching
    <2>1. UNCHANGED problem /\ phase' = "exited" /\ UNCHANGED <<stdin, files>>
      BY <1>10 DEF WriteMatching, Exit
    <2>2. QED
      BY <1>1, <2>1, EndKeeps DEF FrontInv
  <1>11. QED
    BY <1>2, <1>3, <1>4, <1>5, <1>6, <1>7, <1>8, <1>9, <1>10 DEF Tool

LEMMA MatlabKeeps == FrontInv /\ Matlab => ArgumentsKnown' /\ ProblemKnown'
  <1> SUFFICES ASSUME FrontInv, Matlab PROVE ArgumentsKnown' /\ ProblemKnown'
    OBVIOUS
  <1>1. UNCHANGED mvars => ArgumentsKnown'
    BY DEF FrontInv, ArgumentsKnown, mvars, marguments, mcall, Size2
  <1>2. CASE bmatch_matrix
    BY <1>2, BmatchMatrixKeeps
  <1>3. CASE bmatch_ijw_mex
    BY <1>1, <1>3, BmatchIjwMexKeeps DEF bmatch_ijw_mex
  <1>4. CASE CallSolver /\ UNCHANGED mvars
    BY <1>1, <1>4, CallSolverKeeps
  <1>5. CASE Return
    <2>1. UNCHANGED <<marguments, mcall>>
      BY <1>5 DEF Return
    <2>2. ArgumentsKnown'
      BY <2>1 DEF FrontInv, ArgumentsKnown, marguments, mcall, Size2
    <2>3. QED
      BY <1>5, <2>2, ReturnKeeps
  <1>6. QED
    BY <1>2, <1>3, <1>4, <1>5 DEF Matlab

LEMMA FrontInvHolds == FSpec => []FrontInv
  <1>1. FrontInv /\ UNCHANGED mvars => ArgumentsKnown'
    BY DEF FrontInv, ArgumentsKnown, mvars, marguments, mcall, Size2
  <1>2. FrontInv /\ UNCHANGED tvars => ReadsKnown'
    BY DEF FrontInv, ReadsKnown, tvars
  <1>3. FrontInv /\ UNCHANGED allvars => FrontInv'
    <2>1. FrontInv /\ UNCHANGED allvars => ProblemKnown'
      BY DEF FrontInv, ProblemKnown, allvars, ivars, problem
    <2>2. QED
      BY <1>1, <1>2, <2>1 DEF allvars, FrontInv
  <1>4. FrontInv /\ FNext => FrontInv'
    <2>1. FrontInv /\ ToolStep => FrontInv'
      BY <1>1, ToolKeeps DEF ToolStep, FrontInv
    <2>2. FrontInv /\ MatlabStep => FrontInv'
      BY <1>2, MatlabKeeps DEF MatlabStep, FrontInv
    <2>3. QED
      BY <1>3, <2>1, <2>2 DEF FNext, Ended
  <1>5. FrontInv /\ [FNext]_allvars => FrontInv'
    BY <1>3, <1>4
  <1>6. QED
    BY <1>5, FrontInvInit, PTL DEF FSpec

-----------------------------------------------------------------------------
(****************************************************************************)
(* The invariant for the indices from below, on top of FrontInv: where the   *)
(* list counts from its first node, so does every list that is made of it.   *)
(* The tool has not touched its texts before it reads the weights.           *)
(****************************************************************************)
TextsUntouched == phase = "options" => session.front = "tool" /\ stdin = session.text /\ files = session.files

ListFromFirst ==
    CountsFromFirst =>
        /\ phase = "bmatch_ijw" => FromFirst(ijw_in, 1)
        /\ phase \in {"bounds", "method", "solve"} => FromFirst(ijw_vec, 0)

LowInv == TextsUntouched /\ ListFromFirst

LEMMA LowInvInit == FInit => LowInv
  <1> SUFFICES ASSUME FInit PROVE LowInv
    OBVIOUS
  <1>1. /\ stdin = session.text /\ files = session.files /\ ijw_in = session.list
        /\ session.front \in {"tool", "bmatch_matrix", "bmatch_ijw"}
    BY SessionAssumption DEF FInit, ToolInit, MatlabInit
  <1>2. phase = CASE session.front = "tool" -> "options"
                  [] session.front = "bmatch_matrix" -> "bmatch_matrix"
                  [] session.front = "bmatch_ijw" -> "bmatch_ijw"
    BY DEF FInit
  <1>3. \/ session.front = "tool" /\ phase = "options"
        \/ session.front = "bmatch_matrix" /\ phase = "bmatch_matrix"
        \/ session.front = "bmatch_ijw" /\ phase = "bmatch_ijw"
    BY <1>1, <1>2
  <1>4. QED
    BY <1>1, <1>3 DEF LowInv, TextsUntouched, ListFromFirst, CountsFromFirst

\* A step after which no list is to be used.
LEMMA EndKeepsLow ==
  ASSUME phase' \notin {"options", "bmatch_ijw", "bounds", "method", "solve"}
  PROVE  LowInv'
  BY DEF LowInv, TextsUntouched, ListFromFirst

\* The premise speaks of the session and of one option.
LEMMA PremiseKept ==
  ASSUME UNCHANGED <<session, PP>>
  PROVE  CountsFromFirst' <=> CountsFromFirst
  BY DEF CountsFromFirst

\* The list that the tool reads.
LEMMA ReadWeightsFrom ==
  ASSUME FrontInv, LowInv, ReadWeights, CountsFromFirst
  PROVE  FromFirst(ijw_vec', 0)
  <1> DEFINE t == Text(PP.weights)
             m == read_mn_matrix(t).rows
  <1>1. t \in Texts
    BY TextTyped DEF FrontInv
  <1>2. /\ phase = "options"
        /\ ijw_vec' = IF PP.sparse = 1 THEN ijw_read_ijw(m)
                      ELSE ijw_nnz(ijw_upper_tri(ijw_read_matrix(m), FALSE))
    BY DEF ReadWeights
  <1>3. session.front = "tool" /\ stdin = session.text /\ files = session.files
    BY <1>2 DEF LowInv, TextsUntouched
  <1>4. t \in {session.text} \cup {session.files[f] : f \in DOMAIN session.files} \/ t = <<>>
    BY <1>3 DEF Text
  <1> HIDE DEF t
  <1>5. Matrix(m) /\ \A k \in DOMAIN m : \E l \in DOMAIN t : m[k] = t[l]
    BY Zenon, <1>1, ReadBlock
  <1> HIDE DEF m
  <1>6. CASE PP.sparse = 1
    <2>1. DOMAIN <<>> = {}
      OBVIOUS
    <2>2. \A k \in DOMAIN t : Len(t[k]) = 3 => t[k][1] >= 0 /\ t[k][2] >= 0
      <3>1. CASE t = <<>>
        BY <2>1, <3>1
      <3>2. CASE t \in {session.text} \cup {session.files[f] : f \in DOMAIN session.files}
        BY Zenon, <1>3, <1>6, <3>2 DEF CountsFromFirst
      <3>3. QED
        BY Zenon, <1>4, <3>1, <3>2
    <2>3. CASE Columns(m) # 3
      BY <1>2, <1>6, <2>1, <2>3 DEF ijw_read_ijw, FromFirst
    <2>4. CASE Columns(m) = 3
      <3>1. ijw_vec' = m
        BY <1>2, <1>6, <2>4 DEF ijw_read_ijw
      <3>2. \A k \in DOMAIN m : Len(m[k]) = 3
        BY <1>5, <2>4 DEF Matrix
      <3>3. \A k \in DOMAIN m : m[k][1] >= 0 /\ m[k][2] >= 0
        BY Zenon, <1>5, <2>2, <3>2
      <3>4. QED
        BY <3>1, <3>3 DEF FromFirst
    <2>5. QED
      BY <2>3, <2>4
  <1>7. CASE PP.sparse # 1
    BY <1>2, <1>5, <1>7, WeightsListed
  <1>8. QED
    BY <1>6, <1>7

LEMMA ToolKeepsLow ==
  ASSUME FrontInv, LowInv, ToolStep
  PROVE  LowInv'
  <1>1. UNCHANGED session /\ UNCHANGED mvars
    BY DEF ToolStep
  <1>2. CASE Options
    <2>1. phase = "options" /\ phase' = "options" /\ stdin' = stdin /\ files' = files
      BY <1>2 DEF Options, ivars, tvars
    <2>2. QED
      BY <1>1, <2>1 DEF LowInv, TextsUntouched, ListFromFirst
  <1>3. CASE ExitHelp \/ RefuseMethod \/ WriteMatching
    <2>1. phase' = "exited"
      BY <1>3 DEF ExitHelp, RefuseMethod, WriteMatching, Exit
    <2>2. QED
      BY <2>1, EndKeepsLow
  <1>4. CASE ReadWeights
    <2>1. phase' = "bounds" /\ UNCHANGED <<session, PP>>
      BY <1>1, <1>4 DEF ReadWeights, pvars
    <2>2. CountsFromFirst => FromFirst(ijw_vec', 0)
      BY <1>4, ReadWeightsFrom
    <2>3. QED
      BY <2>1, <2>2, PremiseKept DEF LowInv, TextsUntouched, ListFromFirst, FromFirst
  <1>5. CASE ConstantBounds \/ ReadBounds
    <2>1. /\ phase = "bounds" /\ phase' \in {"method", "exited"}
          /\ ijw_vec' = ijw_vec /\ UNCHANGED <<session, PP>>
      BY <1>1, <1>5 DEF ConstantBounds, ReadBounds, Exit, pvars
    <2>2. QED
      BY <2>1, PremiseKept DEF LowInv, TextsUntouched, ListFromFirst, FromFirst
  <1>6. CASE ChooseMethod
    <2>1. /\ phase = "method" /\ phase' = "solve"
          /\ ijw_vec' = SolverInput(PP.method, ijw_vec) /\ UNCHANGED <<session, PP>>
      BY <1>1, <1>6 DEF ChooseMethod, NewSolver, pvars
    <2>2. CountsFromFirst => FromFirst(SolverInput(PP.method, ijw_vec), 0)
      BY <2>1, FullMatrixFrom DEF FrontInv, ProblemKnown, LowInv, ListFromFirst
    <2>3. QED
      BY <2>1, <2>2, PremiseKept DEF LowInv, TextsUntouched, ListFromFirst, FromFirst
  <1>7. CASE CallSolver
    <2>1. phase' \in {"delete", "crashed", "output"}
      BY <1>7 DEF CallSolver, solve_bmatching_problem, ReadBeyondVectors, DeleteUnset, DeleteSolver
    <2>2. QED
      BY <2>1, EndKeepsLow
  <1>8. QED
    BY <1>2, <1>3, <1>4, <1>5, <1>6, <1>7 DEF ToolStep, Tool

LEMMA MatlabKeepsLow ==
  ASSUME FrontInv, LowInv, MatlabStep
  PROVE  LowInv'
  <1>1. UNCHANGED <<session, PP>>
    BY DEF MatlabStep, pvars
  <1>2. CASE bmatch_matrix
    <2>1. phase' = "error" \/ (phase' = "bmatch_ijw" /\ ijw_in' = FindTriu)
      BY <1>2 DEF bmatch_matrix
    <2>2. FromFirst(FindTriu, 1)
      BY TriuListed DEF FrontInv, ArgumentsKnown
    <2>3. QED
      BY <2>1, <2>2 DEF LowInv, TextsUntouched, ListFromFirst, FromFirst
  <1>3. CASE bmatch_ijw_mex
    <2> DEFINE z == [k \in DOMAIN ijw_in |-> <<ijw_in[k][1] - 1, ijw_in[k][2] - 1, ijw_in[k][3]>>]
               n == Size2(ijw_bdd)
    <2>1. /\ phase = "bmatch_ijw" /\ phase' \in {"error", "output", "solve"}
          /\ phase' = "solve" => ~ (n < MaxIndex) /\ ijw_vec' = SolverInput(method, z)
      BY <1>3 DEF bmatch_ijw_mex, NewSolver
    <2>2. Listing(ijw_in) /\ n \in Nat
      BY DEF FrontInv, ArgumentsKnown
    <2>3. ~ (n < MaxIndex) => Listing(z) /\ (FromFirst(ijw_in, 1) => FromFirst(z, 0))
      BY <2>2, CountedFromZero DEF MaxIndex
    <2> HIDE DEF z, n
    <2>4. CountsFromFirst /\ phase' = "solve" => FromFirst(SolverInput(method, z), 0)
      <3>1. CountsFromFirst => FromFirst(ijw_in, 1)
        BY <2>1 DEF LowInv, ListFromFirst
      <3>2. QED
        BY <2>1, <2>3, <3>1, FullMatrixFrom
    <2>5. QED
      BY <1>1, <2>1, <2>4, PremiseKept DEF LowInv, TextsUntouched, ListFromFirst, FromFirst
  <1>4. CASE CallSolver \/ Return
    <2>1. phase' \in {"delete", "crashed", "output", "error", "returned"}
      BY <1>4 DEF CallSolver, solve_bmatching_problem, ReadBeyondVectors, DeleteUnset, DeleteSolver, Return
    <2>2. QED
      BY <2>1, EndKeepsLow
  <1>5. QED
    BY <1>2, <1>3, <1>4 DEF MatlabStep, Matlab

LEMMA LowInvHolds == FSpec => []LowInv
  <1>1. LowInv /\ UNCHANGED allvars => LowInv'
    <2>1. UNCHANGED allvars => UNCHANGED <<phase, ijw_vec, ijw_in, stdin, files, session, PP>>
      BY DEF allvars, ivars, problem, pvars, tvars, mvars, mcall
    <2>2. QED
      BY <2>1, PremiseKept DEF LowInv, TextsUntouched, ListFromFirst, FromFirst
  <1>2. FrontInv /\ LowInv /\ [FNext]_allvars => LowInv'
    BY <1>1, ToolKeepsLow, MatlabKeepsLow DEF FNext, Ended
  <1>3. QED
    BY <1>2, LowInvInit, FrontInvHolds, PTL DEF FSpec

\* What a solver takes for granted of its arguments.  A call has a pair of bounds
\* for every node and no index beyond the last node, whatever the options,
\* however long or ragged the texts, and whatever shape of bounds the tool or the
\* Matlab functions were given; it has no index before the first node either
\* when the list that was typed or passed has none.
THEOREM CallIsWellFormed == FSpec => []SolverCallIsWellFormed
  <1>1. FrontInv /\ LowInv => SolverCallIsWellFormed
    BY DEF FrontInv, ProblemKnown, LowInv, ListFromFirst, SolverCallIsWellFormed, Below
  <1>2. QED
    BY <1>1, FrontInvHolds, LowInvHolds, PTL
-----------------------------------------------------------------------------
(****************************************************************************)
(* What is meant is what is read: the options.                               *)
(****************************************************************************)
Sets(words, k, f) == k % 2 = 1 /\ words[k][1] = "option" /\ words[k][2] = f

\* v is what the first m words make of b, the value of field f before them.
LastValue(words, m, f, b, v) ==
    \/ v = b /\ \A k \in 1 .. m : ~ Sets(words, k, f)
    \/ \E k \in 1 .. m : /\ Sets(words, k, f) /\ v = Value(f, words[k + 1])
                         /\ \A l \in 1 .. m : k < l => ~ Sets(words, l, f)

Fields == {"weights", "degrees", "output", "const_u", "const_l", "sparse", "method"}

LEMMA FieldsOfRecord == DOMAIN Cleared = Fields /\ DOMAIN Defaulted = Fields
  BY DEF Cleared, Defaulted, Fields

LEMMA DefaultsArePairs == OptionPairs(Defaults) /\ Len(Defaults) = 14
  <1>1. Len(Defaults) = 14 /\ DOMAIN Defaults = 1 .. 14
    BY DEF Defaults
  <1>2. \A k \in 1 .. 14 : k = 1 \/ k = 2 \/ k = 3 \/ k = 4 \/ k = 5 \/ k = 6 \/ k = 7
                           \/ k = 8 \/ k = 9 \/ k = 10 \/ k = 11 \/ k = 12 \/ k = 13 \/ k = 14
    OBVIOUS
  <1>3. /\ \A k \in {1, 3, 5, 7, 9, 11, 13} : Defaults[k][1] = "option" /\ Defaults[k][2] \in Fields
        /\ \A k \in {2, 4, 6} : Defaults[k][1] = "text"
        /\ \A k \in {8, 10, 12, 14} : Defaults[k][2] \in Int
    BY DEF Defaults, NULL, Fields
  <1>4. \A k \in {2, 4, 6, 8, 10, 12, 14} : k % 2 # 1
    OBVIOUS
  <1>5. \A k \in 1 .. 14 : k \in {1, 3, 5, 7, 9, 11, 13} \/ k \in {2, 4, 6} \/ k \in {8, 10, 12, 14}
    BY <1>2
  <1>6. ASSUME NEW k \in 1 .. 14
        PROVE  /\ Defaults[k][1] = "number" => Defaults[k][2] \in Int
               /\ k % 2 = 1 => /\ Defaults[k][1] = "option" /\ Defaults[k][2] \in Fields
    BY <1>3, <1>4, <1>5
  <1>7. QED
    BY <1>1, <1>6, FieldsOfRecord DEF OptionPairs, Dashed

\* The string of defaults sets every field to what the help text says.
LEMMA DefaultsSetFields ==
  ASSUME NEW f \in Fields, NEW v, LastValue(Defaults, 14, f, Cleared[f], v)
  PROVE  v = Defaulted[f]
  <1>1. \A k \in 1 .. 14 : k % 2 = 1 => k \in {1, 3, 5, 7, 9, 11, 13}
    OBVIOUS
  <1>2. \A k \in {1, 3, 5, 7, 9, 11, 13} : k \in 1 .. 14 /\ k % 2 = 1 /\ Defaults[k][1] = "option"
    BY DEF Defaults
  <1>3. /\ Defaults[1][2] = "weights" /\ Defaults[2] = NULL
        /\ Defaults[3][2] = "degrees" /\ Defaults[4] = NULL
        /\ Defaults[5][2] = "output" /\ Defaults[6] = NULL
        /\ Defaults[7][2] = "const_l" /\ Defaults[8] = <<"number", -1>>
        /\ Defaults[9][2] = "const_u" /\ Defaults[10] = <<"number", -1>>
        /\ Defaults[11][2] = "sparse" /\ Defaults[12] = <<"number", 0>>
        /\ Defaults[13][2] = "method" /\ Defaults[14] = <<"number", 1>>
    BY DEF Defaults
  <1>4. \E k \in {1, 3, 5, 7, 9, 11, 13} : Defaults[k][2] = f
    BY <1>3 DEF Fields
  <1>5. \E k \in 1 .. 14 : Sets(Defaults, k, f)
    BY <1>2, <1>4 DEF Sets
  <1>6. PICK k \in 1 .. 14 : Sets(Defaults, k, f) /\ v = Value(f, Defaults[k + 1])
    BY <1>5 DEF LastValue
  <1>7. k \in {1, 3, 5, 7, 9, 11, 13} /\ Defaults[k][2] = f
    BY <1>1, <1>6 DEF Sets
  <1>8. \A b : atoi(<<"number", b>>) = b
    BY DEF atoi
  <1>9. CASE k \in {1, 3, 5}
    BY <1>3, <1>6, <1>7, <1>9 DEF Value, Defaulted
  <1>10. CASE k \in {7, 9, 11, 13}
    <2>1. \A b : \A g \in {"const_l", "const_u", "sparse", "method"} : Value(g, <<"number", b>>) = b
      BY <1>8 DEF Value
    <2>2. /\ Value("const_l", <<"number", -1>>) = -1 /\ Value("const_u", <<"number", -1>>) = -1
          /\ Value("sparse", <<"number", 0>>) = 0 /\ Value("method", <<"number", 1>>) = 1
      BY <2>1
    <2>3. Defaulted.const_l = -1 /\ Defaulted.const_u = -1 /\ Defaulted.sparse = 0 /\ Defaulted.method = 1
      BY DEF Defaulted
    <2>4. CASE k = 7
      BY <1>3, <1>6, <1>7, <2>2, <2>3, <2>4
    <2>5. CASE k = 9
      BY <1>3, <1>6, <1>7, <2>2, <2>3, <2>5
    <2>6. CASE k = 11
      BY <1>3, <1>6, <1>7, <2>2, <2>3, <2>6
    <2>7. CASE k = 13
      BY <1>3, <1>6, <1>7, <2>2, <2>3, <2>7
    <2>8. QED
      BY <1>10, <2>4, <2>5, <2>6, <2>7
  <1>11. QED
    BY <1>7, <1>9, <1>10

\* All the words make of the defaults what they ask for.
LEMMA WordsAreAsked ==
  ASSUME NEW words, OptionPairs(words), NEW f, NEW v,
         LastValue(words, Len(words), f, Defaulted[f], v)
  PROVE  v = Asked(words, f)
  <1> DEFINE S == Places(words, f)
  <1>1. Len(words) \in Nat /\ DOMAIN words = 1 .. Len(words)
    BY DEF OptionPairs
  <1>2. \A k : k \in S <=> k \in 1 .. Len(words) /\ Sets(words, k, f)
    BY <1>1 DEF Places, Sets
  <1>3. Asked(words, f) = IF S = {} THEN Defaulted[f] ELSE Value(f, words[Max(S) + 1])
    BY DEF Asked
  <1> HIDE DEF S
  <1>4. CASE S = {}
    BY <1>2, <1>3, <1>4 DEF LastValue
  <1>5. CASE S # {}
    <2>1. PICK k \in 1 .. Len(words) : /\ Sets(words, k, f) /\ v = Value(f, words[k + 1])
                                       /\ \A l \in 1 .. Len(words) : k < l => ~ Sets(words, l, f)
      BY <1>2, <1>5 DEF LastValue
    <2>2. S \in SUBSET Int /\ IsFiniteSet(S)
      <3>1. S \in SUBSET (1 .. Len(words)) /\ IsFiniteSet(1 .. Len(words))
        BY <1>1, <1>2, FS_Interval
      <3>2. IsFiniteSet(S)
        BY <3>1, FS_Subset
      <3>3. QED
        BY <1>2, <3>2
    <2>3. Max(S) \in S /\ Max(S) >= k
      BY <1>2, <1>5, <2>1, <2>2, MaxIsGreatest
    <2>4. Max(S) \in 1 .. Len(words) /\ Sets(words, Max(S), f)
      BY <1>2, <2>3
    <2>5. Max(S) = k
      BY <1>1, <2>1, <2>3, <2>4
    <2>6. QED
      BY <1>3, <1>5, <2>1, <2>5
  <1>6. QED
    BY <1>4, <1>5

\* An option and its value, or two words that change nothing.
LEMMA OneOption ==
  ASSUME NEW words, NEW m \in Nat, m % 2 = 1, NEW f, NEW b, NEW u,
         LastValue(words, m - 1, f, b, u)
  PROVE  /\ Sets(words, m, f) => LastValue(words, m + 1, f, b, Value(f, words[m + 1]))
         /\ ~ Sets(words, m, f) => LastValue(words, m + 1, f, b, u)
  <1>1. \A k : k \in 1 .. m + 1 <=> k \in 1 .. (m - 1) \/ k = m \/ k = m + 1
    OBVIOUS
  <1>2. (m + 1) % 2 # 1
    OBVIOUS
  <1>3. ~ Sets(words, m + 1, f)
    BY <1>2 DEF Sets
  <1>4. ASSUME Sets(words, m, f)
        PROVE  LastValue(words, m + 1, f, b, Value(f, words[m + 1]))
    <2>1. \A l \in 1 .. m + 1 : m < l => ~ Sets(words, l, f)
      BY <1>1, <1>3
    <2>2. m \in 1 .. m + 1
      BY <1>1
    <2>3. QED
      BY <1>4, <2>1, <2>2 DEF LastValue
  <1>5. ASSUME ~ Sets(words, m, f)
        PROVE  LastValue(words, m + 1, f, b, u)
    <2>1. CASE u = b /\ \A k \in 1 .. (m - 1) : ~ Sets(words, k, f)
      BY <1>1, <1>3, <1>5, <2>1 DEF LastValue
    <2>2. CASE \E k \in 1 .. (m - 1) : /\ Sets(words, k, f) /\ u = Value(f, words[k + 1])
                                       /\ \A l \in 1 .. (m - 1) : k < l => ~ Sets(words, l, f)
      BY <1>1, <1>3, <1>5, <2>2 DEF LastValue
    <2>3. QED
      BY <2>1, <2>2 DEF LastValue
  <1>6. QED
    BY <1>4, <1>5

\* While the options are parsed, a field has what the words before the next one
\* make of it; in the end it has what the words ask for.
Base == IF parsing = "defaults" THEN Cleared ELSE Defaulted

OptionsKnown ==
    /\ OptionPairs(arguments)
    /\ parsing \in {"defaults", "arguments", "done"}
    /\ DOMAIN PP = Fields
    /\ parsing = "defaults" => argv = Defaults
    /\ parsing = "arguments" => argv = arguments
    /\ parsing # "done" =>
          /\ i \in Nat /\ i % 2 = 1 /\ i <= Len(argv) + 1
          /\ \A f \in Fields : LastValue(argv, i - 1, f, Base[f], PP[f])
    /\ parsing = "done" => \A f \in Fields : PP[f] = Asked(arguments, f)

LEMMA NothingSet == \A words, f, b : LastValue(words, 0, f, b, b)
  BY DEF LastValue

LEMMA OddOrEven ==
  ASSUME NEW a \in Nat, NEW b \in Nat, a % 2 = 1, b % 2 = 0, a <= b + 1
  PROVE  a # b /\ (a + 2) % 2 = 1 /\ (a <= b => a + 2 <= b + 1)
  OBVIOUS

LEMMA ParseKeeps == OptionsKnown /\ Parse => OptionsKnown' /\ UNCHANGED arguments
  <1> SUFFICES ASSUME OptionsKnown, Parse PROVE OptionsKnown' /\ UNCHANGED arguments
    OBVIOUS
  <1>1. /\ OptionPairs(arguments) /\ DOMAIN PP = Fields
        /\ parsing = "defaults" => argv = Defaults
        /\ parsing = "arguments" => argv = arguments
    BY DEF OptionsKnown
  <1>2. parsing \in {"defaults", "arguments"}
    BY DEF Parse, PrintHelp, SetOption, SkipOption, EndOptions, AtOption
  <1>3. OptionPairs(argv) /\ (parsing = "defaults" => Len(argv) = 14)
    BY <1>1, <1>2, DefaultsArePairs
  <1>4. Len(argv) \in Nat /\ Len(argv) % 2 = 0 /\ DOMAIN argv = 1 .. Len(argv)
    BY <1>3 DEF OptionPairs
  <1>5. /\ i \in Nat /\ i % 2 = 1 /\ i <= Len(argv) + 1
        /\ \A f \in Fields : LastValue(argv, i - 1, f, Base[f], PP[f])
    BY <1>2 DEF OptionsKnown
  <1>6. i # Len(argv) /\ (i + 2) % 2 = 1 /\ (i <= Len(argv) => i + 2 <= Len(argv) + 1)
    <2>1. \A a, b \in Nat : a % 2 = 1 /\ b % 2 = 0 /\ a <= b + 1 =>
            a # b /\ (a + 2) % 2 = 1 /\ (a <= b => a + 2 <= b + 1)
      BY OddOrEven
    <2>2. QED
      BY Zenon, <1>4, <1>5, <2>1
  <1>7. i <= Len(argv) => /\ Dashed(argv[i]) /\ argv[i][1] # "help"
                          /\ argv[i][1] = "option" => argv[i][2] \in Fields
    <2>1. i <= Len(argv) => i \in DOMAIN argv
      BY <1>4, <1>5
    <2>2. QED
      BY <1>3, <1>5, <2>1, FieldsOfRecord DEF OptionPairs
  <1>8. ~ PrintHelp
    BY <1>6, <1>7 DEF PrintHelp, AtOption, WantsHelp
  <1>9. i <= Len(argv) => /\ i + 2 \in Nat /\ (i + 2) % 2 = 1 /\ i + 2 <= Len(argv) + 1
                          /\ (i + 2) - 1 = i + 1
    <2>1. i \in Nat
      BY <1>5
    <2>2. i + 2 \in Nat /\ (i + 2) - 1 = i + 1
      BY <2>1
    <2>3. QED
      BY Zenon, <1>6, <2>2
  <1>10. CASE SetOption
    <2> DEFINE g == argv[i][2]
               w == Value(g, argv[i + 1])
    <2>1. /\ i <= Len(argv) /\ argv[i][1] = "option" /\ g \in Fields
          /\ PP' = [PP EXCEPT ![g] = w]
          /\ i' = i + 2 /\ argv' = argv /\ arguments' = arguments /\ parsing' = parsing
      BY <1>7, <1>10 DEF SetOption, AtOption
    <2>2. /\ DOMAIN PP' = Fields /\ PP'[g] = w
          /\ \A f \in Fields : f # g => PP'[f] = PP[f]
      BY <1>1, <2>1
    <2>3. \A f \in Fields : Sets(argv, i, f) <=> f = g
      BY <1>5, <2>1 DEF Sets
    <2>4. ASSUME NEW f \in Fields
          PROVE  LastValue(argv, i + 1, f, Base[f], PP'[f])
      <3>1. LastValue(argv, i - 1, f, Base[f], PP[f])
        BY <1>5
      <3>2. /\ Sets(argv, i, f) => LastValue(argv, i + 1, f, Base[f], Value(f, argv[i + 1]))
            /\ ~ Sets(argv, i, f) => LastValue(argv, i + 1, f, Base[f], PP[f])
        BY <1>5, <3>1, OneOption
      <3>3. QED
        BY <2>2, <2>3, <3>2
    <2>5. Base' = Base
      BY <2>1 DEF Base
    <2> HIDE DEF g, w
    <2>6. QED
      BY <1>1, <1>2, <1>9, <2>1, <2>2, <2>4, <2>5 DEF OptionsKnown
  <1>11. CASE SkipOption
    <2>1. /\ i <= Len(argv) /\ argv[i][1] # "option"
          /\ i' = i + 2 /\ argv' = argv /\ arguments' = arguments /\ parsing' = parsing /\ PP' = PP
      BY <1>11 DEF SkipOption, AtOption
    <2>2. ASSUME NEW f \in Fields
          PROVE  LastValue(argv, i + 1, f, Base[f], PP[f])
      <3>1. ~ Sets(argv, i, f)
        BY <2>1 DEF Sets
      <3>2. QED
        BY <1>5, <3>1, OneOption
    <2>3. Base' = Base
      BY <2>1 DEF Base
    <2>4. QED
      BY <1>1, <1>2, <1>9, <2>1, <2>2, <2>3 DEF OptionsKnown
  <1>12. CASE EndOptions
    <2>1. /\ ~ (i <= Len(argv) /\ Dashed(argv[i]))
          /\ argv' = arguments /\ i' = 1 /\ PP' = PP /\ arguments' = arguments
          /\ parsing' = IF parsing = "defaults" THEN "arguments" ELSE "done"
      BY <1>12 DEF EndOptions
    <2>2. i - 1 = Len(argv)
      BY <1>4, <1>5, <1>7, <2>1
    <2>3. \A f \in Fields : LastValue(argv, Len(argv), f, Base[f], PP[f])
      BY <1>5, <2>2
    <2>4. CASE parsing = "defaults"
      <3>1. \A f \in Fields : PP[f] = Defaulted[f]
        BY <1>1, <1>3, <2>3, <2>4, DefaultsSetFields DEF Base
      <3>2. parsing' = "arguments" /\ Base' = Defaulted
        BY <2>1, <2>4 DEF Base
      <3>3. \A f \in Fields : LastValue(argv', 1 - 1, f, Base'[f], PP'[f])
        BY <2>1, <3>1, <3>2, NothingSet
      <3>4. Len(arguments) \in Nat
        BY <1>1 DEF OptionPairs
      <3>5. 1 \in Nat /\ 1 % 2 = 1 /\ 1 <= Len(arguments) + 1
        BY <3>4
      <3>6. QED
        BY <1>1, <2>1, <3>2, <3>3, <3>5 DEF OptionsKnown
    <2>5. CASE parsing = "arguments"
      <3>1. \A f \in Fields : PP[f] = Asked(arguments, f)
        BY <1>1, <2>3, <2>5, WordsAreAsked DEF Base
      <3>2. parsing' = "done"
        BY <2>1, <2>5
      <3>3. QED
        BY <1>1, <2>1, <3>1, <3>2 DEF OptionsKnown
    <2>6. QED
      BY <1>2, <2>4, <2>5
  <1>13. QED
    BY <1>8, <1>10, <1>11, <1>12 DEF Parse
-----------------------------------------------------------------------------
(****************************************************************************)
(* What is meant is what is read: the graph.                                 *)
(****************************************************************************)
\* Counting off the cells of an n x n matrix.
LEMMA DivMod ==
  ASSUME NEW a \in Int, NEW n \in Nat \ {0}
  PROVE  /\ a \div n \in Int /\ a % n \in 0 .. n - 1
         /\ a = n * (a \div n) + (a % n)
  OBVIOUS

LEMMA Multiples ==
  ASSUME NEW n \in Nat \ {0}, NEW x \in Int, NEW y \in Int, x < y
  PROVE  n * x \in Int /\ n * y \in Int /\ n * x + n <= n * y
  <1>1. y = x + 1 + (y - x - 1) /\ y - x - 1 \in Nat
    OBVIOUS
  <1>2. n * (y - x - 1) >= 0
    BY <1>1
  <1>3. n * y = n * x + n + n * (y - x - 1)
    BY <1>1
  <1>4. QED
    BY <1>2, <1>3

LEMMA CellCounted ==
  ASSUME NEW n \in Nat \ {0}, NEW x \in Int, NEW y \in 0 .. n - 1
  PROVE  (n * x + y) \div n = x /\ (n * x + y) % n = y
  <1> DEFINE a == n * x + y
             q == a \div n
             r == a % n
  <1>1. a \in Int /\ n * x \in Int
    OBVIOUS
  <1>2. q \in Int /\ r \in 0 .. n - 1 /\ a = n * q + r /\ n * q \in Int
    BY <1>1, DivMod
  <1>3. a = n * x + y
    OBVIOUS
  <1> HIDE DEF a, q, r
  <1>4. ~ (q < x)
    <2> SUFFICES ASSUME q < x PROVE FALSE
      OBVIOUS
    <2>1. n * q + n <= n * x
      BY <1>2, Multiples
    <2> DEFINE u == n * q
               v == n * x
    <2>2. u \in Int /\ v \in Int /\ u + n <= v /\ u + r = v + y
      BY <1>1, <1>2, <1>3, <2>1
    <2> HIDE DEF u, v
    <2>3. QED
      BY <1>2, <2>2
  <1>5. ~ (x < q)
    <2> SUFFICES ASSUME x < q PROVE FALSE
      OBVIOUS
    <2>1. n * x + n <= n * q
      BY <1>2, Multiples
    <2> DEFINE u == n * q
               v == n * x
    <2>2. u \in Int /\ v \in Int /\ v + n <= u /\ u + r = v + y
      BY <1>1, <1>2, <1>3, <2>1
    <2> HIDE DEF u, v
    <2>3. QED
      BY <1>2, <2>2
  <1>6. q = x
    BY <1>2, <1>4, <1>5
  <1>7. r = y
    <2> DEFINE v == n * x
    <2>1. v \in Int /\ v + r = v + y
      BY <1>1, <1>2, <1>3, <1>6
    <2> HIDE DEF v
    <2>2. QED
      BY <1>2, <2>1
  <1>8. QED
    BY <1>6, <1>7 DEF a, q, r

LEMMA CellsCounted ==
  ASSUME NEW n \in Nat \ {0}
  PROVE  /\ n * n \in Nat
         /\ \A k \in 1 .. n * n : (k - 1) \div n \in 0 .. n - 1 /\ (k - 1) % n \in 0 .. n - 1
         /\ \A k, l \in 1 .. n * n :
              (k - 1) \div n = (l - 1) \div n /\ (k - 1) % n = (l - 1) % n => k = l
         /\ \A x, y \in 0 .. n - 1 :
              \E k \in 1 .. n * n : (k - 1) \div n = x /\ (k - 1) % n = y
  <1> DEFINE m == n * n
             q(k) == (k - 1) \div n
             r(k) == (k - 1) % n
  <1>1. m \in Nat /\ m = n * n
    OBVIOUS
  <1> HIDE DEF m
  <1>2. \A k \in 1 .. m : q(k) \in Int /\ r(k) \in 0 .. n - 1 /\ k - 1 = n * q(k) + r(k) /\ n * q(k) \in Int
    <2> TAKE k \in 1 .. m
    <2>1. k - 1 \in Int
      BY <1>1
    <2>2. q(k) \in Int /\ r(k) \in 0 .. n - 1 /\ k - 1 = n * q(k) + r(k)
      BY <2>1, DivMod
    <2> HIDE DEF q, r
    <2>3. QED
      BY <2>2
  <1> HIDE DEF q, r
  <1>3. \A k \in 1 .. m : q(k) \in 0 .. n - 1
    <2> TAKE k \in 1 .. m
    <2> DEFINE a == q(k)
    <2>1. a \in Int /\ r(k) \in 0 .. n - 1 /\ k - 1 = n * a + r(k) /\ n * a \in Int
      BY <1>2
    <2> HIDE DEF a
    <2>2. ~ (a < 0)
      <3> SUFFICES ASSUME a < 0 PROVE FALSE
        OBVIOUS
      <3>1. n * a + n <= n * 0
        BY <2>1, Multiples
      <3>2. n * 0 = 0
        OBVIOUS
      <3> DEFINE u == n * a
      <3>3. u \in Int /\ u + n <= 0 /\ k - 1 = u + r(k)
        BY <2>1, <3>1, <3>2
      <3> HIDE DEF u
      <3>4. QED
        BY <2>1, <3>3
    <2>3. ~ (n - 1 < a)
      <3> SUFFICES ASSUME n - 1 < a PROVE FALSE
        OBVIOUS
      <3>1. n * (n - 1) + n <= n * a
        BY <2>1, Multiples
      <3>2. n * (n - 1) + n = m
        BY <1>1
      <3> DEFINE u == n * a
      <3>3. u \in Int /\ m <= u /\ k - 1 = u + r(k)
        BY <2>1, <3>1, <3>2
      <3> HIDE DEF u
      <3>4. QED
        BY <1>1, <2>1, <3>3
    <2>4. QED
      BY <2>1, <2>2, <2>3 DEF a
  <1>4. \A k, l \in 1 .. m : q(k) = q(l) /\ r(k) = r(l) => k = l
    <2> TAKE k, l \in 1 .. m
    <2>1. k - 1 = n * q(k) + r(k) /\ l - 1 = n * q(l) + r(l)
      BY <1>2
    <2>2. QED
      BY <2>1
  <1>5. ASSUME NEW x \in 0 .. n - 1, NEW y \in 0 .. n - 1
        PROVE  \E k \in 1 .. m : q(k) = x /\ r(k) = y
    <2> DEFINE v == n * x
               k == v + y + 1
    <2>1. (v + y) \div n = x /\ (v + y) % n = y
      BY CellCounted
    <2>2. v \in Nat
      OBVIOUS
    <2>3. v + n <= m
      <3>1. CASE x = n - 1
        <4>1. n * (n - 1) + n = m
          BY <1>1
        <4>2. QED
          BY <3>1, <4>1
      <3>2. CASE x < n - 1
        <4>1. n * x + n <= n * (n - 1) /\ n * (n - 1) + n = m /\ n * (n - 1) \in Int
          <5>1. x \in Int /\ n - 1 \in Int /\ n * (n - 1) + n = m /\ n * (n - 1) \in Int
            BY <1>1
          <5> HIDE DEF v
          <5>2. n * x + n <= n * (n - 1)
            BY <3>2, <5>1, Multiples
          <5>3. QED
            BY <5>1, <5>2
        <4> HIDE DEF v
        <4> DEFINE u == n * (n - 1)
        <4>2. v + n <= u /\ u + n = m /\ u \in Int
          BY <4>1 DEF v
        <4> HIDE DEF u
        <4>3. QED
          BY <1>1, <2>2, <4>2
      <3>3. QED
        BY <3>1, <3>2
    <2> HIDE DEF v
    <2>4. k \in 1 .. m /\ k - 1 = v + y
      BY <1>1, <2>2, <2>3
    <2>5. q(k) = x /\ r(k) = y
      BY <2>1, <2>4 DEF q, r
    <2> HIDE DEF k
    <2>6. QED
      BY <2>4, <2>5
  <1>6. QED
    BY <1>1, <1>2, <1>3, <1>4, <1>5 DEF q, r

LEMMA ProblemFacts ==
  ASSUME NEW p, IsProblem(p)
  PROVE  /\ p.n \in Nat \ {0} /\ p.n <= NumNode /\ p.method \in 1 .. 5
         /\ \A x \in 0 .. p.n - 1 : x \in Node
         /\ DOMAIN p.w \in SUBSET Edge
         /\ \A e \in DOMAIN p.w : /\ e = <<e[1], e[2]>> /\ e[1] \in 0 .. p.n - 1 /\ e[2] \in 0 .. p.n - 1
                                  /\ e[1] <= e[2] /\ p.w[e] \in Int /\ p.w[e] # 0
         /\ p.lb \in [Node -> Nat] /\ p.ub \in [Node -> Nat]
  <1>1. NumNode \in Nat \ {0}
    BY NumNodeAssumption
  <1>2. /\ p.n \in 1 .. NumNode /\ p.method \in 1 .. 5
        /\ \A e \in DOMAIN p.w : e \in Edge /\ e[2] < p.n /\ p.w[e] \in Int \ {0}
        /\ p.lb \in [Node -> Nat] /\ p.ub \in [Node -> Nat]
    BY DEF IsProblem
  <1>3. \A e \in Edge : e = <<e[1], e[2]>> /\ e[1] \in Node /\ e[2] \in Node /\ e[1] <= e[2]
    BY DEF Edge
  <1>4. p.n \in Nat \ {0} /\ p.n <= NumNode
    BY <1>1, <1>2
  <1>5. \A x \in 0 .. p.n - 1 : x \in Node
    BY <1>1, <1>4 DEF Node
  <1>6. \A e \in DOMAIN p.w : e[1] \in 0 .. p.n - 1 /\ e[2] \in 0 .. p.n - 1
    BY <1>1, <1>2, <1>3, <1>4 DEF Node
  <1>7. QED
    BY <1>2, <1>3, <1>4, <1>5, <1>6

\* A list with one entry for every edge says what is meant.
LEMMA ListWritten ==
  ASSUME NEW p, IsProblem(p), NEW s \in Seq(Entry), Single(s),
         \A k \in DOMAIN s : /\ <<s[k][1], s[k][2]>> \in DOMAIN p.w
                             /\ s[k][3] = p.w[<<s[k][1], s[k][2]>>],
         \A e \in DOMAIN p.w : \E k \in DOMAIN s : s[k][1] = e[1] /\ s[k][2] = e[2]
  PROVE  GraphList(s, p)
  <1>1. \A e : e \in Positions(s) <=> \E k \in DOMAIN s : e = <<s[k][1], s[k][2]>>
    BY MatrixOfList
  <1>2. \A e \in DOMAIN p.w : e = <<e[1], e[2]>>
    BY ProblemFacts
  <1>3. Positions(s) = DOMAIN p.w
    <2>1. \A e \in DOMAIN p.w : \E k \in DOMAIN s : e = <<s[k][1], s[k][2]>>
      BY <1>2
    <2>2. \A e : e \in Positions(s) <=> e \in DOMAIN p.w
      BY <1>1, <2>1
    <2>3. QED
      BY <2>2
  <1>4. ASSUME NEW e \in DOMAIN p.w
        PROVE  Total(s, e) = p.w[e]
    <2>1. PICK k \in DOMAIN s : s[k][1] = e[1] /\ s[k][2] = e[2]
      OBVIOUS
    <2>2. e = <<s[k][1], s[k][2]>>
      BY <1>2, <2>1
    <2>3. Total(s, <<s[k][1], s[k][2]>>) = s[k][3]
      BY TotalOfSingle
    <2>4. QED
      BY <2>2, <2>3
  <1>5. QED
    BY <1>3, <1>4 DEF GraphList, Entry, Single

LEMMA Shifted ==
  \A x, y, c \in Int :
    /\ (x + c = y + c) => x = y
    /\ (x + c < y + c \/ x + c = y + c) <=> x <= y
    /\ (x + c) - c = x
  OBVIOUS

\* Every cell <<a[k], b[k]>> of a matrix, in any order, with its value v[k].
CellsOf(p, q, a, b, v) ==
    /\ \A k \in 1 .. q : a[k] \in 0 .. p.n - 1 /\ b[k] \in 0 .. p.n - 1 /\ v[k] \in Int
    /\ \A k \in 1 .. q : a[k] <= b[k] => v[k] = WeightOf(p, <<a[k], b[k]>>)
    /\ \A k, l \in 1 .. q : a[k] = a[l] /\ b[k] = b[l] => k = l
    /\ \A x, y \in 0 .. p.n - 1 : \E k \in 1 .. q : a[k] = x /\ b[k] = y

\* The same, as they are written down counting from c.
Numbered(q, a, b, v, c) == [k \in 1 .. q |-> <<a[k] + c, b[k] + c, v[k]>>]

\* t is a list of the edges that starts counting from c.
ListedFrom(c, t, p) ==
    \E s : GraphList(s, p) /\ t = [k \in DOMAIN s |-> <<s[k][1] + c, s[k][2] + c, s[k][3]>>]

\* What is kept of them is a list of the edges that starts counting where the
\* matrix does.
LEMMA GraphRead ==
  ASSUME NEW p, IsProblem(p), NEW q \in Nat, NEW c \in Int, NEW a, NEW b, NEW v,
         CellsOf(p, q, a, b, v)
  PROVE  ListedFrom(c, ijw_nnz(ijw_upper_tri(Numbered(q, a, b, v, c), FALSE)), p)
  <1> DEFINE T == Int \X Int \X Int
             all == [k \in 1 .. q |-> <<a[k] + c, b[k] + c, v[k]>>]
             u == ijw_upper_tri(all, FALSE)
             t == ijw_nnz(u)
             J == {k \in DOMAIN all : all[k][1] < all[k][2] \/ (all[k][1] = all[k][2] /\ ~ FALSE)}
             K == {k \in DOMAIN u : u[k][3] # 0}
  <1>1. p.n \in Nat /\ \A k \in 1 .. q : a[k] \in Int /\ b[k] \in Int
    BY ProblemFacts DEF CellsOf
  <1>2. /\ DOMAIN all = 1 .. q
        /\ \A k \in 1 .. q : /\ all[k][1] = a[k] + c /\ all[k][2] = b[k] + c /\ all[k][3] = v[k]
                             /\ all[k] \in T
    BY <1>1 DEF CellsOf
  <1>3. all \in Seq(T)
    <2>1. \A k \in 1 .. q : all[k] \in T
      BY <1>2
    <2> HIDE DEF T
    <2>2. \A k \in 1 .. q : <<a[k] + c, b[k] + c, v[k]>> \in T
      BY <2>1
    <2>3. QED
      BY <2>2, IsASeq
  <1> HIDE DEF all
  <1>4. Single(all)
    <2> SUFFICES ASSUME NEW k \in 1 .. q, NEW l \in 1 .. q,
                        all[k][1] = all[l][1], all[k][2] = all[l][2]
                 PROVE  k = l
      BY <1>2 DEF Single
    <2>1. /\ a[k] \in Int /\ b[k] \in Int /\ a[l] \in Int /\ b[l] \in Int
          /\ a[k] + c = a[l] + c /\ b[k] + c = b[l] + c
      BY <1>1, <1>2
    <2>2. a[k] = a[l]
      BY <2>1, Shifted
    <2>3. b[k] = b[l]
      BY <2>1, Shifted
    <2>4. QED
      BY <2>2, <2>3 DEF CellsOf
  <1>5. IsSelection(u, all, J)
    <2> HIDE DEF T
    <2>1. QED
      BY <1>3, UpperTriSelects
  <1>6. \A k : k \in J <=> k \in 1 .. q /\ a[k] <= b[k]
    <2>1. \A k : k \in J <=> k \in 1 .. q /\ (all[k][1] < all[k][2] \/ all[k][1] = all[k][2])
      BY <1>2
    <2>2. ASSUME NEW k \in 1 .. q
          PROVE  (all[k][1] < all[k][2] \/ all[k][1] = all[k][2]) <=> a[k] <= b[k]
      <3>1. a[k] \in Int /\ b[k] \in Int /\ all[k][1] = a[k] + c /\ all[k][2] = b[k] + c
        BY <1>1, <1>2
      <3>2. QED
        BY <3>1, Shifted
    <2>3. QED
      BY <2>1, <2>2
  <1> HIDE DEF u, J
  <1>7. /\ u \in Seq(T) /\ Single(u)
        /\ \A k \in DOMAIN u : \E j \in J : u[k] = all[j]
        /\ \A j \in J : \E k \in DOMAIN u : u[k] = all[j]
    <2> HIDE DEF T
    <2>1. \A j \in J : j \in DOMAIN all
      BY <1>2, <1>6
    <2>2. QED
      BY <1>3, <1>4, <1>5, <2>1, SelectionEntries, SelectionSingle
  <1>8. IsSelection(t, u, K)
    BY <1>7, NnzSelects
  <1>9. \A k : k \in K <=> k \in DOMAIN u /\ u[k][3] # 0
    OBVIOUS
  <1> HIDE DEF t, K
  <1>10. /\ t \in Seq(T) /\ Single(t)
         /\ \A k \in DOMAIN t : \E l \in K : t[k] = u[l]
         /\ \A l \in K : \E k \in DOMAIN t : t[k] = u[l]
    <2> HIDE DEF T
    <2>1. QED
      BY <1>7, <1>8, <1>9, SelectionEntries, SelectionSingle
  <1>11. /\ \A k \in DOMAIN t : \E j \in 1 .. q : /\ t[k] = all[j] /\ a[j] <= b[j] /\ v[j] # 0
         /\ \A j \in 1 .. q : a[j] <= b[j] /\ v[j] # 0 => \E k \in DOMAIN t : t[k] = all[j]
    <2>1. \A j \in 1 .. q : all[j][3] = v[j]
      BY <1>2
    <2>2. ASSUME NEW k \in DOMAIN t
          PROVE  \E j \in 1 .. q : t[k] = all[j] /\ a[j] <= b[j] /\ v[j] # 0
      <3>1. PICK l \in K : t[k] = u[l]
        BY <1>10, <2>2
      <3>2. PICK j \in J : u[l] = all[j]
        BY <1>7, <1>9, <3>1
      <3>3. j \in 1 .. q /\ a[j] <= b[j] /\ u[l][3] # 0
        BY <1>6, <1>9, <3>1, <3>2
      <3>4. v[j] # 0
        BY <2>1, <3>2, <3>3
      <3>5. QED
        BY <3>1, <3>2, <3>3, <3>4
    <2>3. ASSUME NEW j \in 1 .. q, a[j] <= b[j], v[j] # 0
          PROVE  \E k \in DOMAIN t : t[k] = all[j]
      <3>1. PICK l \in DOMAIN u : u[l] = all[j]
        BY <1>6, <1>7, <2>3
      <3>2. l \in K
        BY <1>9, <2>1, <2>3, <3>1
      <3>3. QED
        BY <1>10, <3>1, <3>2
    <2>4. QED
      BY <2>2, <2>3
  <1>12. DOMAIN t = 1 .. Len(t) /\ Len(t) \in Nat
    BY <1>10, LenProperties
  <1> DEFINE s == [k \in 1 .. Len(t) |-> <<t[k][1] - c, t[k][2] - c, t[k][3]>>]
  <1>13. \A k \in DOMAIN t : /\ s[k] = <<t[k][1] - c, t[k][2] - c, t[k][3]>>
                             /\ s[k][1] = t[k][1] - c /\ s[k][2] = t[k][2] - c /\ s[k][3] = t[k][3]
    BY <1>12
  <1>14. ASSUME NEW k \in DOMAIN t
         PROVE  /\ s[k] \in Entry
                /\ t[k] = <<s[k][1] + c, s[k][2] + c, s[k][3]>>
                /\ \E j \in 1 .. q : /\ s[k][1] = a[j] /\ s[k][2] = b[j] /\ s[k][3] = v[j]
                                     /\ a[j] <= b[j] /\ v[j] # 0
    <2> HIDE DEF s
    <2>1. PICK j \in 1 .. q : t[k] = all[j] /\ a[j] <= b[j] /\ v[j] # 0
      BY <1>11
    <2>2. s[k][1] = a[j] /\ s[k][2] = b[j] /\ s[k][3] = v[j]
      <3>1. s[k][1] = t[k][1] - c /\ s[k][2] = t[k][2] - c /\ s[k][3] = t[k][3]
        BY <1>13
      <3>2. /\ t[k][1] = a[j] + c /\ t[k][2] = b[j] + c /\ t[k][3] = v[j]
            /\ a[j] \in Int /\ b[j] \in Int
        BY <1>1, <1>2, <2>1
      <3>3. QED
        BY <3>1, <3>2, Shifted
    <2>3. s[k] = <<s[k][1], s[k][2], s[k][3]>>
      BY <1>13
    <2>4. a[j] \in Node /\ b[j] \in Node /\ v[j] \in Int
      BY ProblemFacts DEF CellsOf
    <2>5. s[k] \in Entry
      BY <2>2, <2>3, <2>4 DEF Entry
    <2>6. t[k] = <<a[j] + c, b[j] + c, v[j]>>
      BY <2>1 DEF all
    <2>7. QED
      BY <2>1, <2>2, <2>5, <2>6
  <1>15. s \in Seq(Entry) /\ DOMAIN s = 1 .. Len(t)
    <2>1. \A k \in 1 .. Len(t) : <<t[k][1] - c, t[k][2] - c, t[k][3]>> \in Entry
      BY <1>12, <1>13, <1>14
    <2>2. QED
      BY <1>12, <2>1, IsASeq
  <1>16. t = [k \in DOMAIN s |-> <<s[k][1] + c, s[k][2] + c, s[k][3]>>]
    <2>1. t = [k \in 1 .. Len(t) |-> t[k]]
      BY <1>10, <1>12
    <2> HIDE DEF s
    <2>2. QED
      BY <1>12, <1>14, <1>15, <2>1
  <1> HIDE DEF s
  <1>17. Single(s)
    <2> SUFFICES ASSUME NEW k \in DOMAIN t, NEW l \in DOMAIN t,
                        s[k][1] = s[l][1], s[k][2] = s[l][2]
                 PROVE  k = l
      BY <1>12, <1>15 DEF Single
    <2>1. t[k][1] = t[l][1] /\ t[k][2] = t[l][2]
      BY <1>14
    <2>2. QED
      BY <1>10, <2>1 DEF Single
  <1>18. ASSUME NEW k \in DOMAIN s
         PROVE  <<s[k][1], s[k][2]>> \in DOMAIN p.w /\ s[k][3] = p.w[<<s[k][1], s[k][2]>>]
    <2>1. PICK j \in 1 .. q : /\ s[k][1] = a[j] /\ s[k][2] = b[j] /\ s[k][3] = v[j]
                              /\ a[j] <= b[j] /\ v[j] # 0
      BY <1>12, <1>14, <1>15
    <2>2. v[j] = WeightOf(p, <<a[j], b[j]>>)
      BY <2>1 DEF CellsOf
    <2>3. QED
      BY <2>1, <2>2 DEF WeightOf
  <1>19. ASSUME NEW e \in DOMAIN p.w
         PROVE  \E k \in DOMAIN s : s[k][1] = e[1] /\ s[k][2] = e[2]
    <2>1. /\ e = <<e[1], e[2]>> /\ e[1] \in 0 .. p.n - 1 /\ e[2] \in 0 .. p.n - 1
          /\ e[1] <= e[2] /\ p.w[e] # 0
      BY ProblemFacts
    <2>2. PICK j \in 1 .. q : a[j] = e[1] /\ b[j] = e[2]
      BY <2>1 DEF CellsOf
    <2>3. v[j] = p.w[e]
      <3>1. v[j] = WeightOf(p, <<a[j], b[j]>>)
        BY <2>1, <2>2 DEF CellsOf
      <3>2. <<a[j], b[j]>> = e
        BY <2>1, <2>2
      <3>3. QED
        BY <3>1, <3>2 DEF WeightOf
    <2>4. PICK k \in DOMAIN t : t[k] = all[j]
      BY <1>11, <2>1, <2>2, <2>3
    <2>5. s[k][1] = t[k][1] - c /\ s[k][2] = t[k][2] - c /\ all[j][1] = a[j] + c /\ all[j][2] = b[j] + c
      BY <1>2, <1>13
    <2>6. s[k][1] = a[j] /\ s[k][2] = b[j]
      <3>1. /\ s[k][1] = (a[j] + c) - c /\ s[k][2] = (b[j] + c) - c
            /\ a[j] \in Int /\ b[j] \in Int
        BY <1>1, <2>4, <2>5
      <3>2. QED
        BY <3>1
    <2>7. QED
      BY <1>12, <1>15, <2>2, <2>6
  <1>20. GraphList(s, p)
    BY SMTT(30), <1>15, <1>17, <1>18, <1>19, ListWritten
  <1>21. QED
    BY <1>16, <1>20 DEF t, u, all, Numbered, ListedFrom

\* The cells of a matrix of the graph, by rows and by columns.
LEMMA CellsOfMatrix ==
  ASSUME NEW p, IsProblem(p), NEW m \in Texts, GraphMatrix(m, p)
  PROVE  LET q == p.n * p.n
             a == [k \in 1 .. q |-> (k - 1) \div p.n]
             b == [k \in 1 .. q |-> (k - 1) % p.n]
         IN  /\ q \in Nat
             /\ CellsOf(p, q, a, b, [k \in 1 .. q |-> m[a[k] + 1][b[k] + 1]])
             /\ CellsOf(p, q, b, a, [k \in 1 .. q |-> m[b[k] + 1][a[k] + 1]])
  <1> DEFINE n == p.n
             q == n * n
             a == [k \in 1 .. q |-> (k - 1) \div n]
             b == [k \in 1 .. q |-> (k - 1) % n]
  <1>1. n \in Nat \ {0}
    BY ProblemFacts
  <1>2. /\ q \in Nat
        /\ \A k \in 1 .. q : a[k] \in 0 .. n - 1 /\ b[k] \in 0 .. n - 1
        /\ \A k, l \in 1 .. q : a[k] = a[l] /\ b[k] = b[l] => k = l
        /\ \A x, y \in 0 .. n - 1 : \E k \in 1 .. q : a[k] = x /\ b[k] = y
    <2> HIDE DEF n
    <2>1. /\ q \in Nat
          /\ \A k \in 1 .. q : (k - 1) \div n \in 0 .. n - 1 /\ (k - 1) % n \in 0 .. n - 1
          /\ \A k, l \in 1 .. q :
               (k - 1) \div n = (l - 1) \div n /\ (k - 1) % n = (l - 1) % n => k = l
          /\ \A x, y \in 0 .. n - 1 : \E k \in 1 .. q : (k - 1) \div n = x /\ (k - 1) % n = y
      BY <1>1, CellsCounted
    <2>2. \A k \in 1 .. q : a[k] = (k - 1) \div n /\ b[k] = (k - 1) % n
      OBVIOUS
    <2> HIDE DEF q, a, b
    <2>3. \A k \in 1 .. q : a[k] \in 0 .. n - 1 /\ b[k] \in 0 .. n - 1
      BY ZenonT(40), <2>1, <2>2
    <2>4. ASSUME NEW k \in 1 .. q, NEW l \in 1 .. q, a[k] = a[l], b[k] = b[l]
          PROVE  k = l
      <3>1. (k - 1) \div n = (l - 1) \div n /\ (k - 1) % n = (l - 1) % n
        BY Zenon, <2>2, <2>4
      <3>2. QED
        BY Zenon, <2>1, <3>1
    <2>5. ASSUME NEW x \in 0 .. n - 1, NEW y \in 0 .. n - 1
          PROVE  \E k \in 1 .. q : a[k] = x /\ b[k] = y
      <3>1. PICK k \in 1 .. q : (k - 1) \div n = x /\ (k - 1) % n = y
        BY Zenon, <2>1
      <3>2. a[k] = x /\ b[k] = y
        BY Zenon, <2>2, <3>1
      <3>3. QED
        BY Zenon, <3>2
    <2>6. QED
      BY Zenon, <2>1, <2>3, <2>4, <2>5
  <1>3. \A x, y \in 0 .. n - 1 : /\ m[x + 1][y + 1] \in Int
                                 /\ x <= y => m[x + 1][y + 1] = WeightOf(p, <<x, y>>)
    <2> TAKE x, y \in 0 .. n - 1
    <2>1. /\ Len(m) = n
          /\ \A x1 \in 1 .. n : /\ Len(m[x1]) = n
                                /\ \A y1 \in x1 .. n : m[x1][y1] = WeightOf(p, <<x1 - 1, y1 - 1>>)
      BY DEF GraphMatrix
    <2> HIDE DEF n
    <2>2. x + 1 \in 1 .. n /\ y + 1 \in 1 .. n /\ (x + 1) - 1 = x /\ (y + 1) - 1 = y
      BY <1>1
    <2>3. m[x + 1][y + 1] \in Int
      BY <2>1, <2>2, RowsTyped
    <2>4. x <= y => y + 1 \in (x + 1) .. n
      BY <1>1
    <2>5. x <= y => m[x + 1][y + 1] = WeightOf(p, <<x, y>>)
      BY <2>1, <2>2, <2>4
    <2>6. QED
      BY <2>3, <2>5
  <1> HIDE DEF q, a, b
  <1> DEFINE v == [k \in 1 .. q |-> m[a[k] + 1][b[k] + 1]]
             w == [k \in 1 .. q |-> m[b[k] + 1][a[k] + 1]]
  <1>4. \A k \in 1 .. q : v[k] = m[a[k] + 1][b[k] + 1] /\ w[k] = m[b[k] + 1][a[k] + 1]
    OBVIOUS
  <1> HIDE DEF n, v, w
  <1>5. \A k \in 1 .. q : /\ v[k] \in Int /\ w[k] \in Int
                          /\ a[k] <= b[k] => v[k] = WeightOf(p, <<a[k], b[k]>>)
                          /\ b[k] <= a[k] => w[k] = WeightOf(p, <<b[k], a[k]>>)
    <2> TAKE k \in 1 .. q
    <2>1. a[k] \in 0 .. n - 1 /\ b[k] \in 0 .. n - 1
      BY <1>2
    <2>2. /\ m[a[k] + 1][b[k] + 1] \in Int /\ m[b[k] + 1][a[k] + 1] \in Int
          /\ a[k] <= b[k] => m[a[k] + 1][b[k] + 1] = WeightOf(p, <<a[k], b[k]>>)
          /\ b[k] <= a[k] => m[b[k] + 1][a[k] + 1] = WeightOf(p, <<b[k], a[k]>>)
      BY Zenon, <1>3, <2>1
    <2>3. QED
      BY Zenon, <1>4, <2>2
  <1>6. CellsOf(p, q, a, b, v)
    BY <1>2, <1>5 DEF CellsOf, n
  <1>7. CellsOf(p, q, b, a, w)
    BY ZenonT(40), <1>2, <1>5 DEF CellsOf, n
  <1>8. QED
    BY <1>2, <1>6, <1>7 DEF v, w, q, a, b, n

LEMMA DenseIsMeant ==
  ASSUME NEW p, IsProblem(p), NEW m \in Texts, GraphMatrix(m, p)
  PROVE  GraphList(ijw_nnz(ijw_upper_tri(ijw_read_matrix(m), FALSE)), p)
  <1> DEFINE n == p.n
             q == n * n
             a == [k \in 1 .. q |-> (k - 1) \div n]
             b == [k \in 1 .. q |-> (k - 1) % n]
             v == [k \in 1 .. q |-> m[a[k] + 1][b[k] + 1]]
  <1>1. n \in Nat \ {0} /\ Len(m) = n /\ Len(m[1]) = n
    BY ProblemFacts DEF GraphMatrix
  <1>2. Rows(m) = n /\ Columns(m) = n
    <2>1. m # <<>>
      BY <1>1, EmptySeq
    <2>2. QED
      BY <1>1, <2>1 DEF Rows, Columns
  <1>3. q \in Nat /\ CellsOf(p, q, a, b, v)
    BY CellsOfMatrix
  <1>4. ijw_read_matrix(m) = [k \in 1 .. q |-> <<(k - 1) \div n, (k - 1) % n, m[((k - 1) \div n) + 1][((k - 1) % n) + 1]>>]
    <2> HIDE DEF n
    <2>1. QED
      BY Zenon, <1>2 DEF ijw_read_matrix, q
  <1>5. \A k \in 1 .. q : /\ a[k] = (k - 1) \div n /\ b[k] = (k - 1) % n
                          /\ v[k] = m[a[k] + 1][b[k] + 1]
    OBVIOUS
  <1> HIDE DEF n, q, a, b, v
  <1>6. \A k \in 1 .. q : a[k] + 0 = a[k] /\ b[k] + 0 = b[k]
    <2>1. \A k \in 1 .. q : a[k] \in 0 .. p.n - 1 /\ b[k] \in 0 .. p.n - 1
      BY <1>3 DEF CellsOf
    <2>2. QED
      BY <2>1
  <1>7. ijw_read_matrix(m) = Numbered(q, a, b, v, 0)
    BY ZenonT(40), <1>4, <1>5, <1>6 DEF Numbered
  <1>8. PICK s : /\ GraphList(s, p)
                 /\ ijw_nnz(ijw_upper_tri(Numbered(q, a, b, v, 0), FALSE))
                      = [k \in DOMAIN s |-> <<s[k][1] + 0, s[k][2] + 0, s[k][3]>>]
    <2>1. 0 \in Int
      OBVIOUS
    <2>2. ListedFrom(0, ijw_nnz(ijw_upper_tri(Numbered(q, a, b, v, 0), FALSE)), p)
      BY <1>3, <2>1, GraphRead
    <2>3. QED
      BY Zenon, <2>2 DEF ListedFrom
  <1>9. [k \in DOMAIN s |-> <<s[k][1] + 0, s[k][2] + 0, s[k][3]>>] = s
    <2>1. s \in Seq(Entry)
      BY <1>8 DEF GraphList, Entry
    <2>2. \A k \in DOMAIN s : <<s[k][1] + 0, s[k][2] + 0, s[k][3]>> = s[k]
      BY <2>1, EntryFacts
    <2>3. s = [k \in DOMAIN s |-> s[k]]
      BY <2>1, EntryFacts
    <2>4. QED
      BY <2>2, <2>3
  <1>10. QED
    BY <1>7, <1>8, <1>9

\* find(triu(W)): the list starts counting from 1.
LEMMA TriuIsMeant ==
  ASSUME NEW p, IsProblem(p), W \in Texts, GraphMatrix(W, p), N = p.n
  PROVE  \E s : GraphList(s, p) /\ FindTriu = FromOne(s)
  <1> DEFINE n == p.n
             q == n * n
             a == [k \in 1 .. q |-> (k - 1) \div n]
             b == [k \in 1 .. q |-> (k - 1) % n]
             w == [k \in 1 .. q |-> W[b[k] + 1][a[k] + 1]]
  <1>1. n \in Nat \ {0}
    BY ProblemFacts
  <1>2. q \in Nat /\ CellsOf(p, q, b, a, w)
    BY CellsOfMatrix
  <1>3. N = n
    OBVIOUS
  <1>4. \A k \in 1 .. q : /\ a[k] = (k - 1) \div n /\ b[k] = (k - 1) % n
                          /\ w[k] = W[b[k] + 1][a[k] + 1]
    OBVIOUS
  <1> DEFINE all == [k \in 1 .. N * N |-> <<((k - 1) % N) + 1, ((k - 1) \div N) + 1,
                                             W[((k - 1) % N) + 1][((k - 1) \div N) + 1]>>]
  <1>5. FindTriu = ijw_nnz(ijw_upper_tri(all, FALSE))
    BY DEF FindTriu
  <1> HIDE DEF n
  <1>6. all = [k \in 1 .. q |-> <<((k - 1) % n) + 1, ((k - 1) \div n) + 1,
                                 W[((k - 1) % n) + 1][((k - 1) \div n) + 1]>>]
    BY Zenon, <1>3
  <1> HIDE DEF q, a, b, w, all
  <1>7. all = Numbered(q, b, a, w, 1)
    BY Zenon, <1>4, <1>6 DEF Numbered
  <1>8. PICK s : /\ GraphList(s, p)
                 /\ ijw_nnz(ijw_upper_tri(Numbered(q, b, a, w, 1), FALSE))
                      = [k \in DOMAIN s |-> <<s[k][1] + 1, s[k][2] + 1, s[k][3]>>]
    <2>1. 1 \in Int
      OBVIOUS
    <2>2. ListedFrom(1, ijw_nnz(ijw_upper_tri(Numbered(q, b, a, w, 1), FALSE)), p)
      BY <1>2, <2>1, GraphRead
    <2>3. QED
      BY Zenon, <2>2 DEF ListedFrom
  <1>9. QED
    BY <1>5, <1>7, <1>8 DEF FromOne

\* A list is read as it is.
LEMMA SparseIsMeant ==
  ASSUME NEW p, NEW s, GraphList(s, p)
  PROVE  ijw_read_ijw(s) = s
  <1>1. s \in Seq(Entry)
    BY DEF GraphList, Entry
  <1>2. CASE s = <<>>
    BY <1>2 DEF ijw_read_ijw, Columns
  <1>3. CASE s # <<>>
    <2>1. 1 \in DOMAIN s
      BY <1>1, <1>3, EntryFacts, EmptySeq
    <2>2. s[1] = <<s[1][1], s[1][2], s[1][3]>>
      BY <1>1, <2>1, EntryFacts
    <2>3. Len(s[1]) = 3
      BY <2>2
    <2>4. QED
      BY <1>3, <2>3 DEF ijw_read_ijw, Columns
  <1>4. QED
    BY <1>2, <1>3
-----------------------------------------------------------------------------
(****************************************************************************)
(* What is meant is what is read: the blocks of a text.                      *)
(****************************************************************************)
\* Rows of the same length, none of them blank.
Rectangle(block) ==
    /\ Len(block) \in Nat
    /\ \E c \in Nat \ {0} : \A k \in 1 .. Len(block) : Len(block[k]) = c

\* A block that is held by a text is what is read, and the rest what is left.
LEMMA HeldIsRead ==
  ASSUME NEW text \in Texts, NEW block, Rectangle(block), Holds(text, block)
  PROVE  read_mn_matrix(text) = [rows |-> block, rest |-> After(text, block)]
  <1> DEFINE n == Len(block)
             l == Len(text)
             S == {k \in 1 .. l + 1 : k = l + 1 \/ text[k] = <<>>}
  <1>1. n \in Nat /\ l \in Nat
    BY RowsTyped DEF Rectangle
  <1>2. PICK c \in Nat \ {0} : \A k \in 1 .. n : Len(block[k]) = c
    BY DEF Rectangle
  <1>3. /\ n <= l /\ SubSeq(text, 1, n) = block
        /\ n = l \/ text[n + 1] = <<>>
    <2>1. CASE text = block
      <3>1. SubSeq(text, 1, l) = text
        <4>1. /\ SubSeq(text, 1, l) \in Texts
              /\ Len(SubSeq(text, 1, l)) = IF 1 <= l THEN l - 1 + 1 ELSE 0
              /\ \A k \in 1 .. l - 1 + 1 : SubSeq(text, 1, l)[k] = text[1 + k - 1]
          BY <1>1, PartOfText
        <4> DEFINE t == SubSeq(text, 1, l)
        <4> HIDE DEF t
        <4>2. t \in Texts /\ Len(t) = l /\ \A k \in 1 .. l : t[k] = text[k]
          BY <1>1, <4>1 DEF t
        <4>3. t = [k \in 1 .. l |-> t[k]] /\ text = [k \in 1 .. l |-> text[k]]
          BY <4>2, LenProperties DEF Texts
        <4>4. QED
          BY <4>2, <4>3 DEF t
      <3>2. QED
        BY <1>1, <2>1, <3>1
    <2>2. CASE /\ n < l
               /\ SubSeq(text, 1, n) = block
               /\ text[n + 1] = <<>>
      BY <1>1, <2>2
    <2>3. QED
      BY <2>1, <2>2 DEF Holds
  <1>4. \A k \in 1 .. n : block[k] = text[k]
    <2>1. \A k \in 1 .. n - 1 + 1 : SubSeq(text, 1, n)[k] = text[1 + k - 1]
      BY <1>1, <1>3, PartOfText
    <2>2. QED
      BY <1>1, <1>3, <2>1
  <1>5. \A k \in 1 .. n : Len(text[k]) = c /\ text[k] # <<>>
    <2>1. \A k \in 1 .. n : Len(text[k]) = c
      BY <1>2, <1>4
    <2>2. Len(<<>>) = 0
      OBVIOUS
    <2>3. QED
      BY <1>2, <2>1, <2>2
  <1>6. BlockLength(text) = n
    <2>1. BlockLength(text) = Min(S) - 1
      BY DEF BlockLength
    <2>2. n + 1 \in S /\ \A k \in S : k \in Int /\ n + 1 <= k
      BY <1>1, <1>3, <1>5
    <2>3. S \in SUBSET Int /\ IsFiniteSet(S)
      <3>1. IsFiniteSet(1 .. l + 1) /\ S \in SUBSET (1 .. l + 1)
        BY <1>1, FS_Interval
      <3>2. IsFiniteSet(S)
        BY <3>1, FS_Subset
      <3>3. QED
        BY <2>2, <3>2
    <2> HIDE DEF S
    <2>4. Min(S) \in S /\ \A y \in S : Min(S) <= y
      BY <2>2, <2>3, MinIsLeast
    <2>5. Min(S) = n + 1
      BY <1>1, <2>2, <2>4
    <2>6. QED
      BY <1>1, <2>1, <2>5
  <1>7. RaggedLines(text) = {}
    <2>1. \A k \in 1 .. n : Len(text[k]) = Len(text[1])
      BY <1>1, <1>5
    <2> HIDE DEF n
    <2>2. QED
      BY <1>6, <2>1 DEF RaggedLines
  <1>8. QED
    BY <1>3, <1>6, <1>7 DEF read_mn_matrix, After
-----------------------------------------------------------------------------
(****************************************************************************)
(* What is meant is what is read: the number of nodes.                       *)
(****************************************************************************)
LEMMA LastIndexFacts ==
  ASSUME NEW p, IsProblem(p)
  PROVE  /\ LastIndex(p) \in -1 .. p.n - 1
         /\ \A e \in DOMAIN p.w : e[1] <= LastIndex(p) /\ e[2] <= LastIndex(p)
         /\ LastIndex(p) # -1 => \E e \in DOMAIN p.w : e[2] = LastIndex(p)
         /\ DOMAIN p.w # {} => LastIndex(p) # -1
  <1> DEFINE E == DOMAIN p.w
             f == [e \in E |-> e[2]]
             F == {f[e] : e \in E}
             S == {-1} \cup F
  <1>1. /\ p.n \in Nat \ {0} /\ E \in SUBSET Edge
        /\ \A e \in E : e[1] \in 0 .. p.n - 1 /\ e[2] \in 0 .. p.n - 1 /\ e[1] <= e[2]
    BY ProblemFacts
  <1>2. LastIndex(p) = Max(S)
    BY DEF LastIndex
  <1>3. \A e \in E : f[e] = e[2] /\ f[e] \in F
    OBVIOUS
  <1>4. \A y \in F : \E e \in E : y = e[2]
    OBVIOUS
  <1>5. IsFiniteSet(F)
    <2>1. IsFiniteSet(E)
      BY <1>1, EdgesFinite, FS_Subset
    <2> HIDE DEF f, E
    <2>2. QED
      BY <2>1, ImageFinite
  <1> HIDE DEF f, F
  <1>6. S \in SUBSET Int /\ S # {} /\ -1 \in S /\ \A y \in S : y \in -1 .. p.n - 1
    BY <1>1, <1>4
  <1>7. IsFiniteSet(S)
    BY <1>5, FS_Singleton, FS_Union
  <1>8. \A e \in E : e[2] \in S
    BY <1>3
  <1>9. \A y \in S : y # -1 => \E e \in E : y = e[2]
    BY <1>4
  <1> HIDE DEF S
  <1>10. Max(S) \in S /\ \A y \in S : Max(S) >= y
    BY <1>6, <1>7, MaxIsGreatest
  <1>11. Max(S) \in -1 .. p.n - 1
    BY <1>6, <1>10
  <1>12. \A e \in E : e[2] <= Max(S) /\ e[1] <= Max(S) /\ Max(S) # -1
    <2> TAKE e \in E
    <2>1. e[1] \in Int /\ e[2] \in Int /\ 0 <= e[2] /\ e[1] <= e[2] /\ Max(S) \in Int /\ Max(S) >= e[2]
      BY <1>1, <1>8, <1>10, <1>11
    <2>2. QED
      BY <2>1
  <1>13. QED
    BY <1>2, <1>9, <1>10, <1>11, <1>12

\* The indices of a list of the edges.
LEMMA GraphListFacts ==
  ASSUME NEW p, IsProblem(p), NEW s, GraphList(s, p)
  PROVE  /\ s \in Seq(Entry) /\ DOMAIN s = 1 .. Len(s) /\ Len(s) \in Nat
         /\ \A k \in DOMAIN s : /\ <<s[k][1], s[k][2]>> \in DOMAIN p.w
                                /\ s[k][1] \in 0 .. LastIndex(p) /\ s[k][2] \in 0 .. LastIndex(p)
                                /\ s[k][1] <= s[k][2]
         /\ \A e \in DOMAIN p.w : \E k \in DOMAIN s : s[k][1] = e[1] /\ s[k][2] = e[2]
  <1>1. s \in Seq(Entry) /\ Positions(s) = DOMAIN p.w
    BY DEF GraphList, Entry
  <1>2. \A e : e \in DOMAIN p.w <=> \E k \in DOMAIN s : e = <<s[k][1], s[k][2]>>
    BY <1>1, MatrixOfList
  <1>3. ASSUME NEW k \in DOMAIN s
        PROVE  /\ <<s[k][1], s[k][2]>> \in DOMAIN p.w
               /\ s[k][1] \in 0 .. LastIndex(p) /\ s[k][2] \in 0 .. LastIndex(p)
               /\ s[k][1] <= s[k][2]
    <2> DEFINE e == <<s[k][1], s[k][2]>>
    <2>1. e \in DOMAIN p.w /\ e[1] = s[k][1] /\ e[2] = s[k][2]
      BY <1>2
    <2> HIDE DEF e
    <2>2. p.n \in Nat /\ e[1] \in 0 .. p.n - 1 /\ e[2] \in 0 .. p.n - 1 /\ e[1] <= e[2]
      BY <2>1, ProblemFacts
    <2>3. LastIndex(p) \in Int /\ e[1] <= LastIndex(p) /\ e[2] <= LastIndex(p)
      BY <2>1, LastIndexFacts
    <2>4. e[1] \in 0 .. LastIndex(p) /\ e[2] \in 0 .. LastIndex(p)
      BY <2>2, <2>3
    <2>5. QED
      BY <2>1, <2>2, <2>4 DEF e
  <1>4. ASSUME NEW e \in DOMAIN p.w
        PROVE  \E k \in DOMAIN s : s[k][1] = e[1] /\ s[k][2] = e[2]
    BY <1>2
  <1>5. QED
    BY <1>1, <1>3, <1>4, EntryFacts

\* The tool takes as many nodes as a list speaks of.
LEMMA NodesCounted ==
  ASSUME NEW p, IsProblem(p), NEW s, GraphList(s, p)
  PROVE  NumIjwNode(s) = LastIndex(p) + 1
  <1> DEFINE n == NumIjwNode(s)
             F == {1 + s[k][1] : k \in DOMAIN s}
             G == {1 + s[k][2] : k \in DOMAIN s}
             S == {0} \cup F \cup G
             l == LastIndex(p)
  <1>1. /\ DOMAIN s = 1 .. Len(s) /\ Len(s) \in Nat
        /\ \A k \in DOMAIN s : s[k][1] \in 0 .. l /\ s[k][2] \in 0 .. l
        /\ \A e \in DOMAIN p.w : \E k \in DOMAIN s : s[k][1] = e[1] /\ s[k][2] = e[2]
    <2>1. DOMAIN s = 1 .. Len(s) /\ Len(s) \in Nat
      BY GraphListFacts
    <2>2. \A k \in DOMAIN s : s[k][1] \in 0 .. l /\ s[k][2] \in 0 .. l
      BY GraphListFacts
    <2>3. \A e \in DOMAIN p.w : \E k \in DOMAIN s : s[k][1] = e[1] /\ s[k][2] = e[2]
      BY GraphListFacts
    <2>4. QED
      BY <2>1, <2>2, <2>3
  <1>2. l \in Int /\ l >= -1 /\ (l # -1 => \E e \in DOMAIN p.w : e[2] = l) /\ p.n \in Nat
    <2>1. p.n \in Nat
      BY ProblemFacts
    <2>2. QED
      BY <2>1, LastIndexFacts
  <1> HIDE DEF l
  <1>3. \A y \in S : y \in 0 .. l + 1
    BY <1>1, <1>2
  <1>4. IsFiniteSet(S) /\ S \in SUBSET Int /\ S # {}
    <2>1. l + 1 \in Nat
      BY <1>2
    <2>2. IsFiniteSet(0 .. l + 1)
      BY <2>1, FS_Interval
    <2>3. S \in SUBSET (0 .. l + 1)
      BY <1>3
    <2>4. IsFiniteSet(S)
      BY <2>2, <2>3, FS_Subset
    <2>5. \A y \in S : y \in Int
      BY <1>3
    <2>6. 0 \in S
      OBVIOUS
    <2> HIDE DEF S
    <2>7. QED
      BY <2>4, <2>5, <2>6
  <1>5. l + 1 \in S
    <2>1. CASE l = -1
      BY <2>1
    <2>2. CASE l # -1
      <3>1. PICK k \in DOMAIN s : s[k][2] = l
        BY <1>1, <1>2, <2>2
      <3>2. l + 1 = 1 + s[k][2]
        BY <1>2, <3>1
      <3>3. QED
        BY <3>2
    <2>3. QED
      BY <2>1, <2>2
  <1>6. n = Max(S)
    BY DEF NumIjwNode
  <1> HIDE DEF n, S
  <1>7. Max(S) \in S /\ \A y \in S : Max(S) >= y
    BY <1>4, MaxIsGreatest
  <1>8. n = l + 1
    BY <1>2, <1>3, <1>5, <1>6, <1>7
  <1>9. QED
    BY <1>8 DEF n, l

\* In Matlab the largest index counts from 1.
LEMMA LargestIndex ==
  ASSUME NEW p, IsProblem(p), DOMAIN p.w # {}, NEW s, GraphList(s, p), ijw_in = FromOne(s)
  PROVE  MaxIndex = LastIndex(p) + 1
  <1> DEFINE l == LastIndex(p)
             S == UNION {{ijw_in[k][1], ijw_in[k][2]} : k \in DOMAIN ijw_in}
  <1>1. /\ DOMAIN s = 1 .. Len(s) /\ Len(s) \in Nat
        /\ \A k \in DOMAIN s : s[k][1] \in 0 .. l /\ s[k][2] \in 0 .. l
        /\ \A e \in DOMAIN p.w : \E k \in DOMAIN s : s[k][1] = e[1] /\ s[k][2] = e[2]
    <2>1. DOMAIN s = 1 .. Len(s) /\ Len(s) \in Nat
      BY GraphListFacts
    <2>2. \A k \in DOMAIN s : s[k][1] \in 0 .. l /\ s[k][2] \in 0 .. l
      BY GraphListFacts
    <2>3. \A e \in DOMAIN p.w : \E k \in DOMAIN s : s[k][1] = e[1] /\ s[k][2] = e[2]
      BY GraphListFacts
    <2>4. QED
      BY <2>1, <2>2, <2>3
  <1>2. l \in Int /\ l >= -1 /\ (\E e \in DOMAIN p.w : e[2] = l) /\ p.n \in Nat
    <2>1. p.n \in Nat
      BY ProblemFacts
    <2>2. QED
      BY <2>1, LastIndexFacts
  <1>3. DOMAIN ijw_in = DOMAIN s /\ \A k \in DOMAIN s : ijw_in[k][1] = s[k][1] + 1 /\ ijw_in[k][2] = s[k][2] + 1
    BY DEF FromOne
  <1> HIDE DEF l
  <1>4. \A y : y \in S <=> \E k \in DOMAIN s : y = s[k][1] + 1 \/ y = s[k][2] + 1
    BY <1>3
  <1>5. MaxIndex = Max(S)
    BY DEF MaxIndex
  <1> HIDE DEF S
  <1>6. \A y \in S : y \in 0 .. l + 1
    BY <1>1, <1>2, <1>4
  <1>7. l + 1 \in S
    <2>1. PICK k \in DOMAIN s : s[k][2] = l
      BY <1>1, <1>2
    <2>2. QED
      BY <1>4, <2>1
  <1>8. IsFiniteSet(S) /\ S \in SUBSET Int
    <2>1. l + 1 \in Nat
      BY <1>2
    <2>2. IsFiniteSet(0 .. l + 1)
      BY <2>1, FS_Interval
    <2>3. S \in SUBSET (0 .. l + 1)
      BY <1>6
    <2>4. IsFiniteSet(S)
      BY <2>2, <2>3, FS_Subset
    <2>5. QED
      BY <1>6, <2>4
  <1>9. Max(S) \in S /\ \A y \in S : Max(S) >= y
    BY <1>7, <1>8, MaxIsGreatest
  <1>10. QED
    BY <1>2, <1>5, <1>6, <1>7, <1>9 DEF l
-----------------------------------------------------------------------------
(****************************************************************************)
(* What is meant is what is read: the bounds.                                *)
(****************************************************************************)
\* v has the bounds of the first n nodes.
BoundsOf(v, n, p) ==
    Len(v) = n /\ \A x \in Node : x < n => v[x + 1] = <<p.lb[x], p.ub[x]>>

\* n times the same, as options or a scalar or a pair say it.
LEMMA SameForAll ==
  ASSUME NEW p, IsProblem(p), NEW n \in Nat, n <= p.n, NEW a, NEW b,
         \A x \in Node : x < p.n => p.lb[x] = a /\ p.ub[x] = b
  PROVE  BoundsOf(init_const_degrees(n, a, b), n, p)
  <1>1. p.n \in Nat /\ \A x \in Node : x \in Nat
    BY ProblemFacts, NumNodeAssumption DEF Node
  <1>2. Len(init_const_degrees(n, a, b)) = n
    BY DEF init_const_degrees
  <1>3. \A x \in Node : x < n => /\ init_const_degrees(n, a, b)[x + 1] = <<a, b>>
                                 /\ p.lb[x] = a /\ p.ub[x] = b
    BY <1>1 DEF init_const_degrees
  <1>4. QED
    BY <1>2, <1>3 DEF BoundsOf

\* p.n times its own.
LEMMA OwnForEach ==
  ASSUME NEW p, IsProblem(p), NEW f,
         \A x \in 1 .. p.n : f[x] = <<p.lb[x - 1], p.ub[x - 1]>>
  PROVE  BoundsOf([x \in 1 .. p.n |-> f[x]], p.n, p)
  <1>1. p.n \in Nat /\ \A x \in Node : x \in Nat
    BY ProblemFacts, NumNodeAssumption DEF Node
  <1>2. \A x \in Node : x < p.n => x + 1 \in 1 .. p.n /\ (x + 1) - 1 = x
    BY <1>1
  <1>3. Len([x \in 1 .. p.n |-> f[x]]) = p.n
    BY <1>1
  <1>4. \A x \in Node : x < p.n => [y \in 1 .. p.n |-> f[y]][x + 1] = <<p.lb[x], p.ub[x]>>
    BY <1>2
  <1>5. QED
    BY <1>3, <1>4 DEF BoundsOf

\* The nodes of p, counted from 0 and from 1.
LEMMA NodesOf ==
  ASSUME NEW p, IsProblem(p)
  PROVE  /\ p.n \in Nat \ {0} /\ 0 \in Node /\ 0 < p.n
         /\ \A x \in 1 .. p.n : x - 1 \in Node /\ x - 1 < p.n
         /\ LastIndex(p) + 1 \in 0 .. p.n
         /\ \A x \in Node : p.lb[x] \in Nat /\ p.ub[x] \in Nat
  <1>1. /\ p.n \in Nat \ {0} /\ \A x \in 0 .. p.n - 1 : x \in Node
        /\ p.lb \in [Node -> Nat] /\ p.ub \in [Node -> Nat]
    BY ProblemFacts
  <1>2. LastIndex(p) \in -1 .. p.n - 1
    BY LastIndexFacts
  <1>3. QED
    BY <1>1, <1>2

\* The number of bounds and the bounds, whatever the shape.
BoundsFrom(m, n, p) ==
    /\ Rectangle(m)
    /\ Len(read_degrees(m, n)) \in n .. p.n
    /\ BoundsOf(read_degrees(m, n), Len(read_degrees(m, n)), p)

LEMMA FromConstant ==
  ASSUME NEW p, IsProblem(p), NEW m, Rectangle(m), NEW n \in 0 .. p.n, NEW a, NEW b,
         read_degrees(m, n) = init_const_degrees(n, a, b),
         \A x \in Node : x < p.n => p.lb[x] = a /\ p.ub[x] = b
  PROVE  BoundsFrom(m, n, p)
  <1>1. p.n \in Nat /\ n \in Nat /\ n <= p.n /\ n \in n .. p.n
    BY NodesOf
  <1>2. BoundsOf(init_const_degrees(n, a, b), n, p)
    BY <1>1, SameForAll
  <1>3. Len(init_const_degrees(n, a, b)) = n
    BY <1>2 DEF BoundsOf
  <1>4. QED
    BY <1>1, <1>2, <1>3 DEF BoundsFrom

LEMMA FromEach ==
  ASSUME NEW p, IsProblem(p), NEW m, Rectangle(m), NEW n \in 0 .. p.n, NEW f,
         read_degrees(m, n) = [x \in 1 .. p.n |-> f[x]],
         \A x \in 1 .. p.n : f[x] = <<p.lb[x - 1], p.ub[x - 1]>>
  PROVE  BoundsFrom(m, n, p)
  <1>1. p.n \in Nat /\ p.n \in n .. p.n
    BY NodesOf
  <1>2. BoundsOf([x \in 1 .. p.n |-> f[x]], p.n, p)
    BY OwnForEach
  <1>3. Len([x \in 1 .. p.n |-> f[x]]) = p.n
    BY <1>2 DEF BoundsOf
  <1>4. QED
    BY <1>1, <1>2, <1>3 DEF BoundsFrom

\* A matrix of r rows and c columns, and its sizes as the tool and Matlab tell.
OfSize(m, r, c) ==
    /\ r \in Nat \ {0} /\ c \in Nat \ {0}
    /\ Len(m) = r /\ \A k \in 1 .. r : Len(m[k]) = c

LEMMA Sizes ==
  ASSUME NEW m, NEW r, NEW c, OfSize(m, r, c)
  PROVE  Rectangle(m) /\ Rows(m) = r /\ Columns(m) = c /\ Size1(m) = r /\ Size2(m) = c
  <1>1. Rectangle(m)
    BY DEF Rectangle, OfSize
  <1>2. m # <<>> /\ Len(m[1]) = c
    <2>1. Len(<<>>) = 0
      OBVIOUS
    <2>2. QED
      BY <2>1 DEF OfSize
  <1>3. QED
    BY <1>1, <1>2 DEF Rows, Columns, Size1, Size2, OfSize

LEMMA ScalarRead ==
  ASSUME NEW p, IsProblem(p), NEW m \in Scalar(p), NEW n \in 0 .. p.n
  PROVE  BoundsFrom(m, n, p)
  <1>1. m = << <<p.ub[0]>> >> /\ Uniform(p) /\ NoLower(p)
    BY DEF Scalar
  <1>2. Len(m) = 1 /\ (\A k \in 1 .. 1 : Len(m[k]) = 1) /\ m[1][1] = p.ub[0]
    BY <1>1
  <1>3. Rectangle(m) /\ Rows(m) = 1 /\ Columns(m) = 1
    <2>1. OfSize(m, 1, 1)
      BY <1>2 DEF OfSize
    <2>2. QED
      BY <2>1, Sizes
  <1>4. read_degrees(m, n) = init_const_degrees(n, 0, p.ub[0])
    BY <1>2, <1>3 DEF read_degrees
  <1>5. \A x \in Node : x < p.n => p.lb[x] = 0 /\ p.ub[x] = p.ub[0]
    BY <1>1 DEF Uniform, NoLower
  <1>6. QED
    BY <1>3, <1>4, <1>5, FromConstant

LEMMA ColumnRead ==
  ASSUME NEW p, IsProblem(p), NEW m \in Column(p), NEW n \in 0 .. p.n
  PROVE  BoundsFrom(m, n, p)
  <1>1. m = [x \in 1 .. p.n |-> <<p.ub[x - 1]>>] /\ NoLower(p)
    BY DEF Column
  <1>2. p.n \in Nat \ {0} /\ \A x \in 1 .. p.n : x - 1 \in Node /\ x - 1 < p.n
    BY NodesOf
  <1>3. Len(m) = p.n /\ \A k \in 1 .. p.n : Len(m[k]) = 1 /\ m[k][1] = p.ub[k - 1]
    BY <1>1, <1>2
  <1>4. Rectangle(m) /\ Rows(m) = p.n /\ Columns(m) = 1
    <2>1. OfSize(m, p.n, 1)
      BY <1>2, <1>3 DEF OfSize
    <2>2. QED
      BY <2>1, Sizes
  <1> DEFINE f == [x \in 1 .. p.n |-> <<0, m[x][1]>>]
  <1>5. \A x \in 1 .. p.n : f[x] = <<p.lb[x - 1], p.ub[x - 1]>>
    BY <1>1, <1>2, <1>3 DEF NoLower
  <1>6. CASE p.n = 1
    <2>1. read_degrees(m, n) = init_const_degrees(n, 0, p.ub[0])
      BY <1>3, <1>4, <1>6 DEF read_degrees
    <2>2. \A x \in Node : x < p.n => p.lb[x] = 0 /\ p.ub[x] = p.ub[0]
      <3>1. \A x \in Node : x < 1 => x = 0
        BY NumNodeAssumption DEF Node
      <3>2. QED
        BY <1>1, <1>6, <3>1 DEF NoLower
    <2>3. QED
      BY <1>4, <2>1, <2>2, FromConstant
  <1>7. CASE p.n # 1
    <2>1. p.n >= n
      BY <1>2
    <2>2. read_degrees(m, n) = [x \in 1 .. p.n |-> <<0, m[x][1]>>]
      BY <1>4, <1>7, <2>1 DEF read_degrees
    <2>3. read_degrees(m, n) = [x \in 1 .. p.n |-> f[x]]
      BY <2>2
    <2> HIDE DEF f
    <2>4. QED
      BY <1>4, <1>5, <2>3, FromEach
  <1>8. QED
    BY <1>6, <1>7

LEMMA TwoColumnsRead ==
  ASSUME NEW p, IsProblem(p), NEW m \in TwoColumns(p), NEW n \in 0 .. p.n
  PROVE  BoundsFrom(m, n, p)
  <1>1. m = [x \in 1 .. p.n |-> <<p.lb[x - 1], p.ub[x - 1]>>]
    BY DEF TwoColumns
  <1>2. p.n \in Nat \ {0} /\ p.n >= n
    BY NodesOf
  <1>3. Len(m) = p.n /\ \A k \in 1 .. p.n : Len(m[k]) = 2 /\ m[k] = <<p.lb[k - 1], p.ub[k - 1]>>
    BY <1>1, <1>2
  <1>4. Rectangle(m) /\ Rows(m) = p.n /\ Columns(m) = 2
    <2>1. OfSize(m, p.n, 2)
      BY <1>2, <1>3 DEF OfSize
    <2>2. QED
      BY <2>1, Sizes
  <1>5. read_degrees(m, n) = m
    BY <1>2, <1>4 DEF read_degrees
  <1>6. m = [x \in 1 .. p.n |-> m[x]]
    BY <1>1
  <1>7. QED
    BY <1>3, <1>4, <1>5, <1>6, FromEach

LEMMA RowRead ==
  ASSUME NEW p, IsProblem(p), NEW m \in Row(p), NEW n \in 0 .. p.n, ~ (p.n = 2 /\ n <= 1)
  PROVE  BoundsFrom(m, n, p)
  <1> DEFINE row == [x \in 1 .. p.n |-> p.ub[x - 1]]
  <1>1. m = <<row>> /\ NoLower(p)
    BY DEF Row
  <1>2. p.n \in Nat \ {0} /\ p.n >= n /\ \A x \in 1 .. p.n : x - 1 \in Node /\ x - 1 < p.n
    BY NodesOf
  <1>3. Len(m) = 1 /\ m[1] = row
    BY <1>1
  <1>4. Len(row) = p.n /\ \A x \in 1 .. p.n : row[x] = p.ub[x - 1]
    BY <1>2
  <1> HIDE DEF row
  <1>5. Rectangle(m) /\ Rows(m) = 1 /\ Columns(m) = p.n
    <2>1. \A k \in 1 .. 1 : Len(m[k]) = p.n
      BY <1>3, <1>4
    <2>2. OfSize(m, 1, p.n)
      BY <1>2, <1>3, <2>1 DEF OfSize
    <2>3. QED
      BY <2>2, Sizes
  <1> DEFINE f == [x \in 1 .. p.n |-> <<0, m[1][x]>>]
  <1>6. \A x \in 1 .. p.n : f[x] = <<p.lb[x - 1], p.ub[x - 1]>>
    BY <1>1, <1>2, <1>3, <1>4 DEF NoLower
  <1>7. CASE p.n = 1
    <2>1. read_degrees(m, n) = init_const_degrees(n, 0, p.ub[0])
      BY <1>3, <1>4, <1>5, <1>7 DEF read_degrees
    <2>2. \A x \in Node : x < p.n => p.lb[x] = 0 /\ p.ub[x] = p.ub[0]
      <3>1. \A x \in Node : x < 1 => x = 0
        BY NumNodeAssumption DEF Node
      <3>2. QED
        BY <1>1, <1>7, <3>1 DEF NoLower
    <2>3. QED
      BY <1>5, <2>1, <2>2, FromConstant
  <1>8. CASE p.n # 1
    <2>1. ~ (1 >= n /\ p.n = 2)
      BY <1>2
    <2>2. read_degrees(m, n) = [x \in 1 .. p.n |-> <<0, m[1][x]>>]
      BY <1>2, <1>5, <1>8, <2>1 DEF read_degrees
    <2>3. read_degrees(m, n) = [x \in 1 .. p.n |-> f[x]]
      BY <2>2
    <2> HIDE DEF f
    <2>4. QED
      BY <1>5, <1>6, <2>3, FromEach
  <1>9. QED
    BY <1>7, <1>8

LEMMA PairsRead ==
  ASSUME NEW p, IsProblem(p), NEW m \in Pairs(p), NEW n \in 0 .. p.n, n >= 3
  PROVE  BoundsFrom(m, n, p)
  <1> DEFINE a == p.lb[0]
             b == p.ub[0]
  <1>1. Uniform(p) /\ (m = << <<a, b>> >> \/ m = << <<a>>, <<b>> >>) /\ p.n \in Nat
    BY NodesOf DEF Pairs
  <1>2. \A x \in Node : x < p.n => p.lb[x] = a /\ p.ub[x] = b
    BY <1>1 DEF Uniform
  <1>3. Rectangle(m) /\ read_degrees(m, n) = init_const_degrees(n, a, b)
    <2>1. CASE m = << <<a, b>> >>
      <3>1. Len(m) = 1 /\ (\A k \in 1 .. 1 : Len(m[k]) = 2) /\ m[1][1] = a /\ m[1][2] = b
        BY <2>1
      <3>2. Rectangle(m) /\ Rows(m) = 1 /\ Columns(m) = 2
        <4>1. OfSize(m, 1, 2)
          BY <3>1 DEF OfSize
        <4>2. QED
          BY <4>1, Sizes
      <3> HIDE DEF a, b
      <3>3. QED
        BY <1>1, <3>1, <3>2 DEF read_degrees
    <2>2. CASE m = << <<a>>, <<b>> >>
      <3>1. Len(m) = 2 /\ (\A k \in 1 .. 2 : Len(m[k]) = 1) /\ m[1][1] = a /\ m[2][1] = b
        BY <2>2
      <3>2. Rectangle(m) /\ Rows(m) = 2 /\ Columns(m) = 1
        <4>1. OfSize(m, 2, 1)
          BY <3>1 DEF OfSize
        <4>2. QED
          BY <4>1, Sizes
      <3> HIDE DEF a, b
      <3>3. QED
        BY <1>1, <3>1, <3>2 DEF read_degrees
    <2>3. QED
      BY <1>1, <2>1, <2>2
  <1>4. QED
    BY <1>2, <1>3, FromConstant

\* Every shape the tool's user may write the bounds in, for as many nodes as
\* the list speaks of.
LEMMA ToolShapesRead ==
  ASSUME NEW p, IsProblem(p), NEW m \in ToolShapes(p)
  PROVE  BoundsFrom(m, LastIndex(p) + 1, p)
  <1> DEFINE n == LastIndex(p) + 1
  <1>1. n \in 0 .. p.n /\ LastIndex(p) \in Int /\ p.n \in Nat
    <2>1. LastIndex(p) \in -1 .. p.n - 1
      BY LastIndexFacts
    <2>2. QED
      BY <2>1, NodesOf
  <1>2. /\ (p.n = 2 /\ LastIndex(p) <= 0) <=> (p.n = 2 /\ n <= 1)
        /\ LastIndex(p) >= 2 <=> n >= 3
    BY <1>1
  <1> HIDE DEF n
  <1>3. \/ m \in Scalar(p) \/ m \in Column(p) \/ m \in TwoColumns(p)
        \/ m \in Row(p) /\ ~ (p.n = 2 /\ n <= 1)
        \/ m \in Pairs(p) /\ n >= 3
    BY <1>2 DEF ToolShapes
  <1>4. BoundsFrom(m, n, p)
    BY <1>1, <1>3, ScalarRead, ColumnRead, TwoColumnsRead, RowRead, PairsRead
  <1>5. QED
    BY <1>4 DEF n

\* A row of the lower and a row of the upper bounds.
RowsMeant(b, p) ==
    /\ b # <<>> /\ Size1(b) = 2 /\ Size2(b) = p.n
    /\ \A x \in 1 .. p.n : b[1][x] = p.lb[x - 1] /\ b[2][x] = p.ub[x - 1]

\* The mex function makes pairs of them.
LEMMA PairsOfRows ==
  ASSUME NEW p, IsProblem(p), NEW b, RowsMeant(b, p)
  PROVE  BoundsOf(RowMajor(b), p.n, p)
  <1> DEFINE f == [x \in 1 .. p.n |-> <<b[1][x], b[2][x]>>]
  <1>1. Size2(b) = p.n /\ \A x \in 1 .. p.n : b[1][x] = p.lb[x - 1] /\ b[2][x] = p.ub[x - 1]
    BY DEF RowsMeant
  <1>2. \A x \in 1 .. p.n : f[x] = <<p.lb[x - 1], p.ub[x - 1]>>
    BY <1>1
  <1>3. RowMajor(b) = [x \in 1 .. p.n |-> f[x]]
    BY <1>1 DEF RowMajor
  <1> HIDE DEF f
  <1>4. QED
    BY <1>2, <1>3, OwnForEach

LEMMA TwoRowsMeant ==
  ASSUME NEW p, IsProblem(p), NEW b \in TwoRows(p)
  PROVE  RowsMeant(b, p)
  <1> DEFINE u == [x \in 1 .. p.n |-> p.lb[x - 1]]
             v == [x \in 1 .. p.n |-> p.ub[x - 1]]
  <1>1. b = <<u, v>>
    BY DEF TwoRows
  <1>2. p.n \in Nat \ {0}
    BY NodesOf
  <1>3. /\ Len(u) = p.n /\ Len(v) = p.n
        /\ \A x \in 1 .. p.n : u[x] = p.lb[x - 1] /\ v[x] = p.ub[x - 1]
    BY <1>2
  <1> HIDE DEF u, v
  <1>4. Len(b) = 2 /\ b[1] = u /\ b[2] = v /\ b # <<>>
    BY <1>1
  <1>5. Size1(b) = 2 /\ Size2(b) = p.n
    BY <1>3, <1>4 DEF Size1, Size2
  <1>6. QED
    BY <1>3, <1>4, <1>5 DEF RowsMeant

\* No lower bounds, and upper bounds one by one.
LEMMA ZerosAbove ==
  ASSUME NEW p, IsProblem(p), NoLower(p), NEW v,
         \A x \in 1 .. p.n : v[x] = p.ub[x - 1]
  PROVE  RowsMeant(<<[x \in 1 .. p.n |-> 0], v>>, p)
  <1> DEFINE u == [x \in 1 .. p.n |-> 0]
             b == <<u, v>>
  <1>1. p.n \in Nat \ {0} /\ \A x \in 1 .. p.n : x - 1 \in Node /\ x - 1 < p.n
    BY NodesOf
  <1>2. Len(u) = p.n /\ \A x \in 1 .. p.n : u[x] = p.lb[x - 1]
    BY <1>1 DEF NoLower
  <1> HIDE DEF u
  <1>3. Len(b) = 2 /\ b[1] = u /\ b[2] = v /\ b # <<>>
    OBVIOUS
  <1> HIDE DEF b
  <1>4. Size1(b) = 2 /\ Size2(b) = p.n
    BY <1>2, <1>3 DEF Size1, Size2
  <1>5. RowsMeant(b, p)
    BY <1>2, <1>3, <1>4 DEF RowsMeant
  <1>6. QED
    BY <1>5 DEF b, u

\* m(:)' of a row and of a column.
LEMMA RowFlat ==
  ASSUME NEW m, NEW n \in Nat \ {0}, OfSize(m, 1, n)
  PROVE  numel(m) = n /\ \A k \in 1 .. n : Flat(m)[k] = m[1][k]
  <1>1. Size1(m) = 1 /\ Size2(m) = n
    BY Sizes
  <1>2. numel(m) = n
    BY <1>1 DEF numel
  <1>3. \A k \in 1 .. n : (k - 1) % 1 = 0 /\ (k - 1) \div 1 = k - 1
    OBVIOUS
  <1>4. \A k \in 1 .. n : Flat(m)[k] = m[((k - 1) % 1) + 1][((k - 1) \div 1) + 1]
    BY <1>1, <1>2 DEF Flat
  <1>5. \A k \in 1 .. n : ((k - 1) % 1) + 1 = 1 /\ ((k - 1) \div 1) + 1 = k
    BY <1>3
  <1>6. QED
    BY Zenon, <1>2, <1>4, <1>5

LEMMA ColumnFlat ==
  ASSUME NEW m, NEW n \in Nat \ {0}, OfSize(m, n, 1)
  PROVE  numel(m) = n /\ \A k \in 1 .. n : Flat(m)[k] = m[k][1]
  <1>1. Size1(m) = n /\ Size2(m) = 1
    BY Sizes
  <1>2. numel(m) = n
    BY <1>1 DEF numel
  <1>3. \A k \in 1 .. n : ((k - 1) \div n) + 1 = 1 /\ ((k - 1) % n) + 1 = k
    <2> TAKE k \in 1 .. n
    <2>1. k - 1 \in 0 .. n - 1 /\ 0 \in Int
      OBVIOUS
    <2>2. (n * 0 + (k - 1)) \div n = 0 /\ (n * 0 + (k - 1)) % n = k - 1
      BY <2>1, CellCounted
    <2>3. n * 0 + (k - 1) = k - 1
      OBVIOUS
    <2>4. (k - 1) \div n = 0 /\ (k - 1) % n = k - 1
      BY Zenon, <2>2, <2>3
    <2>5. QED
      BY <2>1, <2>4
  <1>4. \A k \in 1 .. n : Flat(m)[k] = m[((k - 1) % n) + 1][((k - 1) \div n) + 1]
    BY Zenon, <1>1, <1>2 DEF Flat
  <1>5. QED
    BY Zenon, <1>2, <1>3, <1>4

LEMMA VectorShaped ==
  ASSUME NEW p, IsProblem(p), NoLower(p), N = p.n, numel(deg_bdd) = p.n, p.n # 1,
         \A k \in 1 .. p.n : Flat(deg_bdd)[k] = p.ub[k - 1]
  PROVE  RowsMeant(ShapedBounds, p)
  <1>1. ShapedBounds = <<[x \in 1 .. p.n |-> 0], Flat(deg_bdd)>>
    BY DEF ShapedBounds
  <1> DEFINE v == Flat(deg_bdd)
  <1>2. \A x \in 1 .. p.n : v[x] = p.ub[x - 1]
    OBVIOUS
  <1> HIDE DEF v
  <1>3. RowsMeant(<<[x \in 1 .. p.n |-> 0], v>>, p)
    BY <1>2, ZerosAbove
  <1>4. QED
    BY <1>1, <1>3 DEF v

LEMMA ScalarShaped ==
  ASSUME NEW p, IsProblem(p), NoLower(p), N = p.n, numel(deg_bdd) = 1,
         \A x \in 1 .. p.n : p.ub[x - 1] = deg_bdd[1][1]
  PROVE  RowsMeant(ShapedBounds, p)
  <1> DEFINE v == [x \in 1 .. p.n |-> deg_bdd[1][1]]
  <1>1. ShapedBounds = <<[x \in 1 .. p.n |-> 0], v>>
    BY DEF ShapedBounds
  <1>2. \A x \in 1 .. p.n : v[x] = p.ub[x - 1]
    OBVIOUS
  <1> HIDE DEF v
  <1>3. RowsMeant(<<[x \in 1 .. p.n |-> 0], v>>, p)
    BY <1>2, ZerosAbove
  <1>4. QED
    BY <1>1, <1>3

\* Every shape bmatch_matrix knows becomes the two rows.
LEMMA MatlabShapesRead ==
  ASSUME NEW p, IsProblem(p), N = p.n, deg_bdd \in MatlabShapes(p)
  PROVE  RowsMeant(ShapedBounds, p)
  <1>1. p.n \in Nat \ {0} /\ 0 \in Node /\ \A x \in 1 .. p.n : x - 1 \in Node /\ x - 1 < p.n
    BY NodesOf
  <1>2. CASE deg_bdd \in Scalar(p)
    <2>1. deg_bdd = << <<p.ub[0]>> >> /\ Uniform(p) /\ NoLower(p)
      BY <1>2 DEF Scalar
    <2>2. Len(deg_bdd) = 1 /\ (\A k \in 1 .. 1 : Len(deg_bdd[k]) = 1) /\ deg_bdd[1][1] = p.ub[0]
      BY <2>1
    <2>3. OfSize(deg_bdd, 1, 1)
      BY <2>2 DEF OfSize
    <2>4. numel(deg_bdd) = 1
      BY <2>3, RowFlat
    <2>5. \A x \in 1 .. p.n : p.ub[x - 1] = deg_bdd[1][1]
      BY <1>1, <2>1, <2>2 DEF Uniform
    <2>6. QED
      BY <2>1, <2>4, <2>5, ScalarShaped
  <1>3. CASE deg_bdd \in Column(p)
    <2>1. deg_bdd = [x \in 1 .. p.n |-> <<p.ub[x - 1]>>] /\ NoLower(p)
      BY <1>3 DEF Column
    <2>2. Len(deg_bdd) = p.n /\ \A k \in 1 .. p.n : Len(deg_bdd[k]) = 1 /\ deg_bdd[k][1] = p.ub[k - 1]
      BY <1>1, <2>1
    <2>3. OfSize(deg_bdd, p.n, 1)
      BY <1>1, <2>2 DEF OfSize
    <2>4. numel(deg_bdd) = p.n /\ \A k \in 1 .. p.n : Flat(deg_bdd)[k] = deg_bdd[k][1]
      BY <1>1, <2>3, ColumnFlat
    <2>5. \A k \in 1 .. p.n : Flat(deg_bdd)[k] = p.ub[k - 1]
      BY <2>2, <2>4
    <2>6. CASE p.n = 1
      <3>1. \A x \in 1 .. p.n : p.ub[x - 1] = deg_bdd[1][1]
        BY <1>1, <2>2, <2>6
      <3>2. QED
        BY <2>1, <2>4, <2>6, <3>1, ScalarShaped
    <2>7. CASE p.n # 1
      BY <2>1, <2>4, <2>5, <2>7, VectorShaped
    <2>8. QED
      BY <2>6, <2>7
  <1>4. CASE deg_bdd \in Row(p)
    <2> DEFINE row == [x \in 1 .. p.n |-> p.ub[x - 1]]
    <2>1. deg_bdd = <<row>> /\ NoLower(p)
      BY <1>4 DEF Row
    <2>2. Len(row) = p.n /\ \A k \in 1 .. p.n : row[k] = p.ub[k - 1]
      BY <1>1
    <2> HIDE DEF row
    <2>3. Len(deg_bdd) = 1 /\ deg_bdd[1] = row
      BY <2>1
    <2>4. OfSize(deg_bdd, 1, p.n)
      BY <1>1, <2>2, <2>3 DEF OfSize
    <2>5. numel(deg_bdd) = p.n /\ \A k \in 1 .. p.n : Flat(deg_bdd)[k] = deg_bdd[1][k]
      BY <1>1, <2>4, RowFlat
    <2>6. \A k \in 1 .. p.n : Flat(deg_bdd)[k] = p.ub[k - 1]
      BY <2>2, <2>3, <2>5
    <2>7. CASE p.n = 1
      <3>1. \A x \in 1 .. p.n : p.ub[x - 1] = deg_bdd[1][1]
        BY <1>1, <2>2, <2>3, <2>7
      <3>2. QED
        BY <2>1, <2>5, <2>7, <3>1, ScalarShaped
    <2>8. CASE p.n # 1
      BY <2>1, <2>5, <2>6, <2>8, VectorShaped
    <2>9. QED
      BY <2>7, <2>8
  <1>5. CASE deg_bdd \in TwoRows(p)
    <2>1. RowsMeant(deg_bdd, p)
      BY <1>5, TwoRowsMeant
    <2>2. Size1(deg_bdd) = 2 /\ Size2(deg_bdd) = p.n
      BY <2>1 DEF RowsMeant
    <2>3. numel(deg_bdd) = 2 * p.n
      BY <2>2 DEF numel
    <2>4. 2 * p.n # 1 /\ 2 * p.n # p.n
      BY <1>1
    <2>5. ShapedBounds = deg_bdd
      BY <2>2, <2>3, <2>4 DEF ShapedBounds
    <2>6. QED
      BY <2>1, <2>5
  <1>6. CASE deg_bdd \in TwoColumns(p) /\ p.n # 2
    <2>1. deg_bdd = [x \in 1 .. p.n |-> <<p.lb[x - 1], p.ub[x - 1]>>]
      BY <1>6 DEF TwoColumns
    <2>2. /\ Len(deg_bdd) = p.n
          /\ \A k \in 1 .. p.n : /\ Len(deg_bdd[k]) = 2
                                 /\ deg_bdd[k][1] = p.lb[k - 1] /\ deg_bdd[k][2] = p.ub[k - 1]
      BY <1>1, <2>1
    <2>3. OfSize(deg_bdd, p.n, 2)
      BY <1>1, <2>2 DEF OfSize
    <2>4. Size1(deg_bdd) = p.n /\ Size2(deg_bdd) = 2
      BY <2>3, Sizes
    <2>5. numel(deg_bdd) = 2 * p.n
      BY <1>1, <2>4 DEF numel
    <2>6. 2 * p.n # 1 /\ 2 * p.n # p.n
      BY <1>1
    <2> DEFINE t == Transpose(deg_bdd)
    <2>7. ShapedBounds = t
      BY <1>6, <2>4, <2>5, <2>6 DEF ShapedBounds
    <2>8. t = [c \in 1 .. 2 |-> [r \in 1 .. p.n |-> deg_bdd[r][c]]]
      BY <2>4 DEF Transpose
    <2> HIDE DEF t
    <2>9. t[1] = [r \in 1 .. p.n |-> deg_bdd[r][1]] /\ t[2] = [r \in 1 .. p.n |-> deg_bdd[r][2]] /\ Len(t) = 2
      BY <2>8
    <2>10. Len(t[1]) = p.n /\ \A x \in 1 .. p.n : t[1][x] = p.lb[x - 1] /\ t[2][x] = p.ub[x - 1]
      BY <1>1, <2>2, <2>9
    <2>11. t # <<>>
      BY <2>9
    <2>12. RowsMeant(t, p)
      BY <2>9, <2>10, <2>11 DEF RowsMeant, Size1, Size2
    <2>13. QED
      BY <2>7, <2>12
  <1>7. QED
    BY <1>2, <1>3, <1>4, <1>5, <1>6 DEF MatlabShapes
-----------------------------------------------------------------------------
(****************************************************************************)
(* What the solver is given: the list, or for belief propagation the matrix  *)
(* with both its triangles.                                                  *)
(****************************************************************************)
LEMMA ListMeant ==
  ASSUME NEW p, IsProblem(p), NEW s, GraphList(s, p)
  PROVE  /\ s \in Seq(Entry)
         /\ \A e \in Edge : Total(s, e) = WeightOf(p, e)
         /\ HasNegativeWeight(s) => \E e \in DOMAIN p.w : p.w[e] < 0
  <1>1. s \in Seq(Entry) /\ Positions(s) = DOMAIN p.w /\ \A e \in DOMAIN p.w : Total(s, e) = p.w[e]
    BY DEF GraphList, Entry
  <1>2. ASSUME NEW e \in Edge
        PROVE  Total(s, e) = WeightOf(p, e)
    <2>1. CASE e \in DOMAIN p.w
      BY <1>1, <2>1 DEF WeightOf
    <2>2. CASE e \notin DOMAIN p.w
      <3>1. e = <<e[1], e[2]>>
        BY DEF Edge
      <3>2. Total(s, e) = 0
        BY <1>1, <2>2, <3>1, TotalFacts
      <3>3. QED
        BY <2>2, <3>2 DEF WeightOf
    <2>3. QED
      BY <2>1, <2>2
  <1>3. HasNegativeWeight(s) => \E e \in DOMAIN p.w : p.w[e] < 0
    <2> SUFFICES ASSUME NEW k \in DOMAIN s, s[k][3] < 0 PROVE \E e \in DOMAIN p.w : p.w[e] < 0
      BY DEF HasNegativeWeight
    <2>1. p.w[<<s[k][1], s[k][2]>>] < 0
      BY DEF GraphList
    <2>2. <<s[k][1], s[k][2]>> \in DOMAIN p.w
      BY GraphListFacts
    <2>3. QED
      BY <2>1, <2>2
  <1>4. QED
    BY <1>1, <1>2, <1>3

\* The cells of the whole matrix that are not zero.
BothWays(p) == DOMAIN p.w \cup {<<e[2], e[1]>> : e \in DOMAIN p.w}

LEMMA BothWaysFacts ==
  ASSUME NEW p, IsProblem(p)
  PROVE  /\ BothWays(p) \in SUBSET Cell
         /\ \A c \in BothWays(p) : /\ EdgeOf(c[1], c[2]) \in DOMAIN p.w
                                   /\ c[1] <= LastIndex(p)
         /\ \A e \in DOMAIN p.w : e \in BothWays(p) /\ <<e[2], e[1]>> \in BothWays(p)
  <1>1. \A e \in DOMAIN p.w : /\ e = <<e[1], e[2]>> /\ e[1] \in Node /\ e[2] \in Node
                              /\ e[1] \in Int /\ e[2] \in Int /\ e[1] <= e[2]
                              /\ e[1] <= LastIndex(p) /\ e[2] <= LastIndex(p)
    BY ProblemFacts, LastIndexFacts
  <1>2. ASSUME NEW c \in BothWays(p)
        PROVE  c \in Cell /\ EdgeOf(c[1], c[2]) \in DOMAIN p.w /\ c[1] <= LastIndex(p)
    <2>1. PICK e \in DOMAIN p.w : c = e \/ c = <<e[2], e[1]>>
      BY DEF BothWays
    <2>2. (c[1] = e[1] /\ c[2] = e[2]) \/ (c[1] = e[2] /\ c[2] = e[1])
      BY <2>1
    <2>3. c \in Cell /\ c[1] <= LastIndex(p)
      BY <1>1, <2>1, <2>2 DEF Cell
    <2>4. EdgeOf(c[1], c[2]) = e
      BY <1>1, <2>2 DEF EdgeOf
    <2>5. QED
      BY <2>3, <2>4
  <1>3. QED
    BY <1>2 DEF BothWays

LEMMA WholeMatrixMeant ==
  ASSUME NEW p, IsProblem(p), p.method = 5, NEW s, GraphList(s, p)
  PROVE  LET b == ijw_add_upper_tri_transpose(s, TRUE)
         IN  /\ b \in Seq(Entry) /\ Single(b) /\ Positions(b) = BothWays(p)
             /\ \A e \in Edge : Total(b, e) = WeightOf(p, e) /\ Total(b, <<e[2], e[1]>>) = WeightOf(p, e)
             /\ HasNegativeWeight(b) => \E e \in DOMAIN p.w : p.w[e] < 0
  <1> DEFINE b == ijw_add_upper_tri_transpose(s, TRUE)
  <1>1. /\ s \in Seq(Entry)
        /\ \A e \in Edge : Total(s, e) = WeightOf(p, e)
        /\ HasNegativeWeight(s) => \E e \in DOMAIN p.w : p.w[e] < 0
    BY ListMeant
  <1>2. IsUpper(s)
    BY <1>1, GraphListFacts DEF IsUpper, GraphList, Single
  <1>3. /\ b \in Seq(Entry) /\ Single(b)
        /\ \A q \in DOMAIN b : \E k \in DOMAIN s :
             b[q] = s[k] \/ b[q] = <<s[k][2], s[k][1], s[k][3]>>
        /\ \A k \in DOMAIN s :
             /\ \E q \in DOMAIN b : b[q] = s[k]
             /\ \E q \in DOMAIN b : b[q] = <<s[k][2], s[k][1], s[k][3]>>
    BY <1>2, BothTriangles
  <1> HIDE DEF b
  <1>4. \A k \in DOMAIN s : <<s[k][1], s[k][2]>> \in DOMAIN p.w
    BY GraphListFacts
  <1>5. \A e \in DOMAIN p.w : \E k \in DOMAIN s : s[k][1] = e[1] /\ s[k][2] = e[2]
    BY GraphListFacts
  <1>6. \A c : c \in Positions(b) <=> \E q \in DOMAIN b : c = <<b[q][1], b[q][2]>>
    BY <1>3, MatrixOfList
  <1>7. ASSUME NEW c \in Positions(b)
        PROVE  c \in BothWays(p)
    <2>1. PICK q \in DOMAIN b : c = <<b[q][1], b[q][2]>>
      BY <1>6
    <2>2. PICK k \in DOMAIN s : b[q] = s[k] \/ b[q] = <<s[k][2], s[k][1], s[k][3]>>
      BY <1>3
    <2> DEFINE e == <<s[k][1], s[k][2]>>
    <2>3. e \in DOMAIN p.w
      BY <1>4
    <2>4. c = e \/ c = <<e[2], e[1]>>
      BY <2>1, <2>2
    <2> HIDE DEF e
    <2>5. QED
      BY <2>3, <2>4, BothWaysFacts
  <1>8. ASSUME NEW e \in DOMAIN p.w
        PROVE  /\ e \in Positions(b) /\ <<e[2], e[1]>> \in Positions(b)
               /\ Total(b, e) = p.w[e] /\ Total(b, <<e[2], e[1]>>) = p.w[e]
    <2>1. PICK k \in DOMAIN s : s[k][1] = e[1] /\ s[k][2] = e[2]
      BY <1>5
    <2>2. e = <<e[1], e[2]>> /\ e \in Edge
      BY ProblemFacts
    <2>3. Total(s, <<s[k][1], s[k][2]>>) = s[k][3]
      BY <1>2, TotalOfSingle DEF IsUpper
    <2>4. s[k][3] = p.w[e]
      <3>1. Total(s, e) = p.w[e]
        BY <1>1, <2>2 DEF WeightOf
      <3>2. <<s[k][1], s[k][2]>> = e
        BY <2>1, <2>2
      <3>3. QED
        BY <2>3, <3>1, <3>2
    <2>5. PICK q \in DOMAIN b : b[q] = s[k]
      BY <1>3
    <2>6. PICK r \in DOMAIN b : b[r] = <<s[k][2], s[k][1], s[k][3]>>
      BY <1>3
    <2>7. /\ <<b[q][1], b[q][2]>> = e /\ b[q][3] = p.w[e]
          /\ <<b[r][1], b[r][2]>> = <<e[2], e[1]>> /\ b[r][3] = p.w[e]
      BY <2>1, <2>2, <2>4, <2>5, <2>6
    <2>8. /\ Total(b, <<b[q][1], b[q][2]>>) = b[q][3]
          /\ Total(b, <<b[r][1], b[r][2]>>) = b[r][3]
      BY <1>3, TotalOfSingle
    <2>9. e \in Positions(b) /\ <<e[2], e[1]>> \in Positions(b)
      BY <1>6, <2>7
    <2>10. QED
      BY <2>7, <2>8, <2>9
  <1>9. Positions(b) = BothWays(p)
    BY <1>7, <1>8 DEF BothWays
  <1>10. ASSUME NEW e \in Edge
         PROVE  Total(b, e) = WeightOf(p, e) /\ Total(b, <<e[2], e[1]>>) = WeightOf(p, e)
    <2>1. CASE e \in DOMAIN p.w
      BY <1>8, <2>1 DEF WeightOf
    <2>2. CASE e \notin DOMAIN p.w
      <3>1. e = <<e[1], e[2]>> /\ e[1] \in Int /\ e[2] \in Int /\ e[1] <= e[2]
        BY NumNodeAssumption DEF Edge, Node
      <3>2. EdgeOf(e[1], e[2]) = e /\ EdgeOf(e[2], e[1]) = e
        BY <3>1 DEF EdgeOf
      <3> DEFINE t == <<e[2], e[1]>>
      <3>3. t[1] = e[2] /\ t[2] = e[1] /\ t = <<t[1], t[2]>>
        OBVIOUS
      <3> HIDE DEF t
      <3>4. e \notin BothWays(p) /\ t \notin BothWays(p)
        BY <2>2, <3>2, <3>3, BothWaysFacts
      <3>5. Total(b, e) = 0 /\ Total(b, t) = 0
        BY <1>3, <1>9, <3>1, <3>3, <3>4, TotalFacts
      <3>6. QED
        BY <2>2, <3>5 DEF t, WeightOf
    <2>3. QED
      BY <2>1, <2>2
  <1>11. HasNegativeWeight(b) => HasNegativeWeight(s)
    <2> SUFFICES ASSUME NEW q \in DOMAIN b, b[q][3] < 0 PROVE HasNegativeWeight(s)
      BY DEF HasNegativeWeight
    <2>1. PICK k \in DOMAIN s : b[q] = s[k] \/ b[q] = <<s[k][2], s[k][1], s[k][3]>>
      BY <1>3
    <2>2. s[k][3] = b[q][3]
      BY <2>1
    <2>3. QED
      BY <2>2 DEF HasNegativeWeight
  <1>12. QED
    BY <1>1, <1>3, <1>9, <1>10, <1>11 DEF b

\* The input of the solver: what is true of it whatever the method.
InputOf(b, p) ==
    /\ b \in Seq(Entry)
    /\ \A e \in Edge : Total(b, e) = WeightOf(p, e)
    /\ HasNegativeWeight(b) => \E e \in DOMAIN p.w : p.w[e] < 0
    /\ p.method = 5 => /\ Single(b) /\ Positions(b) = BothWays(p)
                       /\ \A e \in Edge : Total(b, <<e[2], e[1]>>) = WeightOf(p, e)

LEMMA InputMeant ==
  ASSUME NEW p, IsProblem(p), NEW s, GraphList(s, p)
  PROVE  InputOf(SolverInput(p.method, s), p)
  <1>1. CASE p.method = 5
    <2> DEFINE b == ijw_add_upper_tri_transpose(s, TRUE)
    <2>1. SolverInput(p.method, s) = b
      BY <1>1 DEF SolverInput
    <2>2. /\ b \in Seq(Entry) /\ Single(b) /\ Positions(b) = BothWays(p)
          /\ \A e \in Edge : Total(b, e) = WeightOf(p, e) /\ Total(b, <<e[2], e[1]>>) = WeightOf(p, e)
          /\ HasNegativeWeight(b) => \E e \in DOMAIN p.w : p.w[e] < 0
      BY <1>1, WholeMatrixMeant
    <2> HIDE DEF b
    <2>3. QED
      BY <2>1, <2>2 DEF InputOf
  <1>2. CASE p.method # 5
    <2>1. SolverInput(p.method, s) = s
      BY <1>2 DEF SolverInput
    <2>2. QED
      BY <1>2, <2>1, ListMeant DEF InputOf
  <1>3. QED
    BY <1>1, <1>2
-----------------------------------------------------------------------------
(****************************************************************************)
(* The common capacity of belief propagation is that of what was meant.      *)
(****************************************************************************)
\* A list without repetition has an entry for every position in a row.
LEMMA RowCounted ==
  ASSUME NEW s \in Seq(Entry), Single(s), NEW x
  PROVE  /\ RowDegree(s, x) = Cardinality({c \in Positions(s) : c[1] = x})
         /\ RowDegree(s, x) \in Nat
         /\ RowDegree(s, x) # 0 => \E c \in Positions(s) : c[1] = x
  <1> DEFINE K == {k \in DOMAIN s : s[k][1] = x}
             T == {c \in Positions(s) : c[1] = x}
             f == [k \in K |-> <<s[k][1], s[k][2]>>]
  <1>1. \A c : c \in Positions(s) <=> \E k \in DOMAIN s : c = <<s[k][1], s[k][2]>>
    BY MatrixOfList
  <1>2. IsFiniteSet(K)
    <2>1. IsFiniteSet(DOMAIN s)
      BY EntryFacts, FS_Interval
    <2>2. QED
      BY <2>1, FS_Subset
  <1>3. f \in [K -> T]
    BY <1>1
  <1>4. \A a, b \in K : f[a] = f[b] => a = b
    BY DEF Single
  <1>5. \A t \in T : \E k \in K : f[k] = t
    BY <1>1
  <1>6. RowDegree(s, x) = Cardinality(K)
    BY DEF RowDegree
  <1> HIDE DEF f
  <1>7. (\A t \in T : t \in Positions(s) /\ t[1] = x) /\ \A k \in K : f[k] \in T
    BY <1>3
  <1> HIDE DEF K, T
  <1>8. Cardinality(T) = Cardinality(K)
    BY <1>2, <1>3, <1>4, <1>5, SameCardinality
  <1>9. Cardinality(K) \in Nat /\ (Cardinality(K) # 0 => K # {})
    BY <1>2, FS_CardinalityType, FS_EmptySet
  <1>10. QED
    BY <1>6, <1>7, <1>8, <1>9 DEF T

\* Lists of the same positions agree on it.
LEMMA SameRows ==
  ASSUME NEW s \in Seq(Entry), Single(s), NEW t \in Seq(Entry), Single(t),
         Positions(s) = Positions(t), NEW x
  PROVE  RowDegree(s, x) = RowDegree(t, x)
  BY RowCounted

LEMMA CapBounds ==
  ASSUME NEW n \in Nat, NEW s \in Seq(Entry), Single(s), NEW ub, \A x \in 0 .. n - 1 : ub[x] \in Nat
  PROVE  /\ NodeCap(n, s, ub) \in Int
         /\ \A x \in 0 .. n - 1 : NodeCap(n, s, ub) <= RowDegree(s, x) /\ NodeCap(n, s, ub) <= ub[x]
  <1> DEFINE f == [x \in 0 .. n - 1 |-> Min({ub[x], RowDegree(s, x)})]
             F == {f[x] : x \in 0 .. n - 1}
             S == {n} \cup F
  <1>1. NodeCap(n, s, ub) = Min(S)
    BY DEF NodeCap
  <1>2. \A x \in 0 .. n - 1 : f[x] \in Int /\ f[x] <= RowDegree(s, x) /\ f[x] <= ub[x]
    <2> TAKE x \in 0 .. n - 1
    <2> DEFINE u == ub[x]
               v == RowDegree(s, x)
    <2>1. u \in Nat /\ v \in Nat
      BY RowCounted
    <2>2. f[x] = Min({u, v})
      OBVIOUS
    <2> HIDE DEF u, v
    <2>3. {u, v} \in SUBSET Int /\ {u, v} # {}
      BY <2>1
    <2>4. IsFiniteSet({u, v})
      <3>1. IsFiniteSet({u}) /\ IsFiniteSet({v})
        BY FS_Singleton
      <3>2. IsFiniteSet({u} \cup {v})
        BY <3>1, FS_Union
      <3>3. {u, v} = {u} \cup {v}
        OBVIOUS
      <3>4. QED
        BY Zenon, <3>2, <3>3
    <2>5. Min({u, v}) \in {u, v} /\ \A y \in {u, v} : Min({u, v}) <= y
      BY <2>3, <2>4, MinIsLeast
    <2>6. QED
      BY <2>1, <2>2, <2>5 DEF u, v
  <1>3. \A x \in 0 .. n - 1 : f[x] \in F
    OBVIOUS
  <1>4. IsFiniteSet(F)
    <2>1. IsFiniteSet(0 .. n - 1)
      BY FS_Interval
    <2> HIDE DEF f
    <2>2. QED
      BY <2>1, ImageFinite
  <1> HIDE DEF f
  <1>5. F \in SUBSET Int
    BY <1>2
  <1> HIDE DEF F
  <1>6. IsFiniteSet(S) /\ S \in SUBSET Int /\ S # {} /\ \A x \in 0 .. n - 1 : f[x] \in S
    <2>1. IsFiniteSet({n}) /\ IsFiniteSet({n} \cup F)
      BY <1>4, FS_Singleton, FS_Union
    <2>2. n \in S /\ \A y \in S : y \in Int
      BY <1>5
    <2>3. IsFiniteSet(S) /\ \A x \in 0 .. n - 1 : f[x] \in S
      BY <1>3, <2>1
    <2> HIDE DEF S
    <2>4. QED
      BY <2>2, <2>3
  <1> HIDE DEF S
  <1>7. Min(S) \in S /\ \A y \in S : Min(S) <= y
    BY <1>6, MinIsLeast
  <1>8. Min(S) \in Int
    BY <1>6, <1>7
  <1>9. \A x \in 0 .. n - 1 : Min(S) <= RowDegree(s, x) /\ Min(S) <= ub[x]
    <2> TAKE x \in 0 .. n - 1
    <2>1. Min(S) <= f[x] /\ f[x] \in Int /\ f[x] <= RowDegree(s, x) /\ f[x] <= ub[x]
      BY <1>2, <1>6, <1>7
    <2>2. RowDegree(s, x) \in Nat
      BY RowCounted
    <2>3. ub[x] \in Nat
      OBVIOUS
    <2>4. QED
      BY <1>8, <2>1, <2>2, <2>3
  <1>10. QED
    BY <1>1, <1>8, <1>9

\* The list of the whole matrix, as svecvec_2_ijw writes it down.
LEMMA SymmetricListed ==
  ASSUME NEW p, IsProblem(p)
  PROVE  LET z == svecvec_2_ijw(Symmetric(p.w))
         IN  z \in Seq(Entry) /\ Single(z) /\ Positions(z) = BothWays(p)
  <1> DEFINE D == BothWays(p)
             m == Symmetric(p.w)
             z == svecvec_2_ijw(m)
  <1>1. D \in SUBSET Cell /\ \A c \in D : EdgeOf(c[1], c[2]) \in DOMAIN p.w
    BY BothWaysFacts
  <1>2. m = [c \in D |-> p.w[EdgeOf(c[1], c[2])]]
    BY DEF Symmetric, BothWays
  <1>3. \A e \in DOMAIN p.w : p.w[e] \in Int /\ p.w[e] # 0
    BY ProblemFacts
  <1> HIDE DEF D, m
  <1>4. m \in [D -> Int] /\ \A c \in D : m[c] # 0
    BY <1>1, <1>2, <1>3
  <1>5. /\ z \in Seq(Entry)
        /\ \A k \in DOMAIN z : <<z[k][1], z[k][2]>> \in D
        /\ \A e \in D : m[e] # 0 => \E k \in DOMAIN z : z[k][1] = e[1] /\ z[k][2] = e[2]
        /\ \A k, l \in DOMAIN z : k < l => Before(z[k], z[l])
    BY <1>1, <1>4, MatrixListed
  <1> HIDE DEF z
  <1>6. Single(z)
    BY <1>5, SortedIsSingle DEF Sorted
  <1>7. Positions(z) = D
    <2>1. \A c : c \in Positions(z) <=> \E k \in DOMAIN z : c = <<z[k][1], z[k][2]>>
      BY <1>5, MatrixOfList
    <2>2. \A c \in D : c = <<c[1], c[2]>>
      BY <1>1 DEF Cell
    <2>3. \A c \in D : c \in Positions(z)
      <3> TAKE c \in D
      <3>1. PICK k \in DOMAIN z : z[k][1] = c[1] /\ z[k][2] = c[2]
        BY <1>4, <1>5
      <3>2. c = <<z[k][1], z[k][2]>>
        BY <2>2, <3>1
      <3>3. QED
        BY <2>1, <3>2
    <2>4. \A c \in Positions(z) : c \in D
      BY <1>5, <2>1
    <2>5. QED
      BY <2>3, <2>4
  <1>8. QED
    BY <1>5, <1>6, <1>7 DEF z, m, D

\* With the capacity that is expected no node is isolated, so the list speaks
\* of all nodes, and the capacity of the input is the one that was meant.
LEMMA CapacityMeant ==
  ASSUME NEW p, IsProblem(p), p.method = 5,
         ExpectsCapacity(p.n, svecvec_2_ijw(Symmetric(p.w)), p.ub),
         NEW b, InputOf(b, p), NEW ub, \A x \in 0 .. p.n - 1 : ub[x] = p.ub[x]
  PROVE  LastIndex(p) = p.n - 1 /\ ExpectsCapacity(p.n, b, ub)
  <1> DEFINE z == svecvec_2_ijw(Symmetric(p.w))
             n == p.n
  <1>1. z \in Seq(Entry) /\ Single(z) /\ Positions(z) = BothWays(p)
    BY SymmetricListed
  <1>2. b \in Seq(Entry) /\ Single(b) /\ Positions(b) = BothWays(p)
    BY DEF InputOf
  <1>3. ExpectsCapacity(n, z, p.ub)
    OBVIOUS
  <1>4. n \in Nat \ {0} /\ \A x \in 0 .. n - 1 : p.ub[x] \in Nat
    BY ProblemFacts
  <1> HIDE DEF z
  <1>5. \A x : RowDegree(b, x) = RowDegree(z, x)
    BY <1>1, <1>2, SameRows
  <1>6. NodeCap(n, b, ub) = NodeCap(n, z, p.ub)
    <2>1. \A x \in 0 .. n - 1 : Min({ub[x], RowDegree(b, x)}) = Min({p.ub[x], RowDegree(z, x)})
      BY <1>5
    <2>2. {Min({ub[x], RowDegree(b, x)}) : x \in 0 .. n - 1} = {Min({p.ub[x], RowDegree(z, x)}) : x \in 0 .. n - 1}
      BY Zenon, <2>1
    <2>3. QED
      BY Zenon, <2>2 DEF NodeCap
  <1> HIDE DEF n
  <1>7. LastIndex(p) = n - 1
    <2>1. NodeCap(n, z, p.ub) \in 1 .. n - 1
      BY <1>3 DEF ExpectsCapacity
    <2>2. \A x \in 0 .. n - 1 : NodeCap(n, z, p.ub) <= RowDegree(z, x)
      BY <1>1, <1>4, CapBounds
    <2>3. RowDegree(z, n - 1) # 0
      <3>1. n - 1 \in 0 .. n - 1
        BY <1>4
      <3>2. RowDegree(z, n - 1) \in Nat
        BY <1>1, RowCounted
      <3>3. NodeCap(n, z, p.ub) <= RowDegree(z, n - 1)
        BY <2>2, <3>1
      <3>4. QED
        BY <1>4, <2>1, <3>2, <3>3
    <2>4. PICK c \in BothWays(p) : c[1] = n - 1
      <3>1. \A x : RowDegree(z, x) # 0 => \E c \in Positions(z) : c[1] = x
        BY <1>1, RowCounted
      <3>2. QED
        BY Zenon, <1>1, <2>3, <3>1
    <2>5. n - 1 <= LastIndex(p)
      BY <2>4, BothWaysFacts
    <2>6. LastIndex(p) \in -1 .. n - 1
      BY LastIndexFacts DEF n
    <2>7. QED
      BY <1>4, <2>5, <2>6
  <1>8. ExpectsCapacity(n, b, ub)
    BY <1>3, <1>6 DEF ExpectsCapacity
  <1>9. QED
    BY <1>7, <1>8 DEF n
-----------------------------------------------------------------------------
(****************************************************************************)
(* What a solver may answer, when it is called with what was meant.          *)
(****************************************************************************)
IsWellPosed(p) ==
    /\ \A e \in DOMAIN p.w : p.w[e] >= 0
    /\ ~ Crossed(p.lb, p.ub)
    /\ p.method = 5 => ExpectsCapacity(p.n, svecvec_2_ijw(Symmetric(p.w)), p.ub)

\* The bounds up to the last of n nodes, and none behind them.
UpTo(n, f, g) ==
    \A x \in Node : (x < n => f[x] = g[x]) /\ (~ (x < n) => f[x] = 0)

\* A call for p: n nodes, the list b, and the bounds lo and up.
Called(p, n, b, lo, up) ==
    /\ InputOf(b, p)
    /\ n \in LastIndex(p) + 1 .. p.n
    /\ UpTo(n, lo, p.lb) /\ UpTo(n, up, p.ub)

\* An answer for p: the edges B, the return value ok and the weight v.
Answers(p, n, B, ok, v) ==
    /\ B \in SUBSET Cell /\ \A c \in B : c[1] < n /\ c[2] < n
    /\ p.method # 5 => B \subseteq DOMAIN p.w
    /\ ok \in {0, 1}
    /\ ok = 1 /\ p.method # 1 => p.method # 5 /\ IsBMatching(B, DOMAIN p.w, p.ub)
    /\ p.method \in {3, 4} => v \in Int /\ (v >= 0 <=> ok = 1) /\ (IsWellPosed(p) => ok = 1)

LEMMA CallFacts ==
  ASSUME NEW p, IsProblem(p), NEW n, NEW b, NEW lo, NEW up, Called(p, n, b, lo, up)
  PROVE  /\ n \in Nat /\ n <= p.n
         /\ \A e \in DOMAIN p.w : e[1] < n /\ e[2] < n
         /\ Crossed(lo, up) => Crossed(p.lb, p.ub)
         /\ \A e \in Usable(b, up) : e \in DOMAIN p.w
         /\ \A B : IsBMatching(B, Usable(b, up), up) => IsBMatching(B, DOMAIN p.w, p.ub)
         /\ IsWellPosed(p) => ~ HasNegativeWeight(b)
  <1>1. n \in Nat /\ n <= p.n /\ LastIndex(p) \in Int /\ LastIndex(p) < n
    BY ProblemFacts, LastIndexFacts DEF Called
  <1>2. \A x \in Node : x \in Int /\ p.lb[x] \in Nat /\ p.ub[x] \in Nat
    BY ProblemFacts, NumNodeAssumption DEF Node
  <1>3. \A x \in Node : /\ x < n => lo[x] = p.lb[x] /\ up[x] = p.ub[x]
                        /\ ~ (x < n) => lo[x] = 0 /\ up[x] = 0
    BY DEF Called, UpTo
  <1>4. \A e \in DOMAIN p.w : e[1] < n /\ e[2] < n
    <2> TAKE e \in DOMAIN p.w
    <2>1. e[1] \in 0 .. p.n - 1 /\ e[2] \in 0 .. p.n - 1
      BY ProblemFacts
    <2>2. e[1] <= LastIndex(p) /\ e[2] <= LastIndex(p)
      BY LastIndexFacts
    <2>3. p.n \in Nat
      BY ProblemFacts
    <2>4. QED
      BY <1>1, <2>1, <2>2, <2>3
  <1>5. Crossed(lo, up) => Crossed(p.lb, p.ub)
    <2> SUFFICES ASSUME NEW x \in Node, lo[x] > up[x] PROVE Crossed(p.lb, p.ub)
      BY DEF Crossed
    <2>1. x < n
      BY <1>3
    <2>2. p.lb[x] > p.ub[x]
      BY <1>3, <2>1
    <2>3. QED
      BY <2>2 DEF Crossed
  <1>6. \A e \in Usable(b, up) : e \in DOMAIN p.w
    <2> TAKE e \in Usable(b, up)
    <2>1. e \in Edge /\ Total(b, e) # 0
      BY DEF Usable
    <2>2. Total(b, e) = WeightOf(p, e)
      BY <2>1 DEF Called, InputOf
    <2>3. QED
      BY <2>1, <2>2 DEF WeightOf
  <1>7. ASSUME NEW B, IsBMatching(B, Usable(b, up), up)
        PROVE  IsBMatching(B, DOMAIN p.w, p.ub)
    <2>1. B \subseteq Usable(b, up) /\ \A x \in Node : Degree(B, x) <= up[x]
      BY <1>7 DEF IsBMatching
    <2>2. B \subseteq DOMAIN p.w
      BY <1>6, <2>1
    <2>3. B \in SUBSET Edge
      BY <2>2, ProblemFacts
    <2>4. ASSUME NEW x \in Node
          PROVE  Degree(B, x) <= p.ub[x]
      <3>1. Degree(B, x) \in Nat
        BY <2>3, DegreeFacts
      <3>2. Degree(B, x) <= up[x]
        BY <2>1
      <3>3. up[x] = p.ub[x] \/ up[x] = 0
        BY <1>3
      <3>4. p.ub[x] \in Nat
        BY <1>2
      <3>5. QED
        BY <3>1, <3>2, <3>3, <3>4
    <2>5. QED
      BY <2>2, <2>4 DEF IsBMatching
  <1>8. IsWellPosed(p) => ~ HasNegativeWeight(b)
    <2>1. HasNegativeWeight(b) => \E e \in DOMAIN p.w : p.w[e] < 0
      BY DEF Called, InputOf
    <2>2. \A e \in DOMAIN p.w : p.w[e] \in Int
      BY ProblemFacts
    <2>3. QED
      BY <2>1, <2>2 DEF IsWellPosed
  <1>9. QED
    BY <1>1, <1>4, <1>5, <1>6, <1>7, <1>8

\* The weight of some edges none of which is negative.
LEMMA WeightInNat ==
  ASSUME NEW b, NEW B \in SUBSET Edge, \A e \in B : Total(b, e) \in Nat
  PROVE  WeightIn(b, B) \in Nat
  <1> DEFINE g == [e \in B |-> Total(b, e)]
  <1>1. IsFiniteSet(B)
    BY EdgesFinite
  <1>2. \A e \in B : g[e] \in Nat
    OBVIOUS
  <1>3. DOMAIN g = B
    OBVIOUS
  <1>4. WeightIn(b, B) = SumFunction(g)
    BY DEF WeightIn
  <1> HIDE DEF g
  <1>5. SumFunction(g) = SumFunctionOnSet(g, B)
    BY <1>3 DEF SumFunction
  <1>6. SumFunctionOnSet(g, B) \in Nat
    BY <1>1, <1>2, SumNat
  <1>7. QED
    BY <1>4, <1>5, <1>6

\* The edges of an answer are edges of the graph, or cells of its matrix.
LEMMA AnswerCells ==
  ASSUME NEW p, IsProblem(p), NEW n \in Nat, n <= p.n, NEW B,
         \/ B \subseteq DOMAIN p.w /\ \A e \in DOMAIN p.w : e[1] < n /\ e[2] < n
         \/ B \subseteq (0 .. n - 1) \X (0 .. n - 1)
  PROVE  B \in SUBSET Cell /\ \A c \in B : c[1] < n /\ c[2] < n
  <1>1. CASE B \subseteq DOMAIN p.w /\ \A e \in DOMAIN p.w : e[1] < n /\ e[2] < n
    <2>1. DOMAIN p.w \in SUBSET Edge
      BY ProblemFacts
    <2>2. QED
      BY <1>1, <2>1 DEF Edge, Cell
  <1>2. CASE B \subseteq (0 .. n - 1) \X (0 .. n - 1)
    <2>1. \A x \in 0 .. n - 1 : x \in Node /\ x < n
      <3>1. p.n \in Nat /\ \A x \in 0 .. p.n - 1 : x \in Node
        BY ProblemFacts
      <3>2. \A x \in 0 .. n - 1 : x \in 0 .. p.n - 1 /\ x < n
        BY <3>1
      <3>3. QED
        BY <3>1, <3>2
    <2>2. QED
      BY <1>2, <2>1 DEF Cell
  <1>3. QED
    BY <1>1, <1>2

LEMMA ExactAnswers ==
  ASSUME NEW p, IsProblem(p), p.method \in {1, 2},
         NEW n, NEW b, NEW lo, NEW up, Called(p, n, b, lo, up),
         NEW r, r.success \in {0, 1}, ExactContract(p.method, b, lo, up, r)
  PROVE  Answers(p, n, r.edges, r.success, IF r.wgt = Unset THEN Unset ELSE r.wgt)
  <1>1. n \in Nat /\ n <= p.n /\ \A e \in DOMAIN p.w : e[1] < n /\ e[2] < n
    BY CallFacts
  <1>2. /\ \A e \in Usable(b, up) : e \in DOMAIN p.w
        /\ Crossed(lo, up) => Crossed(p.lb, p.ub)
        /\ IsWellPosed(p) => ~ HasNegativeWeight(b)
    BY CallFacts
  <1>3. \A B : IsBMatching(B, Usable(b, up), up) => IsBMatching(B, DOMAIN p.w, p.ub)
    BY CallFacts
  <1>4. r.edges \subseteq DOMAIN p.w
    BY <1>2 DEF ExactContract
  <1>5. r.edges \in SUBSET Cell /\ \A c \in r.edges : c[1] < n /\ c[2] < n
    BY <1>1, <1>4, AnswerCells
  <1>6. r.success = 1 /\ p.method # 1 => IsBMatching(r.edges, DOMAIN p.w, p.ub)
    BY <1>3 DEF ExactContract
  <1>7. p.method # 5 /\ p.method \notin {3, 4}
    OBVIOUS
  <1>8. QED
    BY <1>4, <1>5, <1>6, <1>7 DEF Answers

LEMMA ExactUnset ==
  ASSUME NEW p, IsProblem(p), p.method \in {1, 2},
         NEW n, NEW b, NEW lo, NEW up, Called(p, n, b, lo, up),
         NEW r, ExactContract(p.method, b, lo, up, r), r.gptr = "unset"
  PROVE  ~ IsWellPosed(p)
  <1>1. /\ Crossed(lo, up) => Crossed(p.lb, p.ub)
        /\ IsWellPosed(p) => ~ HasNegativeWeight(b)
    BY CallFacts
  <1>2. QED
    BY <1>1 DEF ExactContract, IsWellPosed

LEMMA GreedyAnswers ==
  ASSUME NEW p, IsProblem(p), p.method \in {3, 4},
         NEW n, NEW b, NEW lo, NEW up, Called(p, n, b, lo, up),
         NEW r, r.success \in {0, 1}, GreedyContract(p.method, b, lo, up, r)
  PROVE  /\ Answers(p, n, r.edges, r.success, IF r.wgt = Unset THEN Unset ELSE r.wgt)
         /\ r.gptr = "none"
  <1> DEFINE v == IF r.wgt = Unset THEN Unset ELSE r.wgt
  <1>1. n \in Nat /\ n <= p.n /\ \A e \in DOMAIN p.w : e[1] < n /\ e[2] < n
    BY CallFacts
  <1>2. /\ \A e \in Usable(b, up) : e \in DOMAIN p.w
        /\ Crossed(lo, up) => Crossed(p.lb, p.ub)
        /\ IsWellPosed(p) => ~ HasNegativeWeight(b)
    BY CallFacts
  <1>3. \A B : IsBMatching(B, Usable(b, up), up) => IsBMatching(B, DOMAIN p.w, p.ub)
    BY CallFacts
  <1>4. p.method # 5
    OBVIOUS
  <1>5. CASE Rejected(r) /\ (HasNegativeWeight(b) \/ Crossed(lo, up))
    <2>1. r.edges = {} /\ r.success = 0 /\ v = -1
      BY <1>5 DEF Rejected, Unset
    <2>2. ~ IsWellPosed(p)
      BY <1>2, <1>5 DEF IsWellPosed
    <2>3. r.gptr = "none"
      BY DEF GreedyContract
    <2> HIDE DEF v
    <2>4. Answers(p, n, r.edges, r.success, v)
      BY <1>4, <2>1, <2>2 DEF Answers
    <2>5. QED
      BY <2>3, <2>4 DEF v
  <1>6. CASE /\ r.success = 1
             /\ \A e \in Usable(b, up) : Total(b, e) > 0
             /\ IsBMatching(r.edges, Usable(b, up), up)
             /\ r.wgt = WeightIn(b, r.edges)
    <2>1. IsBMatching(r.edges, DOMAIN p.w, p.ub)
      BY <1>3, <1>6
    <2>2. r.edges \subseteq DOMAIN p.w /\ r.edges \subseteq Usable(b, up)
      BY <1>6, <2>1 DEF IsBMatching
    <2>3. r.edges \in SUBSET Cell /\ \A c \in r.edges : c[1] < n /\ c[2] < n
      BY <1>1, <2>2, AnswerCells
    <2>4. r.wgt \in Nat
      <3>1. r.edges \in SUBSET Edge
        BY <2>2 DEF Usable
      <3>2. ASSUME NEW e \in r.edges
            PROVE  Total(b, e) \in Nat
        <4>1. b \in Seq(Entry)
          BY DEF Called, InputOf
        <4>2. Total(b, e) \in Int
          BY <4>1, TotalFacts
        <4>3. Total(b, e) > 0
          BY <1>6, <2>2
        <4>4. QED
          BY <4>2, <4>3
      <3>3. WeightIn(b, r.edges) \in Nat
        BY <3>1, <3>2, WeightInNat
      <3>4. QED
        BY <1>6, <3>3
    <2>5. v \in Int /\ v >= 0
      BY <2>4 DEF Unset
    <2>6. r.gptr = "none"
      BY DEF GreedyContract
    <2> HIDE DEF v
    <2>7. Answers(p, n, r.edges, r.success, v)
      BY <1>4, <1>6, <2>1, <2>2, <2>3, <2>5 DEF Answers
    <2>8. QED
      BY <2>6, <2>7 DEF v
  <1>7. QED
    BY <1>5, <1>6 DEF GreedyContract

LEMMA BeliefAnswers ==
  ASSUME NEW p, IsProblem(p), p.method = 5,
         NEW n, NEW b, NEW lo, NEW up, Called(p, n, b, lo, up),
         NEW r, BeliefContract(n, b, up, r), NEW v
  PROVE  Answers(p, n, r.edges, r.success, v) /\ r.gptr = "none"
  <1>1. n \in Nat /\ n <= p.n
    BY CallFacts
  <1>2. r.success = 0 /\ r.gptr = "none" /\ r.edges \subseteq (0 .. n - 1) \X (0 .. n - 1)
    BY DEF BeliefContract, Rejected
  <1>3. r.edges \in SUBSET Cell /\ \A c \in r.edges : c[1] < n /\ c[2] < n
    BY <1>1, <1>2, AnswerCells
  <1>4. QED
    BY <1>2, <1>3 DEF Answers

\* A well-posed problem of method 5 is one it is called for without reading
\* beyond its vectors, with all its nodes.
LEMMA CapacityExpected ==
  ASSUME NEW p, IsProblem(p), IsWellPosed(p), p.method = 5,
         NEW n, NEW b, NEW lo, NEW up, Called(p, n, b, lo, up)
  PROVE  n = p.n /\ LastIndex(p) = p.n - 1 /\ ExpectsCapacity(n, b, up)
  <1>1. n \in Nat /\ n <= p.n /\ p.n \in Nat /\ \A x \in 0 .. p.n - 1 : x \in Node /\ x \in Int
    BY CallFacts, ProblemFacts
  <1> DEFINE f == [x \in 0 .. p.n - 1 |-> p.ub[x]]
  <1>2. InputOf(b, p) /\ ExpectsCapacity(p.n, svecvec_2_ijw(Symmetric(p.w)), p.ub)
    BY DEF Called, IsWellPosed
  <1>3. \A x \in 0 .. p.n - 1 : f[x] = p.ub[x]
    OBVIOUS
  <1> HIDE DEF f
  <1>4. LastIndex(p) = p.n - 1
    BY <1>2, <1>3, CapacityMeant
  <1>5. n = p.n
    BY <1>1, <1>4 DEF Called
  <1>6. \A x \in 0 .. p.n - 1 : up[x] = p.ub[x]
    BY <1>1, <1>5 DEF Called, UpTo
  <1>7. ExpectsCapacity(p.n, b, up)
    BY <1>2, <1>6, CapacityMeant
  <1>8. QED
    BY <1>4, <1>5, <1>7
-----------------------------------------------------------------------------
(****************************************************************************)
(* What is read off a matrix or a list that is written.                      *)
(****************************************************************************)
\* A list of the cells C, each of them once and with the value 1.
Lists(s, C) ==
    /\ s \in Seq(Entry) /\ Single(s)
    /\ \A k \in DOMAIN s : <<s[k][1], s[k][2]>> \in C /\ s[k][3] = 1
    /\ \A c \in C : \E k \in DOMAIN s : c = <<s[k][1], s[k][2]>>

LEMMA AnswerListed ==
  ASSUME NEW B \in SUBSET Cell
  PROVE  Lists(svecvec_2_ijw([e \in B |-> 1]), B)
  <1> DEFINE w == [e \in B |-> 1]
             s == svecvec_2_ijw(w)
  <1>1. w \in [B -> Int] /\ \A e \in B : w[e] = 1
    OBVIOUS
  <1> HIDE DEF w
  <1>2. /\ s \in Seq(Entry)
        /\ \A k \in DOMAIN s : /\ <<s[k][1], s[k][2]>> \in B
                               /\ s[k][3] = w[<<s[k][1], s[k][2]>>] /\ s[k][3] # 0
        /\ \A e \in B : w[e] # 0 => \E k \in DOMAIN s : s[k][1] = e[1] /\ s[k][2] = e[2]
        /\ \A k, l \in DOMAIN s : k < l => Before(s[k], s[l])
    BY <1>1, MatrixListed
  <1> HIDE DEF s
  <1>3. Single(s)
    BY <1>2, SortedIsSingle DEF Sorted
  <1>4. \A e \in B : e = <<e[1], e[2]>>
    BY DEF Cell
  <1>5. \A e \in B : \E k \in DOMAIN s : e = <<s[k][1], s[k][2]>>
    BY <1>1, <1>2, <1>4
  <1>6. \A k \in DOMAIN s : <<s[k][1], s[k][2]>> \in B /\ s[k][3] = 1
    BY <1>1, <1>2
  <1>7. Lists(s, B)
    BY <1>2, <1>3, <1>5, <1>6 DEF Lists
  <1>8. QED
    BY <1>7 DEF s, w

\* A list of upper cells, with the transpose of its strict upper triangle.
Mirrored(B) == B \cup {<<c[2], c[1]>> : c \in B}

LEMMA BothListed ==
  ASSUME NEW B \in SUBSET Edge, NEW s, Lists(s, B)
  PROVE  Lists(ijw_add_upper_tri_transpose(s, TRUE), Mirrored(B))
  <1> DEFINE b == ijw_add_upper_tri_transpose(s, TRUE)
  <1>1. \A c \in B : c = <<c[1], c[2]>> /\ c[1] <= c[2]
    BY DEF Edge
  <1>2. IsUpper(s)
    <2>1. \A k \in DOMAIN s : <<s[k][1], s[k][2]>> \in B
      BY DEF Lists
    <2>2. \A k \in DOMAIN s : s[k][1] <= s[k][2]
      BY <1>1, <2>1
    <2>3. QED
      BY <2>2 DEF IsUpper, Lists
  <1>3. /\ b \in Seq(Entry) /\ Single(b)
        /\ \A q \in DOMAIN b : \E k \in DOMAIN s :
             b[q] = s[k] \/ b[q] = <<s[k][2], s[k][1], s[k][3]>>
        /\ \A k \in DOMAIN s :
             /\ \E q \in DOMAIN b : b[q] = s[k]
             /\ \E q \in DOMAIN b : b[q] = <<s[k][2], s[k][1], s[k][3]>>
    BY <1>2, BothTriangles
  <1> HIDE DEF b
  <1>4. ASSUME NEW q \in DOMAIN b
        PROVE  <<b[q][1], b[q][2]>> \in Mirrored(B) /\ b[q][3] = 1
    <2>1. PICK k \in DOMAIN s : b[q] = s[k] \/ b[q] = <<s[k][2], s[k][1], s[k][3]>>
      BY <1>3
    <2> DEFINE c == <<s[k][1], s[k][2]>>
    <2>2. c \in B /\ s[k][3] = 1
      BY DEF Lists
    <2>3. <<b[q][1], b[q][2]>> = c \/ <<b[q][1], b[q][2]>> = <<c[2], c[1]>>
      BY <2>1
    <2>4. b[q][3] = 1
      BY <2>1, <2>2
    <2> HIDE DEF c
    <2>5. QED
      BY <2>2, <2>3, <2>4 DEF Mirrored
  <1>5. ASSUME NEW c \in Mirrored(B)
        PROVE  \E q \in DOMAIN b : c = <<b[q][1], b[q][2]>>
    <2>1. PICK e \in B : c = e \/ c = <<e[2], e[1]>>
      BY DEF Mirrored
    <2>2. PICK k \in DOMAIN s : e = <<s[k][1], s[k][2]>>
      BY DEF Lists
    <2>3. PICK q \in DOMAIN b : b[q] = s[k]
      BY <1>3
    <2>4. PICK r \in DOMAIN b : b[r] = <<s[k][2], s[k][1], s[k][3]>>
      BY <1>3
    <2>5. <<b[q][1], b[q][2]>> = e /\ <<b[r][1], b[r][2]>> = <<e[2], e[1]>>
      BY <2>2, <2>3, <2>4
    <2>6. QED
      BY <2>1, <2>5
  <1>6. Lists(b, Mirrored(B))
    BY <1>3, <1>4, <1>5 DEF Lists
  <1>7. QED
    BY <1>6 DEF b

LEMMA MirroredFacts ==
  ASSUME NEW B \in SUBSET Edge
  PROVE  /\ Mirrored(B) \in SUBSET Cell
         /\ \A c \in Mirrored(B) : <<c[2], c[1]>> \in Mirrored(B)
         /\ \A c \in Mirrored(B) : EdgeOf(c[1], c[2]) \in B
         /\ \A e \in B : e \in Mirrored(B) /\ EdgeOf(e[1], e[2]) = e
         /\ \A x, y \in Node : <<x, y>> \in Mirrored(B) <=> EdgeOf(x, y) \in B
  <1>1. \A e \in B : /\ e = <<e[1], e[2]>> /\ e[1] \in Node /\ e[2] \in Node
                     /\ e[1] \in Int /\ e[2] \in Int /\ e[1] <= e[2]
    BY NumNodeAssumption DEF Edge, Node
  <1>2. ASSUME NEW c \in Mirrored(B)
        PROVE  /\ c \in Cell /\ c = <<c[1], c[2]>> /\ <<c[2], c[1]>> \in Mirrored(B)
               /\ EdgeOf(c[1], c[2]) \in B
    <2>1. PICK e \in B : c = e \/ c = <<e[2], e[1]>>
      BY DEF Mirrored
    <2>2. (c[1] = e[1] /\ c[2] = e[2]) \/ (c[1] = e[2] /\ c[2] = e[1])
      BY <2>1
    <2>3. c \in Cell
      BY <1>1, <2>1 DEF Cell
    <2>4. <<c[2], c[1]>> = e \/ <<c[2], c[1]>> = <<e[2], e[1]>>
      BY <1>1, <2>2
    <2>5. <<c[2], c[1]>> \in Mirrored(B)
      BY <2>4 DEF Mirrored
    <2>6. EdgeOf(c[1], c[2]) = e
      BY <1>1, <2>2 DEF EdgeOf
    <2>7. c = <<c[1], c[2]>>
      BY <1>1, <2>1
    <2>8. QED
      BY <2>3, <2>5, <2>6, <2>7
  <1>3. \A e \in B : e \in Mirrored(B) /\ EdgeOf(e[1], e[2]) = e
    BY <1>1 DEF Mirrored, EdgeOf
  <1>4. ASSUME NEW x \in Node, NEW y \in Node
        PROVE  <<x, y>> \in Mirrored(B) <=> EdgeOf(x, y) \in B
    <2>1. <<x, y>> \in Mirrored(B) => EdgeOf(x, y) \in B
      BY <1>2
    <2>2. ASSUME EdgeOf(x, y) \in B
          PROVE  <<x, y>> \in Mirrored(B)
      <3>1. EdgeOf(x, y) = <<x, y>> \/ EdgeOf(x, y) = <<y, x>>
        BY DEF EdgeOf
      <3> DEFINE e == EdgeOf(x, y)
      <3>2. <<x, y>> = e \/ <<x, y>> = <<e[2], e[1]>>
        BY <3>1
      <3> HIDE DEF e
      <3>3. e \in B
        BY <2>2 DEF e
      <3>4. QED
        BY <3>2, <3>3 DEF Mirrored
    <2>3. QED
      BY <2>1, <2>2
  <1>5. QED
    BY <1>2, <1>3, <1>4

\* The cells of a matrix are those of the list it was written from.
LEMMA MatrixWritten ==
  ASSUME NEW n \in Nat, NEW C \in SUBSET Cell, \A c \in C : c[1] < n /\ c[2] < n,
         NEW s, Lists(s, C)
  PROVE  LET m == ijw_write_matrix(n, s)
         IN  MatrixEdges(m) = C /\ \A k \in DOMAIN m : ToSet(m[k]) \subseteq {0, 1}
  <1> DEFINE m == ijw_write_matrix(n, s)
             v(x, y) == Total(s, <<x, y>>)
  <1>1. \A c : c \in Positions(s) <=> c \in C
    <2>1. \A c : c \in Positions(s) <=> \E k \in DOMAIN s : c = <<s[k][1], s[k][2]>>
      BY MatrixOfList DEF Lists
    <2>2. QED
      BY <2>1 DEF Lists
  <1>2. \A x, y : v(x, y) = IF <<x, y>> \in C THEN 1 ELSE 0
    <2> TAKE x, y
    <2> DEFINE c == <<x, y>>
    <2>1. c = <<c[1], c[2]>>
      OBVIOUS
    <2> HIDE DEF c
    <2>2. CASE c \in C
      <3>1. PICK k \in DOMAIN s : c = <<s[k][1], s[k][2]>>
        BY <2>2 DEF Lists
      <3>2. Total(s, <<s[k][1], s[k][2]>>) = s[k][3]
        BY TotalOfSingle DEF Lists
      <3>3. s[k][3] = 1
        BY DEF Lists
      <3>4. Total(s, c) = 1
        BY <3>1, <3>2, <3>3
      <3>5. QED
        BY <2>2, <3>4 DEF c
    <2>3. CASE c \notin C
      <3>1. Total(s, c) = 0
        BY <1>1, <2>1, <2>3, TotalFacts DEF Lists
      <3>2. QED
        BY <2>3, <3>1 DEF c
    <2>4. QED
      BY <2>2, <2>3
  <1>3. m = [x \in 1 .. n |-> [y \in 1 .. n |-> v(x - 1, y - 1)]]
    BY DEF ijw_write_matrix
  <1> HIDE DEF v
  <1>4. Len(m) = n /\ DOMAIN m = 1 .. n
    BY <1>3
  <1>5. \A x \in 1 .. n : /\ m[x] = [y \in 1 .. n |-> v(x - 1, y - 1)]
                          /\ \A y \in 1 .. n : m[x][y] = v(x - 1, y - 1)
    BY <1>3
  <1> HIDE DEF m
  <1>6. ASSUME NEW e \in Node \X Node
        PROVE  e[1] < Len(m) /\ e[2] < Len(m) /\ m[e[1] + 1][e[2] + 1] # 0 <=> e \in C
    <2>1. e = <<e[1], e[2]>> /\ e[1] \in Nat /\ e[2] \in Nat
      BY NumNodeAssumption DEF Node
    <2>2. CASE e[1] < n /\ e[2] < n
      <3>1. e[1] + 1 \in 1 .. n /\ e[2] + 1 \in 1 .. n /\ (e[1] + 1) - 1 = e[1] /\ (e[2] + 1) - 1 = e[2]
        BY <2>1, <2>2
      <3>2. m[e[1] + 1][e[2] + 1] = v(e[1], e[2])
        BY <1>5, <3>1
      <3>3. QED
        BY <1>2, <1>4, <2>1, <2>2, <3>2
    <2>3. CASE ~ (e[1] < n /\ e[2] < n)
      BY <1>4, <2>3
    <2>4. QED
      BY <2>2, <2>3
  <1>7. MatrixEdges(m) = C
    <2>1. \A e \in C : e \in Node \X Node
      BY DEF Cell
    <2>2. \A e : e \in MatrixEdges(m) <=> e \in Node \X Node /\ (e[1] < Len(m) /\ e[2] < Len(m) /\ m[e[1] + 1][e[2] + 1] # 0)
      BY DEF MatrixEdges
    <2>3. \A e : e \in MatrixEdges(m) <=> e \in C
      BY <1>6, <2>1, <2>2
    <2>4. QED
      BY <2>3
  <1>8. ASSUME NEW k \in DOMAIN m
        PROVE  ToSet(m[k]) \subseteq {0, 1}
    <2>1. m[k] = [y \in 1 .. n |-> v(k - 1, y - 1)]
      BY <1>4, <1>5
    <2>2. \A y \in 1 .. n : v(k - 1, y - 1) \in {0, 1}
      BY <1>2
    <2>3. DOMAIN m[k] = 1 .. n /\ \A y \in 1 .. n : m[k][y] \in {0, 1}
      BY <2>1, <2>2
    <2>4. QED
      BY <2>3 DEF ToSet
  <1>9. QED
    BY <1>7, <1>8 DEF m
-----------------------------------------------------------------------------
(****************************************************************************)
(* The degrees that are returned in Matlab.                                  *)
(****************************************************************************)
\* The sum of a column is a sum over a function.
ColumnSum(B, x, K) == MapThenSumSet(LAMBDA y : B[y][x], K)
ColumnRule(B, x, it, t) == IF t = {} THEN 0 ELSE B[Pick(t)][x] + it[t \ {Pick(t)}]

LEMMA ColumnIsSum ==
  ASSUME NEW B, NEW x, NEW K, IsFiniteSet(K), NEW g, \A y \in K : g[y] = B[y][x]
  PROVE  ColumnSum(B, x, K) = SumFunctionOnSet(g, K)
  <1> DEFINE Rule(it) == it = [t \in SUBSET K |-> ColumnRule(B, x, it, t)]
             J == CHOOSE it : Rule(it)
  <1>1. ColumnSum(B, x, K) = J[K]
    BY DEF ColumnSum, MapThenSumSet, MapThenFoldSet, ColumnRule, Pick
  <1>2. \A it : IsFold(g, K, it) <=> Rule(it)
    <2> TAKE it
    <2>1. \A t \in SUBSET K : SumRule(g, it, t) = ColumnRule(B, x, it, t)
      BY PickIsMember DEF SumRule, ColumnRule
    <2>2. [t \in SUBSET K |-> SumRule(g, it, t)] = [t \in SUBSET K |-> ColumnRule(B, x, it, t)]
      BY <2>1
    <2>3. QED
      BY Zenon, <2>2 DEF IsFold
  <1> HIDE DEF Rule
  <1>3. \E it : Rule(it)
    BY <1>2, FoldExists
  <1>4. Rule(J)
    BY <1>3
  <1> HIDE DEF J
  <1>5. IsFold(g, K, J)
    BY <1>2, <1>4
  <1>6. QED
    BY <1>1, <1>5, FoldIsSum

\* A sum of zeros and ones is the number of the ones.
LEMMA SumOfOnes ==
  ASSUME NEW K, IsFiniteSet(K), NEW g, \A k \in K : g[k] \in {0, 1}
  PROVE  SumFunctionOnSet(g, K) = Cardinality({k \in K : g[k] = 1})
  <1> DEFINE Ones(t) == {k \in t : g[k] = 1}
             Bad == {t \in SUBSET K : SumFunctionOnSet(g, t) # Cardinality(Ones(t))}
  <1>1. ASSUME Bad # {}
        PROVE  FALSE
    <2>1. PICK t \in Bad : \A x \in t : t \ {x} \notin Bad
      <3>1. Bad \in SUBSET SUBSET K
        OBVIOUS
      <3> HIDE DEF Bad
      <3>2. QED
        BY <1>1, <3>1, SmallestBad
    <2>2. t \in SUBSET K /\ SumFunctionOnSet(g, t) # Cardinality(Ones(t))
      OBVIOUS
    <2>3. IsFiniteSet(t) /\ IsFiniteSet(Ones(t)) /\ Cardinality(Ones(t)) \in Nat
      BY <2>2, FS_Subset, FS_CardinalityType
    <2>4. CASE t = {}
      <3>1. SumFunctionOnSet(g, t) = 0
        BY <2>4, SumEmpty
      <3>2. Ones(t) = {}
        BY <2>4
      <3>3. Cardinality(Ones(t)) = 0
        BY <3>2, FS_EmptySet
      <3>4. QED
        BY <2>2, <3>1, <3>3
    <2>5. CASE t # {}
      <3>1. PICK x : x \in t
        BY <2>5
      <3>2. g[x] \in {0, 1} /\ \A k \in t : g[k] \in Int
        BY <2>2, <3>1
      <3>3. SumFunctionOnSet(g, t) = g[x] + SumFunctionOnSet(g, t \ {x})
        BY <2>3, <3>1, <3>2, SumRemove
      <3>4. SumFunctionOnSet(g, t \ {x}) = Cardinality(Ones(t \ {x}))
        BY <2>1, <2>2, <3>1
      <3>5. CASE g[x] = 0
        <4>1. Ones(t \ {x}) = Ones(t)
          BY <3>5
        <4> HIDE DEF Ones
        <4>2. QED
          BY <2>2, <2>3, <3>3, <3>4, <3>5, <4>1
      <3>6. CASE g[x] = 1
        <4>1. Ones(t \ {x}) = Ones(t) \ {x} /\ x \in Ones(t)
          BY <3>1, <3>6
        <4> HIDE DEF Ones
        <4>2. Cardinality(Ones(t) \ {x}) = Cardinality(Ones(t)) - 1
          BY <2>3, <4>1, FS_RemoveElement
        <4>3. SumFunctionOnSet(g, t \ {x}) = Cardinality(Ones(t)) - 1
          BY <3>4, <4>1, <4>2
        <4> DEFINE u == Cardinality(Ones(t))
        <4>4. SumFunctionOnSet(g, t) = 1 + (u - 1) /\ u \in Nat
          BY <2>3, <3>3, <3>6, <4>3
        <4> HIDE DEF u
        <4>5. SumFunctionOnSet(g, t) = u
          BY <4>4
        <4>6. QED
          BY <2>2, <4>5 DEF u
      <3>7. QED
        BY <3>2, <3>5, <3>6
    <2>6. QED
      BY <2>4, <2>5
  <1>2. K \notin Bad
    BY <1>1
  <1>3. QED
    BY <1>2

\* The partners of a node are its neighbours, itself when it has a self-loop.
LEMMA PartnersCounted ==
  ASSUME NEW F \in SUBSET Edge, NEW n \in Nat, n <= NumNode,
         \A e \in F : e[1] < n /\ e[2] < n, NEW x \in 0 .. n - 1
  PROVE  Degree(F, x) = Cardinality({y \in 0 .. n - 1 : EdgeOf(y, x) \in F})
                          + (IF <<x, x>> \in F THEN 1 ELSE 0)
  <1> DEFINE L == {e \in F : e[1] = x}
             R == {e \in F : e[2] = x}
             Y == {y \in 0 .. n - 1 : EdgeOf(y, x) \in F}
             f == [y \in Y |-> EdgeOf(y, x)]
             loop == IF <<x, x>> \in F THEN 1 ELSE 0
  <1>1. \A y \in 0 .. n - 1 : y \in Int /\ y \in Node
    BY NumNodeAssumption DEF Node
  <1>2. \A e \in F : /\ e = <<e[1], e[2]>> /\ e[1] \in 0 .. n - 1 /\ e[2] \in 0 .. n - 1 /\ e[1] <= e[2]
                     /\ e[1] \in Int /\ e[2] \in Int
    BY NumNodeAssumption DEF Edge, Node
  <1>3. Degree(F, x) = Cardinality(L) + Cardinality(R)
    BY DEF Degree
  <1>4. IsFiniteSet(F) /\ IsFiniteSet(L) /\ IsFiniteSet(R)
    BY EdgesFinite, FS_Subset
  <1>5. Cardinality(L \cap R) = loop
    <2>1. CASE <<x, x>> \in F
      <3>1. L \cap R = {<<x, x>>}
        <4>1. \A e \in L \cap R : e = <<x, x>>
          BY <1>2
        <4>2. <<x, x>> \in L \cap R
          BY <2>1
        <4> HIDE DEF L, R
        <4>3. QED
          BY <4>1, <4>2
      <3>2. QED
        BY <2>1, <3>1, FS_Singleton
    <2>2. CASE <<x, x>> \notin F
      <3>1. \A e \in L \cap R : FALSE
        BY <1>2, <2>2
      <3>2. L \cap R = {}
        BY <3>1
      <3>3. Cardinality(L \cap R) = 0
        BY <3>2, FS_EmptySet
      <3>4. QED
        BY <2>2, <3>3
    <2>3. QED
      BY <2>1, <2>2
  <1>6. /\ Cardinality(L \cup R) = Cardinality(L) + Cardinality(R) - Cardinality(L \cap R)
        /\ Cardinality(L) \in Nat /\ Cardinality(R) \in Nat
    <2> HIDE DEF L, R
    <2>1. QED
      BY <1>4, FS_Union, FS_CardinalityType
  <1>7. Cardinality(L \cup R) = Cardinality(Y)
    <2>1. IsFiniteSet(Y)
      <3>1. IsFiniteSet(0 .. n - 1)
        BY FS_Interval
      <3>2. QED
        BY <3>1, FS_Subset
    <2>2. \A y \in Y : f[y] \in F /\ y \in Int /\ f[y] = IF y <= x THEN <<y, x>> ELSE <<x, y>>
      BY <1>1 DEF EdgeOf
    <2>3. x \in Int
      BY <1>1
    <2>4. \A y \in Y : f[y] \in L \cup R
      BY <2>2
    <2>5. \A y, z \in Y : f[y] = f[z] => y = z
      <3> TAKE y, z \in Y
      <3>1. (f[y] = <<y, x>> /\ y <= x) \/ (f[y] = <<x, y>> /\ ~ (y <= x))
        BY <2>2
      <3>2. (f[z] = <<z, x>> /\ z <= x) \/ (f[z] = <<x, z>> /\ ~ (z <= x))
        BY <2>2
      <3>3. y \in Int /\ z \in Int
        BY <2>2
      <3> HIDE DEF f
      <3>4. QED
        BY <2>3, <3>1, <3>2, <3>3
    <2>6. \A e \in L \cup R : \E y \in Y : f[y] = e
      <3> TAKE e \in L \cup R
      <3>1. e \in F /\ (e[1] = x \/ e[2] = x)
        OBVIOUS
      <3> DEFINE y == IF e[1] = x THEN e[2] ELSE e[1]
      <3>2. y \in 0 .. n - 1 /\ EdgeOf(y, x) = e
        BY <1>2, <3>1 DEF EdgeOf
      <3>3. y \in Y /\ f[y] = e
        BY <3>1, <3>2
      <3>4. QED
        BY <3>3
    <2>7. f \in [Y -> L \cup R]
      BY <2>4
    <2> DEFINE T == L \cup R
    <2> HIDE DEF f, Y, L, R, T
    <2>8. Cardinality(T) = Cardinality(Y)
      BY <2>1, <2>5, <2>6, <2>7, SameCardinality DEF T
    <2>9. QED
      BY <2>8 DEF T
  <1>8. loop \in {0, 1}
    OBVIOUS
  <1> HIDE DEF L, R, Y, loop
  <1>9. Cardinality(L) + Cardinality(R) = Cardinality(Y) + loop
    BY <1>5, <1>6, <1>7, <1>8
  <1>10. QED
    BY <1>3, <1>9 DEF Y, loop
\* The edges between the ends of the cells B.
Folded(B) == {EdgeOf(c[1], c[2]) : c \in B}

LEMMA FoldedFacts ==
  ASSUME NEW B \in SUBSET Cell
  PROVE  /\ Folded(B) \in SUBSET Edge
         /\ \A n : (\A c \in B : c[1] < n /\ c[2] < n) => \A e \in Folded(B) : e[1] < n /\ e[2] < n
         /\ B \in SUBSET Edge => Folded(B) = B
         /\ B \in SUBSET Edge => Folded(Mirrored(B)) = B
         /\ Folded(Mirrored(Folded(B))) = Folded(B)
  <1>1. \A c \in B : c = <<c[1], c[2]>> /\ c[1] \in Node /\ c[2] \in Node
    BY DEF Cell
  <1>2. Folded(B) \in SUBSET Edge
    BY <1>1, EdgeOfIsEdge DEF Folded
  <1>3. ASSUME NEW n, \A c \in B : c[1] < n /\ c[2] < n, NEW e \in Folded(B)
        PROVE  e[1] < n /\ e[2] < n
    BY <1>3 DEF Folded, EdgeOf
  <1>4. \A G \in SUBSET Edge : Folded(G) = G
    <2> TAKE G \in SUBSET Edge
    <2>1. \A c \in G : EdgeOf(c[1], c[2]) = c
      BY DEF Edge, EdgeOf
    <2>2. QED
      BY <2>1 DEF Folded
  <1>5. \A G \in SUBSET Edge : Folded(Mirrored(G)) = G
    <2> TAKE G \in SUBSET Edge
    <2>1. \A c \in Mirrored(G) : EdgeOf(c[1], c[2]) \in G
      BY MirroredFacts
    <2>2. \A e \in G : e \in Mirrored(G) /\ EdgeOf(e[1], e[2]) = e
      BY MirroredFacts
    <2>3. QED
      BY <2>1, <2>2 DEF Folded
  <1>6. QED
    BY <1>2, <1>3, <1>4, <1>5

\* Counted from 1, x and y are the ends of an edge between a and b.
SameEnds(x, y, a, b) == {a + 1, b + 1} = {x, y} <=> EdgeOf(x - 1, y - 1) = EdgeOf(a, b)

LEMMA PairOfEnds ==
  ASSUME NEW x \in Int, NEW y \in Int, NEW a \in Int, NEW b \in Int
  PROVE  SameEnds(x, y, a, b)
  <1>1. {a + 1, b + 1} = {x, y} <=> (a + 1 = x /\ b + 1 = y) \/ (a + 1 = y /\ b + 1 = x)
    OBVIOUS
  <1>2. EdgeOf(x - 1, y - 1) = EdgeOf(a, b) <=> (a = x - 1 /\ b = y - 1) \/ (a = y - 1 /\ b = x - 1)
    BY DEF EdgeOf
  <1>3. (a + 1 = x <=> a = x - 1) /\ (b + 1 = y <=> b = y - 1) /\ (a + 1 = y <=> a = y - 1) /\ (b + 1 = x <=> b = x - 1)
    OBVIOUS
  <1> DEFINE P == {a + 1, b + 1} = {x, y}
             Q == EdgeOf(x - 1, y - 1) = EdgeOf(a, b)
  <1>4. P <=> (a = x - 1 /\ b = y - 1) \/ (a = y - 1 /\ b = x - 1)
    BY <1>1, <1>3
  <1>5. Q <=> (a = x - 1 /\ b = y - 1) \/ (a = y - 1 /\ b = x - 1)
    BY <1>2
  <1> HIDE DEF P, Q
  <1>6. P <=> Q
    BY <1>4, <1>5
  <1>7. QED
    BY <1>6 DEF P, Q, SameEnds

LEMMA EitherRead ==
  ASSUME NEW B \in SUBSET Cell, NEW s, Lists(s, B), NEW n \in Nat, n <= NumNode,
         \A c \in B : c[1] < n /\ c[2] < n
  PROVE  LET m == Either(FromOne(s), n)
         IN  /\ DOMAIN m = 1 .. n /\ Len(m) = n
             /\ \A x, y \in 1 .. n : m[x][y] = IF EdgeOf(x - 1, y - 1) \in Folded(B) THEN 1 ELSE 0
             /\ MatrixEdges(m) = Mirrored(Folded(B))
             /\ \A k \in DOMAIN m : ToSet(m[k]) \subseteq {0, 1}
  <1> DEFINE m == Either(FromOne(s), n)
             F == Folded(B)
             t == FromOne(s)
             v(x, y) == IF \E k \in DOMAIN t : {t[k][1], t[k][2]} = {x, y} THEN 1 ELSE 0
  <1>1. m = [x \in 1 .. n |-> [y \in 1 .. n |-> v(x, y)]]
    BY DEF Either
  <1>2. \A x \in 1 .. n : x \in Int /\ x - 1 \in Node /\ x - 1 < n /\ x - 1 \in Int
    BY NumNodeAssumption DEF Node
  <1>3. \A k \in DOMAIN s : <<s[k][1], s[k][2]>> \in B /\ s[k][1] \in Int /\ s[k][2] \in Int
    <2>1. \A k \in DOMAIN s : s[k][1] \in Int /\ s[k][2] \in Int
      BY EntryFacts DEF Lists
    <2>2. QED
      BY <2>1 DEF Lists
  <1>4. DOMAIN t = DOMAIN s /\ \A k \in DOMAIN s : t[k][1] = s[k][1] + 1 /\ t[k][2] = s[k][2] + 1
    BY DEF FromOne
  <1> HIDE DEF t
  <1>6. ASSUME NEW x \in 1 .. n, NEW y \in 1 .. n
        PROVE  v(x, y) = IF EdgeOf(x - 1, y - 1) \in F THEN 1 ELSE 0
    <2>1. \A k \in DOMAIN s : {t[k][1], t[k][2]} = {x, y} <=> EdgeOf(x - 1, y - 1) = EdgeOf(s[k][1], s[k][2])
      <3> TAKE k \in DOMAIN s
      <3> DEFINE a == s[k][1]
                 b == s[k][2]
      <3>1. x \in Int /\ y \in Int /\ a \in Int /\ b \in Int
        BY <1>2, <1>3
      <3>2. t[k][1] = a + 1 /\ t[k][2] = b + 1
        BY <1>4
      <3> HIDE DEF a, b
      <3>3. SameEnds(x, y, a, b)
        BY <3>1, PairOfEnds
      <3>4. {t[k][1], t[k][2]} = {a + 1, b + 1}
        BY <3>2
      <3>5. {t[k][1], t[k][2]} = {x, y} <=> EdgeOf(x - 1, y - 1) = EdgeOf(a, b)
        BY Zenon, <3>3, <3>4 DEF SameEnds
      <3>6. QED
        BY Zenon, <3>5 DEF a, b
    <2>2. EdgeOf(x - 1, y - 1) \in F <=> \E k \in DOMAIN s : EdgeOf(x - 1, y - 1) = EdgeOf(s[k][1], s[k][2])
      <3>1. ASSUME NEW c \in B
            PROVE  \E k \in DOMAIN s : EdgeOf(c[1], c[2]) = EdgeOf(s[k][1], s[k][2])
        <4>1. PICK k \in DOMAIN s : c = <<s[k][1], s[k][2]>>
          BY DEF Lists
        <4>2. QED
          BY <4>1
      <3>2. ASSUME NEW k \in DOMAIN s
            PROVE  EdgeOf(s[k][1], s[k][2]) \in F
        <4> DEFINE c == <<s[k][1], s[k][2]>>
        <4>1. c \in B /\ EdgeOf(s[k][1], s[k][2]) = EdgeOf(c[1], c[2])
          BY <1>3
        <4> HIDE DEF c
        <4>2. QED
          BY <4>1 DEF Folded
      <3>3. QED
        BY <3>1, <3>2 DEF Folded
    <2>3. QED
      BY <1>4, <2>1, <2>2
  <1> HIDE DEF v, F
  <1>7. DOMAIN m = 1 .. n /\ Len(m) = n
    BY <1>1
  <1>8. \A x, y \in 1 .. n : m[x][y] = IF EdgeOf(x - 1, y - 1) \in F THEN 1 ELSE 0
    BY <1>1, <1>6
  <1>9. \A k \in DOMAIN m : ToSet(m[k]) \subseteq {0, 1}
    <2> TAKE k \in DOMAIN m
    <2>1. DOMAIN m[k] = 1 .. n /\ \A y \in 1 .. n : m[k][y] \in {0, 1}
      BY <1>1, <1>6, <1>7
    <2>2. QED
      BY <2>1 DEF ToSet
  <1> HIDE DEF m
  <1>10. F \in SUBSET Edge /\ \A e \in F : e[1] < n /\ e[2] < n
    BY FoldedFacts DEF F
  <1>11. MatrixEdges(m) = Mirrored(F)
    <2>1. \A x, y \in Node : <<x, y>> \in Mirrored(F) <=> EdgeOf(x, y) \in F
      BY <1>10, MirroredFacts
    <2>2. ASSUME NEW e \in Node \X Node
          PROVE  (e[1] < Len(m) /\ e[2] < Len(m) /\ m[e[1] + 1][e[2] + 1] # 0) <=> e \in Mirrored(F)
      <3>1. e = <<e[1], e[2]>> /\ e[1] \in Nat /\ e[2] \in Nat /\ e[1] \in Node /\ e[2] \in Node
        BY NumNodeAssumption DEF Node
      <3>2. e \in Mirrored(F) <=> EdgeOf(e[1], e[2]) \in F
        BY <2>1, <3>1
      <3>3. CASE e[1] < n /\ e[2] < n
        <4>1. e[1] + 1 \in 1 .. n /\ e[2] + 1 \in 1 .. n /\ (e[1] + 1) - 1 = e[1] /\ (e[2] + 1) - 1 = e[2]
          BY <3>1, <3>3
        <4>2. m[e[1] + 1][e[2] + 1] = IF EdgeOf(e[1], e[2]) \in F THEN 1 ELSE 0
          BY <1>8, <4>1
        <4>3. QED
          BY <1>7, <3>2, <3>3, <4>2
      <3>4. CASE ~ (e[1] < n /\ e[2] < n)
        <4>1. EdgeOf(e[1], e[2]) \notin F
          <5> DEFINE d == EdgeOf(e[1], e[2])
          <5>1. (d[1] = e[1] /\ d[2] = e[2]) \/ (d[1] = e[2] /\ d[2] = e[1])
            BY DEF EdgeOf
          <5> HIDE DEF d
          <5>2. ~ (d[1] < n /\ d[2] < n)
            BY <3>4, <5>1
          <5>3. QED
            BY <1>10, <5>2 DEF d
        <4>2. QED
          BY <1>7, <3>2, <3>4, <4>1
      <3>5. QED
        BY <3>3, <3>4
    <2>3. \A e \in Mirrored(F) : e \in Node \X Node
      BY <1>10, MirroredFacts DEF Cell
    <2>4. \A e : e \in MatrixEdges(m) <=> e \in Node \X Node /\ (e[1] < Len(m) /\ e[2] < Len(m) /\ m[e[1] + 1][e[2] + 1] # 0)
      BY DEF MatrixEdges
    <2>5. QED
      BY <2>2, <2>3, <2>4
  <1>12. QED
    BY <1>7, <1>8, <1>9, <1>11 DEF m, F

LEMMA DegOutRead ==
  ASSUME NEW B \in SUBSET Cell, NEW s, Lists(s, B), NEW n \in Nat, n <= NumNode,
         \A c \in B : c[1] < n /\ c[2] < n
  PROVE  LET d == DegOut(Either(FromOne(s), n))
         IN  \A k \in DOMAIN d : d[k] = Degree(Folded(B), k - 1)
  <1> DEFINE m == Either(FromOne(s), n)
             F == Folded(B)
  <1>1. /\ DOMAIN m = 1 .. n /\ Len(m) = n
        /\ \A x, y \in 1 .. n : m[x][y] = IF EdgeOf(x - 1, y - 1) \in F THEN 1 ELSE 0
    <2>1. DOMAIN m = 1 .. n /\ Len(m) = n
      BY DEF Either
    <2>2. \A x, y \in 1 .. n : m[x][y] = IF EdgeOf(x - 1, y - 1) \in F THEN 1 ELSE 0
      BY EitherRead
    <2>3. QED
      BY <2>1, <2>2
  <1>2. F \in SUBSET Edge /\ \A e \in F : e[1] < n /\ e[2] < n
    BY FoldedFacts
  <1> HIDE DEF m, F
  <1>3. DegOut(m) = [x \in 1 .. n |-> MapThenSumSet(LAMBDA y : m[y][x], 1 .. n) + m[x][x]]
    BY <1>1 DEF DegOut
  <1>4. ASSUME NEW k \in 1 .. n
        PROVE  MapThenSumSet(LAMBDA y : m[y][k], 1 .. n) + m[k][k] = Degree(F, k - 1)
    <2> DEFINE g == [y \in 1 .. n |-> m[y][k]]
               x == k - 1
               P == {y \in 1 .. n : g[y] = 1}
               Q == {y \in 0 .. n - 1 : EdgeOf(y, x) \in F}
               K == 1 .. n
    <2>1. IsFiniteSet(K) /\ IsFiniteSet(P)
      <3>1. IsFiniteSet(1 .. n)
        BY FS_Interval
      <3>2. P \in SUBSET (1 .. n)
        OBVIOUS
      <3> HIDE DEF P
      <3>3. QED
        BY <3>1, <3>2, FS_Subset
    <2>2. \A y \in 1 .. n : g[y] = m[y][k]
      OBVIOUS
    <2>3. \A y \in 1 .. n : g[y] = IF EdgeOf(y - 1, x) \in F THEN 1 ELSE 0
      BY <1>1
    <2> HIDE DEF g
    <2>4. MapThenSumSet(LAMBDA y : m[y][k], K) = SumFunctionOnSet(g, K)
      <3> HIDE DEF K
      <3>1. \A y \in K : g[y] = m[y][k]
        BY <2>2 DEF K
      <3>2. ColumnSum(m, k, K) = SumFunctionOnSet(g, K)
        BY <2>1, <3>1, ColumnIsSum
      <3>3. QED
        BY Zenon, <3>2 DEF ColumnSum
    <2>5. SumFunctionOnSet(g, K) = Cardinality(P)
      <3>1. \A y \in K : g[y] \in {0, 1}
        BY <2>3
      <3>2. P = {y \in K : g[y] = 1}
        OBVIOUS
      <3> HIDE DEF K, P
      <3>3. QED
        BY <2>1, <3>1, <3>2, SumOfOnes
    <2>6. Cardinality(Q) = Cardinality(P)
      <3> DEFINE f == [y \in P |-> y - 1]
      <3>1. \A y \in P : y \in 1 .. n /\ y - 1 \in 0 .. n - 1 /\ EdgeOf(y - 1, x) \in F
        BY <2>3
      <3>2. f \in [P -> Q]
        BY <3>1
      <3>3. \A a, b \in P : f[a] = f[b] => a = b
        BY <3>1
      <3>4. \A z \in Q : \E y \in P : f[y] = z
        <4> TAKE z \in Q
        <4>1. z + 1 \in 1 .. n /\ (z + 1) - 1 = z /\ EdgeOf(z, x) \in F
          OBVIOUS
        <4>2. z + 1 \in P
          BY <2>3, <4>1
        <4>3. QED
          BY <4>1, <4>2
      <3> HIDE DEF f, P, Q
      <3>5. QED
        BY <2>1, <3>2, <3>3, <3>4, SameCardinality
    <2>7. x \in 0 .. n - 1 /\ EdgeOf(x, x) = <<x, x>>
      BY DEF EdgeOf
    <2>8. m[k][k] = IF <<x, x>> \in F THEN 1 ELSE 0
      BY <1>1, <2>7
    <2> HIDE DEF x
    <2>9. Degree(F, x) = Cardinality(Q) + (IF <<x, x>> \in F THEN 1 ELSE 0)
      BY <1>2, <2>7, PartnersCounted
    <2>10. QED
      BY <2>4, <2>5, <2>6, <2>8, <2>9 DEF x
  <1>5. \A k \in 1 .. n : DegOut(m)[k] = Degree(F, k - 1)
    <2> TAKE k \in 1 .. n
    <2>1. DegOut(m)[k] = MapThenSumSet(LAMBDA y : m[y][k], 1 .. n) + m[k][k]
      BY <1>3
    <2>2. QED
      BY Zenon, <1>4, <2>1
  <1>6. DOMAIN DegOut(m) = 1 .. n
    BY <1>3
  <1>7. QED
    BY <1>5, <1>6 DEF m, F
-----------------------------------------------------------------------------
(****************************************************************************)
(* What is known of a session whose problem is meant, wherever it is.        *)
(****************************************************************************)
SideKnown ==
    IF session.front = "tool"
    THEN /\ arguments = session.words /\ files = session.files /\ OptionsKnown /\ deg_out = <<>>
         /\ phase \in {"options", "bounds", "method", "solve", "delete", "output", "exited", "crashed"}
         /\ phase # "options" => parsing = "done"
    ELSE /\ method = Meant.method
         /\ session.front = "bmatch_matrix" => N = Meant.n
         /\ phase \in {"bmatch_matrix", "bmatch_ijw", "solve", "delete", "output", "returned", "error", "crashed"}

\* The list that bmatch_ijw was given.
ListKnown == \E s : GraphList(s, Meant) /\ ijw_in = FromOne(s)

InputKnown ==
    /\ phase = "options" => stdin = session.text
    /\ phase = "bounds" =>
          /\ GraphList(ijw_vec, Meant) /\ num_node = LastIndex(Meant) + 1
          /\ stdin = IF Asked(session.words, "weights") = NULL THEN After(session.text, session.graph)
                     ELSE session.text
    /\ phase = "method" => GraphList(ijw_vec, Meant)
    /\ phase = "bmatch_matrix" =>
          session.front = "bmatch_matrix" /\ W = session.mat /\ deg_bdd = session.bounds
    /\ phase = "bmatch_ijw" => RowsMeant(ijw_bdd, Meant)
    /\ session.front # "tool" /\ phase # "bmatch_matrix" /\ phase # "error" => ListKnown

CallKnown ==
    /\ phase \in {"method", "solve", "delete", "output"} =>
          num_node \in LastIndex(Meant) + 1 .. Meant.n /\ BoundsOf(deg_bdd_vec, num_node, Meant)
    /\ phase \in {"solve", "delete", "output"} => InputOf(ijw_vec, Meant)
    /\ phase \in {"options", "bounds", "method", "solve"} => bmatch_wgt = Unset
    /\ phase = "solve" =>
          ALG = Meant.method /\ gptr = IF Meant.method \in {1, 2} THEN "unset" ELSE "none"

AnswerKnown ==
    /\ phase \in {"delete", "output"} =>
          \E B : /\ Answers(Meant, num_node, B, success, bmatch_wgt)
                 /\ bmatch_edge_vec = svecvec_2_ijw([e \in B |-> 1])
    /\ phase = "delete" /\ gptr = "unset" => ~ IsWellPosed(Meant)
    /\ AnswerReachesTheUser /\ OutcomeIsReported

MeantInv ==
    /\ session \in Sessions
    /\ IsMeant => SideKnown /\ InputKnown /\ CallKnown /\ AnswerKnown

LEMMA MeantIsWritten ==
  ASSUME session \in Sessions, IsMeant
  PROVE  /\ IsProblem(Meant) /\ Writes(session, Meant)
         /\ session.text \in Texts /\ session.mat \in Texts /\ session.bounds \in Texts
         /\ \A f \in DOMAIN session.files : session.files[f] \in Texts
         /\ session.front \in {"tool", "bmatch_matrix", "bmatch_ijw"}
  BY SessionAssumption DEF IsMeant, Meant, Texts

LEMMA WellPosedIs == WellPosed <=> IsWellPosed(Meant)
  BY DEF WellPosed, IsWellPosed

\* Nothing is promised before the end.
LEMMA NotYetEnded ==
  ASSUME phase \notin {"exited", "returned", "error", "crashed"}
  PROVE  AnswerReachesTheUser /\ OutcomeIsReported
  BY DEF AnswerReachesTheUser, OutcomeIsReported, Answered

LEMMA MeantInit == FInit => MeantInv
  <1> SUFFICES ASSUME FInit, IsMeant
               PROVE  SideKnown /\ InputKnown /\ CallKnown /\ AnswerKnown
    BY DEF MeantInv, FInit
  <1> USE DEF FInit
  <1>1. /\ IsProblem(Meant) /\ Writes(session, Meant)
        /\ session.front \in {"tool", "bmatch_matrix", "bmatch_ijw"}
    BY MeantIsWritten
  <1>2. phase \in {"options", "bmatch_matrix", "bmatch_ijw"}
    BY <1>1
  <1>3. CallKnown
    BY <1>2 DEF CallKnown, InterfaceInit
  <1>4. AnswerKnown
    BY <1>2, NotYetEnded DEF AnswerKnown
  <1>5. CASE session.front = "tool"
    <2>1. phase = "options"
      BY <1>5
    <2>2. ToolWrites(session, Meant)
      BY <1>1, <1>5 DEF Writes
    <2>3. arguments = session.words /\ files = session.files /\ deg_out = <<>> /\ stdin = session.text
      BY DEF ToolInit, ParameterInit, MatlabInit
    <2>4. OptionsKnown
      <3>1. OptionPairs(arguments)
        BY <2>2, <2>3 DEF ToolWrites
      <3>2. argv = Defaults /\ i = 1 /\ PP = Cleared /\ parsing = "defaults" /\ Len(argv) = 14
        BY DefaultsArePairs DEF ToolInit, ParameterInit
      <3>3. DOMAIN PP = Fields
        BY <3>2, FieldsOfRecord
      <3>4. \A f \in Fields : LastValue(argv, i - 1, f, Base[f], PP[f])
        <4>1. Base = PP /\ i - 1 = 0
          BY <3>2 DEF Base
        <4>2. QED
          BY <4>1, NothingSet
      <3>5. i \in Nat /\ i % 2 = 1 /\ i <= Len(argv) + 1
        BY <3>2
      <3>6. QED
        BY <3>1, <3>2, <3>3, <3>4, <3>5 DEF OptionsKnown
    <2>5. SideKnown
      BY <1>5, <2>1, <2>3, <2>4 DEF SideKnown
    <2>6. InputKnown
      BY <1>5, <2>1, <2>3 DEF InputKnown
    <2>7. QED
      BY <1>3, <1>4, <2>5, <2>6
  <1>6. CASE session.front = "bmatch_matrix"
    <2>1. phase = "bmatch_matrix"
      BY <1>6
    <2>2. MatlabWrites(session, Meant)
      BY <1>1, <1>6 DEF Writes
    <2>3. session.method = Meant.method /\ GraphMatrix(session.mat, Meant)
      BY <1>6, <2>2 DEF MatlabWrites
    <2>4. Len(session.mat) = Meant.n /\ Meant.n # 0
      BY <1>1, <2>3, ProblemFacts DEF GraphMatrix
    <2>5. session.mat # <<>>
      BY <2>4
    <2>6. W = session.mat /\ N = Meant.n /\ deg_bdd = session.bounds /\ method = Meant.method
      BY <2>3, <2>4, <2>5 DEF MatlabInit
    <2>7. SideKnown
      BY <1>6, <2>1, <2>6 DEF SideKnown
    <2>8. InputKnown
      BY <1>6, <2>1, <2>6 DEF InputKnown
    <2>9. QED
      BY <1>3, <1>4, <2>7, <2>8
  <1>7. CASE session.front = "bmatch_ijw"
    <2>1. phase = "bmatch_ijw"
      BY <1>7
    <2>2. MatlabWrites(session, Meant)
      BY <1>1, <1>7 DEF Writes
    <2>3. /\ session.method = Meant.method /\ session.mat = <<>> /\ session.bounds \in TwoRows(Meant)
          /\ GraphList(session.graph, Meant) /\ session.list = FromOne(session.graph)
      BY <1>7, <2>2 DEF MatlabWrites
    <2>4. ijw_bdd = session.bounds /\ ijw_in = session.list /\ method = Meant.method
      BY <2>3 DEF MatlabInit
    <2>5. RowsMeant(ijw_bdd, Meant)
      BY <1>1, <2>3, <2>4, TwoRowsMeant
    <2>6. ListKnown
      BY <2>3, <2>4 DEF ListKnown
    <2>7. SideKnown
      BY <1>7, <2>1, <2>4 DEF SideKnown
    <2>8. InputKnown
      BY <1>7, <2>1, <2>5, <2>6 DEF InputKnown
    <2>9. QED
      BY <1>3, <1>4, <2>7, <2>8
  <1>8. QED
    BY <1>1, <1>5, <1>6, <1>7
-----------------------------------------------------------------------------
(****************************************************************************)
(* The tool reads what was meant.                                            *)
(****************************************************************************)
\* A step of the tool, in a session whose problem is meant.
ToolGoesOn ==
    /\ session \in Sessions /\ IsMeant /\ session.front = "tool"
    /\ SideKnown /\ InputKnown /\ CallKnown /\ AnswerKnown
    /\ UNCHANGED <<mvars, session>>

LEMMA ToolSession ==
  ASSUME ToolGoesOn
  PROVE  /\ IsProblem(Meant) /\ ToolWrites(session, Meant)
         /\ session.text \in Texts /\ \A f \in DOMAIN session.files : session.files[f] \in Texts
         /\ arguments = session.words /\ files = session.files /\ OptionsKnown
         /\ deg_out = <<>> /\ deg_out' = <<>> /\ Meant' = Meant /\ session' = session
         /\ phase # "options" => parsing = "done"
  <1>1. /\ IsProblem(Meant) /\ Writes(session, Meant)
        /\ session.text \in Texts /\ \A f \in DOMAIN session.files : session.files[f] \in Texts
    BY MeantIsWritten DEF ToolGoesOn
  <1>2. ToolWrites(session, Meant)
    BY <1>1 DEF ToolGoesOn, Writes
  <1>3. /\ arguments = session.words /\ files = session.files /\ OptionsKnown /\ deg_out = <<>>
        /\ phase # "options" => parsing = "done"
    BY DEF ToolGoesOn, SideKnown
  <1>4. deg_out' = <<>> /\ Meant' = Meant /\ session' = session
    BY <1>3 DEF ToolGoesOn, Meant, mvars, mresults
  <1>5. QED
    BY <1>1, <1>2, <1>3, <1>4

\* What the options are when they have been parsed.
LEMMA OptionsRead ==
  ASSUME ToolGoesOn, parsing = "done"
  PROVE  /\ PP.weights = Asked(session.words, "weights") /\ PP.degrees = Asked(session.words, "degrees")
         /\ PP.sparse = Asked(session.words, "sparse") /\ PP.method = Asked(session.words, "method")
         /\ PP.const_l = Asked(session.words, "const_l") /\ PP.const_u = Asked(session.words, "const_u")
  <1>1. OptionsKnown /\ arguments = session.words
    BY ToolSession
  <1>2. \A f \in Fields : PP[f] = Asked(session.words, f)
    BY <1>1 DEF OptionsKnown
  <1>3. QED
    BY <1>2 DEF Fields

\* Options that stay as they are.
LEMMA OptionsStay ==
  ASSUME OptionsKnown, UNCHANGED pvars
  PROVE  OptionsKnown'
  BY DEF OptionsKnown, pvars, Base

\* The tool stays on its side, whatever it does after the options.
LEMMA ToolStays ==
  ASSUME ToolGoesOn, UNCHANGED pvars, files' = files, parsing = "done",
         phase' \in {"options", "bounds", "method", "solve", "delete", "output", "exited", "crashed"}
  PROVE  SideKnown'
  <1>1. /\ arguments = session.words /\ files = session.files /\ OptionsKnown
        /\ deg_out' = <<>> /\ session' = session
    BY ToolSession
  <1>2. OptionsKnown'
    BY <1>1, OptionsStay
  <1>3. arguments' = arguments /\ parsing' = parsing
    BY DEF pvars
  <1>4. session'.front = "tool"
    BY <1>1 DEF ToolGoesOn
  <1>5. QED
    BY <1>1, <1>2, <1>3, <1>4 DEF SideKnown

\* A block that is found behind an option or where it was typed is what is read.
Found(s, option, typed, block) ==
    IF option = NULL THEN Holds(typed, block)
    ELSE option[2] \in DOMAIN s.files /\ Holds(s.files[option[2]], block)

LEMMA FoundIsRead ==
  ASSUME ToolGoesOn, NEW o, NEW block, Rectangle(block), stdin \in Texts, Found(session, o, stdin, block)
  PROVE  read_mn_matrix(Text(o)) =
           [rows |-> block, rest |-> After(IF o = NULL THEN stdin ELSE session.files[o[2]], block)]
  <1>1. files = session.files /\ \A f \in DOMAIN files : files[f] \in Texts
    BY ToolSession
  <1>2. Text(o) \in Texts /\ Holds(Text(o), block)
        /\ Text(o) = IF o = NULL THEN stdin ELSE session.files[o[2]]
    BY <1>1 DEF Found, Text
  <1>3. QED
    BY <1>2, HeldIsRead

\* Matrices and lists are rectangles.
LEMMA GraphIsRectangle ==
  ASSUME NEW p, IsProblem(p), NEW m, GraphMatrix(m, p) \/ GraphList(m, p)
  PROVE  Rectangle(m)
  <1>1. CASE GraphMatrix(m, p)
    <2>1. Len(m) = p.n /\ \A x \in 1 .. p.n : Len(m[x]) = p.n
      BY <1>1 DEF GraphMatrix
    <2>2. p.n \in Nat \ {0}
      BY ProblemFacts
    <2>3. QED
      BY <2>1, <2>2 DEF Rectangle
  <1>2. CASE GraphList(m, p)
    <2>1. m \in Seq(Entry) /\ DOMAIN m = 1 .. Len(m) /\ Len(m) \in Nat
      BY <1>2, GraphListFacts
    <2>2. \A k \in 1 .. Len(m) : Len(m[k]) = 3
      <3> TAKE k \in 1 .. Len(m)
      <3>1. m[k] = <<m[k][1], m[k][2], m[k][3]>>
        BY <2>1, EntryFacts
      <3> DEFINE a == m[k][1]
                 b == m[k][2]
                 c == m[k][3]
      <3>2. m[k] = <<a, b, c>>
        BY <3>1
      <3> HIDE DEF a, b, c
      <3>3. Len(<<a, b, c>>) = 3
        OBVIOUS
      <3>4. QED
        BY <3>2, <3>3
    <2>3. \E c \in Nat \ {0} : \A k \in 1 .. Len(m) : Len(m[k]) = c
      <3>1. 3 \in Nat \ {0}
        OBVIOUS
      <3>2. QED
        BY Zenon, <2>2, <3>1
    <2>4. QED
      BY <2>1, <2>3 DEF Rectangle
  <1>3. QED
    BY <1>1, <1>2

LEMMA OptionsMeant ==
  ASSUME ToolGoesOn, Options
  PROVE  SideKnown' /\ InputKnown' /\ CallKnown' /\ AnswerKnown'
  <1>1. /\ phase = "options" /\ phase' = "options" /\ Parse /\ UNCHANGED tvars
        /\ bmatch_wgt' = bmatch_wgt
    BY DEF Options, ivars, answer
  <1>2. /\ arguments = session.words /\ files = session.files /\ OptionsKnown
        /\ deg_out' = <<>> /\ session' = session /\ session.front = "tool"
    BY ToolSession DEF ToolGoesOn
  <1>3. OptionsKnown' /\ arguments' = arguments
    BY <1>1, <1>2, ParseKeeps
  <1>4. files' = files /\ stdin' = stdin
    BY <1>1 DEF tvars
  <1>5. SideKnown'
    BY <1>1, <1>2, <1>3, <1>4 DEF SideKnown
  <1>6. stdin = session.text /\ bmatch_wgt = Unset
    BY <1>1 DEF ToolGoesOn, InputKnown, CallKnown
  <1>7. InputKnown'
    BY <1>1, <1>2, <1>4, <1>6 DEF InputKnown
  <1>8. CallKnown'
    BY <1>1, <1>6 DEF CallKnown
  <1>9. AnswerReachesTheUser' /\ OutcomeIsReported'
    BY <1>1 DEF AnswerReachesTheUser, OutcomeIsReported, Answered
  <1>10. AnswerKnown'
    BY <1>1, <1>9 DEF AnswerKnown
  <1>11. QED
    BY <1>5, <1>7, <1>8, <1>10

LEMMA ReadWeightsMeant ==
  ASSUME ToolGoesOn, ReadWeights
  PROVE  SideKnown' /\ InputKnown' /\ CallKnown' /\ AnswerKnown'
  <1> DEFINE o == Asked(session.words, "weights")
             g == session.graph
             r == read_mn_matrix(Text(o))
  <1>1. phase = "options" /\ parsing = "done" /\ phase' = "bounds"
    BY DEF ReadWeights
  <1>2. /\ UNCHANGED pvars /\ files' = files /\ bmatch_wgt' = bmatch_wgt
        /\ num_node' = NumIjwNode(ijw_vec')
    BY DEF ReadWeights, answer
  <1>3. PP.weights = o /\ PP.sparse = Asked(session.words, "sparse")
    BY <1>1, OptionsRead
  <1>4. /\ IsProblem(Meant) /\ ToolWrites(session, Meant) /\ session.text \in Texts
        /\ \A f \in DOMAIN session.files : session.files[f] \in Texts
        /\ files = session.files /\ Meant' = Meant /\ session' = session /\ session.front = "tool"
    BY ToolSession DEF ToolGoesOn
  <1>5. stdin = session.text /\ bmatch_wgt = Unset
    BY <1>1 DEF ToolGoesOn, InputKnown, CallKnown
  <1>6. /\ stdin' = IF o = NULL THEN r.rest ELSE stdin
        /\ ijw_vec' = IF PP.sparse = 1 THEN ijw_read_ijw(r.rows)
                      ELSE ijw_nnz(ijw_upper_tri(ijw_read_matrix(r.rows), FALSE))
    BY <1>3 DEF ReadWeights, Consume
  <1>7. /\ Found(session, o, session.text, g)
        /\ IF PP.sparse = 1 THEN GraphList(g, Meant) ELSE GraphMatrix(g, Meant)
    BY <1>3, <1>4 DEF ToolWrites, Found
  <1> HIDE DEF o, g
  <1>8. Rectangle(g)
    BY <1>4, <1>7, GraphIsRectangle
  <1>9. r.rows = g /\ (o = NULL => r.rest = After(session.text, g))
    <2>1. r = [rows |-> g, rest |-> After(IF o = NULL THEN stdin ELSE session.files[o[2]], g)]
      BY <1>4, <1>5, <1>7, <1>8, FoundIsRead
    <2>2. QED
      BY <1>5, <2>1
  <1> HIDE DEF r
  <1>10. GraphList(ijw_vec', Meant)
    <2>1. CASE PP.sparse = 1
      BY <1>6, <1>7, <1>9, <2>1, SparseIsMeant
    <2>2. CASE PP.sparse # 1
      <3>1. GraphMatrix(g, Meant)
        BY <1>7, <2>2
      <3>2. g \in Texts
        <4>1. Holds(Text(o), g) /\ Text(o) \in Texts
          BY <1>4, <1>5, <1>7 DEF Found, Text
        <4>2. r.rows \in Texts
          BY <4>1, ReadBlock DEF r, Matrix
        <4>3. QED
          BY <1>9, <4>2
      <3>3. QED
        BY <1>4, <1>6, <1>9, <2>2, <3>1, <3>2, DenseIsMeant
    <2>3. QED
      BY <2>1, <2>2
  <1>11. num_node' = LastIndex(Meant) + 1
    BY <1>2, <1>4, <1>10, NodesCounted
  <1>12. stdin' = IF Asked(session.words, "weights") = NULL THEN After(session.text, session.graph)
                  ELSE session.text
    BY <1>5, <1>6, <1>9 DEF o, g
  <1>13. SideKnown'
    BY <1>1, <1>2, ToolStays
  <1>14. InputKnown'
    BY <1>1, <1>4, <1>10, <1>11, <1>12 DEF InputKnown
  <1>15. CallKnown'
    BY <1>1, <1>2, <1>5 DEF CallKnown
  <1>16. AnswerReachesTheUser' /\ OutcomeIsReported'
    BY <1>1 DEF AnswerReachesTheUser, OutcomeIsReported, Answered
  <1>17. AnswerKnown'
    BY <1>1, <1>16 DEF AnswerKnown
  <1>18. QED
    BY <1>13, <1>14, <1>15, <1>17
LEMMA AskedIsNumber ==
  ASSUME NEW words, OptionPairs(words)
  PROVE  Asked(words, "const_u") \in Int
  <1> DEFINE P == Places(words, "const_u")
  <1>1. CASE P = {}
    BY <1>1 DEF Asked, Defaulted
  <1>2. CASE P # {}
    <2>1. \A k \in P : k \in 1 .. Len(words) /\ k % 2 = 1
      BY DEF Places, OptionPairs
    <2>2. Len(words) \in Nat /\ Len(words) % 2 = 0 /\ DOMAIN words = 1 .. Len(words)
      BY DEF OptionPairs
    <2>3. IsFiniteSet(P)
      <3>1. P \in SUBSET (1 .. Len(words)) /\ IsFiniteSet(1 .. Len(words))
        <4> DEFINE n == Len(words)
        <4>1. n \in Int
          BY <2>2
        <4> HIDE DEF n
        <4>2. IsFiniteSet(1 .. n)
          BY <4>1, FS_Interval
        <4>3. IsFiniteSet(1 .. Len(words))
          BY Zenon, <4>2 DEF n
        <4>4. QED
          BY <2>1, <4>3
      <3> HIDE DEF P
      <3>2. QED
        BY <3>1, FS_Subset
    <2>4. Max(P) \in P
      <3>1. P \in SUBSET Int
        BY <2>1
      <3> HIDE DEF P
      <3>2. QED
        BY <1>2, <2>3, <3>1, MaxIsGreatest
    <2> DEFINE k == Max(P)
    <2>5. Asked(words, "const_u") = Value("const_u", words[k + 1])
      BY <1>2 DEF Asked
    <2>6. k \in 1 .. Len(words) /\ k % 2 = 1
      BY <2>1, <2>4
    <2> HIDE DEF k
    <2>7. k + 1 \in DOMAIN words
      BY <2>2, <2>6
    <2>8. words[k + 1][1] = "number" => words[k + 1][2] \in Int
      BY <2>7 DEF OptionPairs
    <2>9. QED
      BY <2>5, <2>8 DEF Value, atoi
  <1>3. QED
    BY <1>1, <1>2

LEMMA ConstantBoundsMeant ==
  ASSUME ToolGoesOn, ConstantBounds
  PROVE  SideKnown' /\ InputKnown' /\ CallKnown' /\ AnswerKnown'
  <1>1. phase = "bounds" /\ phase' = "method" /\ PP.const_u >= 0
    BY DEF ConstantBounds
  <1>2. /\ UNCHANGED pvars /\ files' = files /\ bmatch_wgt' = bmatch_wgt
        /\ num_node' = num_node /\ ijw_vec' = ijw_vec
        /\ deg_bdd_vec' = init_const_degrees(num_node, Max({PP.const_l, 0}), PP.const_u)
    BY DEF ConstantBounds, answer, tvars
  <1>3. /\ IsProblem(Meant) /\ ToolWrites(session, Meant) /\ Meant' = Meant /\ session' = session
        /\ session.front = "tool" /\ parsing = "done"
    BY <1>1, ToolSession DEF ToolGoesOn
  <1>4. PP.const_l = Asked(session.words, "const_l") /\ PP.const_u = Asked(session.words, "const_u")
    BY <1>3, OptionsRead
  <1>5. \A x \in Node : x < Meant.n => Meant.lb[x] = Max({PP.const_l, 0}) /\ Meant.ub[x] = PP.const_u
    <2> DEFINE u == Asked(session.words, "const_u")
    <2>1. u \in Int
      BY <1>3, AskedIsNumber DEF ToolWrites
    <2>2. \/ /\ u >= 0
             /\ \A x \in Node : x < Meant.n => Meant.lb[x] = Max({PP.const_l, 0}) /\ Meant.ub[x] = u
          \/ u < 0
      BY Zenon, <1>3, <1>4 DEF ToolWrites
    <2> HIDE DEF u
    <2>3. ~ (u < 0) /\ PP.const_u = u
      BY <1>1, <1>4, <2>1 DEF u
    <2>4. QED
      BY <2>2, <2>3
  <1>6. GraphList(ijw_vec, Meant) /\ num_node = LastIndex(Meant) + 1 /\ bmatch_wgt = Unset
    BY <1>1 DEF ToolGoesOn, InputKnown, CallKnown
  <1>7. LastIndex(Meant) + 1 \in 0 .. Meant.n /\ Meant.n \in Nat /\ LastIndex(Meant) \in Int
    BY <1>3, NodesOf, LastIndexFacts, ProblemFacts
  <1>8. BoundsOf(deg_bdd_vec', num_node', Meant)
    <2>1. num_node \in Nat /\ num_node <= Meant.n
      BY <1>6, <1>7
    <2>2. BoundsOf(init_const_degrees(num_node, Max({PP.const_l, 0}), PP.const_u), num_node, Meant)
      BY <1>3, <1>5, <2>1, SameForAll
    <2>3. QED
      BY <1>2, <2>2
  <1>9. num_node' \in LastIndex(Meant) + 1 .. Meant.n
    BY <1>2, <1>6, <1>7
  <1>10. SideKnown'
    BY <1>1, <1>2, <1>3, ToolStays
  <1>11. InputKnown'
    BY <1>1, <1>2, <1>3, <1>6 DEF InputKnown
  <1>12. CallKnown'
    BY <1>1, <1>2, <1>3, <1>6, <1>8, <1>9 DEF CallKnown
  <1>13. AnswerReachesTheUser' /\ OutcomeIsReported'
    BY <1>1 DEF AnswerReachesTheUser, OutcomeIsReported, Answered
  <1>14. AnswerKnown'
    BY <1>1, <1>13 DEF AnswerKnown
  <1>15. QED
    BY <1>10, <1>11, <1>12, <1>14

LEMMA ReadBoundsMeant ==
  ASSUME ToolGoesOn, ReadBounds, stdin \in Texts
  PROVE  SideKnown' /\ InputKnown' /\ CallKnown' /\ AnswerKnown' /\ phase' = "method"
  <1> DEFINE o == Asked(session.words, "degrees")
             r == read_mn_matrix(Text(o))
             v == read_degrees(r.rows, num_node)
  <1>1. phase = "bounds" /\ PP.const_u < 0
    BY DEF ReadBounds
  <1>2. /\ UNCHANGED pvars /\ files' = files /\ bmatch_wgt' = bmatch_wgt /\ ijw_vec' = ijw_vec
    BY DEF ReadBounds, answer
  <1>3. /\ IsProblem(Meant) /\ ToolWrites(session, Meant) /\ Meant' = Meant /\ session' = session
        /\ session.front = "tool" /\ parsing = "done"
    BY <1>1, ToolSession DEF ToolGoesOn
  <1>4. PP.degrees = o /\ PP.const_u = Asked(session.words, "const_u")
    BY <1>3, OptionsRead
  <1>5. /\ deg_bdd_vec' = v /\ num_node' = Len(v)
        /\ ~ (Len(v) < num_node) => phase' = "method"
    BY <1>4 DEF ReadBounds
  <1>6. /\ GraphList(ijw_vec, Meant) /\ num_node = LastIndex(Meant) + 1 /\ bmatch_wgt = Unset
        /\ stdin = IF Asked(session.words, "weights") = NULL THEN After(session.text, session.graph)
                   ELSE session.text
    BY <1>1 DEF ToolGoesOn, InputKnown, CallKnown
  <1>7. ~ (PP.const_u >= 0)
    <2>1. PP.const_u \in Int
      <3>1. OptionPairs(session.words)
        BY <1>3 DEF ToolWrites
      <3>2. QED
        BY <1>4, <3>1, AskedIsNumber
    <2>2. QED
      BY <1>1, <2>1
  <1>8. session.shape \in ToolShapes(Meant) /\ Found(session, o, stdin, session.shape)
    BY <1>3, <1>4, <1>6, <1>7 DEF ToolWrites, Found
  <1> HIDE DEF o
  <1>9. BoundsFrom(session.shape, LastIndex(Meant) + 1, Meant)
    BY <1>3, <1>8, ToolShapesRead
  <1>10. r.rows = session.shape
    <2>1. Rectangle(session.shape)
      BY <1>9 DEF BoundsFrom
    <2>2. r = [rows |-> session.shape,
               rest |-> After(IF o = NULL THEN stdin ELSE session.files[o[2]], session.shape)]
      BY <1>8, <2>1, FoundIsRead
    <2>3. QED
      BY <2>2
  <1> HIDE DEF r
  <1>11. v = read_degrees(session.shape, LastIndex(Meant) + 1)
    BY <1>6, <1>10
  <1> HIDE DEF v
  <1>12. Len(v) \in LastIndex(Meant) + 1 .. Meant.n /\ BoundsOf(v, Len(v), Meant)
    BY <1>9, <1>11 DEF BoundsFrom
  <1>13. ~ (Len(v) < num_node)
    <2>1. LastIndex(Meant) \in Int /\ Meant.n \in Nat
      BY <1>3, LastIndexFacts, ProblemFacts
    <2>2. QED
      BY <1>6, <1>12, <2>1
  <1>14. phase' = "method"
    BY <1>5, <1>13
  <1>15. SideKnown'
    BY <1>1, <1>2, <1>3, <1>14, ToolStays
  <1>16. InputKnown'
    BY <1>2, <1>3, <1>6, <1>14 DEF InputKnown
  <1>17. CallKnown'
    BY <1>2, <1>3, <1>5, <1>6, <1>12, <1>14 DEF CallKnown
  <1>18. AnswerReachesTheUser' /\ OutcomeIsReported'
    BY <1>14 DEF AnswerReachesTheUser, OutcomeIsReported, Answered
  <1>19. AnswerKnown'
    BY <1>14, <1>18 DEF AnswerKnown
  <1>20. QED
    BY <1>14, <1>15, <1>16, <1>17, <1>19

LEMMA ChooseMethodMeant ==
  ASSUME ToolGoesOn, ChooseMethod
  PROVE  SideKnown' /\ InputKnown' /\ CallKnown' /\ AnswerKnown'
  <1>1. phase = "method" /\ phase' = "solve"
    BY DEF ChooseMethod
  <1>2. /\ UNCHANGED pvars /\ files' = files /\ bmatch_wgt' = bmatch_wgt
        /\ num_node' = num_node /\ deg_bdd_vec' = deg_bdd_vec
    BY DEF ChooseMethod, answer, tvars
  <1>3. /\ IsProblem(Meant) /\ ToolWrites(session, Meant) /\ Meant' = Meant /\ session' = session
        /\ session.front = "tool" /\ parsing = "done"
    BY <1>1, ToolSession DEF ToolGoesOn
  <1>4. PP.method = Meant.method
    BY <1>3, OptionsRead DEF ToolWrites
  <1>5. /\ ALG' = Meant.method /\ gptr' = IF Meant.method \in {1, 2} THEN "unset" ELSE "none"
        /\ ijw_vec' = SolverInput(Meant.method, ijw_vec)
    BY <1>4 DEF ChooseMethod, NewSolver
  <1>6. /\ GraphList(ijw_vec, Meant) /\ bmatch_wgt = Unset
        /\ num_node \in LastIndex(Meant) + 1 .. Meant.n /\ BoundsOf(deg_bdd_vec, num_node, Meant)
    BY <1>1 DEF ToolGoesOn, InputKnown, CallKnown
  <1>7. InputOf(ijw_vec', Meant)
    BY <1>3, <1>5, <1>6, InputMeant
  <1>8. SideKnown'
    BY <1>1, <1>2, <1>3, ToolStays
  <1>9. InputKnown'
    BY <1>1, <1>3 DEF InputKnown
  <1>10. CallKnown'
    BY <1>1, <1>2, <1>3, <1>5, <1>6, <1>7 DEF CallKnown
  <1>11. AnswerReachesTheUser' /\ OutcomeIsReported'
    BY <1>1 DEF AnswerReachesTheUser, OutcomeIsReported, Answered
  <1>12. AnswerKnown'
    BY <1>1, <1>11 DEF AnswerKnown
  <1>13. QED
    BY <1>8, <1>9, <1>10, <1>12

\* Neither the help nor an unknown method is in the way.
LEMMA NotRefused ==
  ASSUME ToolGoesOn
  PROVE  ~ ExitHelp /\ ~ RefuseMethod
  <1>1. ~ ExitHelp
    BY ToolSession DEF ExitHelp, OptionsKnown
  <1>2. ASSUME RefuseMethod
        PROVE  FALSE
    <2>1. phase = "method" /\ PP.method \notin 1 .. 5
      BY <1>2 DEF RefuseMethod
    <2>2. IsProblem(Meant) /\ ToolWrites(session, Meant) /\ parsing = "done"
      BY <2>1, ToolSession
    <2>3. PP.method = Meant.method
      BY <2>2, OptionsRead DEF ToolWrites
    <2>4. QED
      BY <2>1, <2>2, <2>3, ProblemFacts
  <1>3. QED
    BY <1>1, <1>2
-----------------------------------------------------------------------------
(****************************************************************************)
(* What is read off is what was answered.                                    *)
(****************************************************************************)
LEMMA ListFolded ==
  ASSUME NEW B, NEW s, Lists(s, B)
  PROVE  /\ {EdgeOf(t[1], t[2]) : t \in ToSet(s)} = Folded(B)
         /\ ListEdges(s, 0) = B
         /\ ListEdges(FromOne(s), 1) = B
  <1>1. \A k \in DOMAIN s : <<s[k][1], s[k][2]>> \in B /\ s[k][1] \in Int /\ s[k][2] \in Int
    <2>1. \A k \in DOMAIN s : s[k][1] \in Int /\ s[k][2] \in Int
      BY EntryFacts DEF Lists
    <2>2. QED
      BY <2>1 DEF Lists
  <1>2. \A c \in B : \E k \in DOMAIN s : c = <<s[k][1], s[k][2]>>
    BY DEF Lists
  <1>3. {EdgeOf(t[1], t[2]) : t \in ToSet(s)} = Folded(B)
    <2>1. ASSUME NEW t \in ToSet(s)
          PROVE  EdgeOf(t[1], t[2]) \in Folded(B)
      <3>1. PICK k \in DOMAIN s : t = s[k]
        BY DEF ToSet
      <3> DEFINE c == <<s[k][1], s[k][2]>>
      <3>2. c \in B /\ EdgeOf(t[1], t[2]) = EdgeOf(c[1], c[2])
        BY <1>1, <3>1
      <3> HIDE DEF c
      <3>3. QED
        BY <3>2 DEF Folded
    <2>2. ASSUME NEW c \in B
          PROVE  \E t \in ToSet(s) : EdgeOf(t[1], t[2]) = EdgeOf(c[1], c[2])
      <3>1. PICK k \in DOMAIN s : c = <<s[k][1], s[k][2]>>
        BY <1>2
      <3>2. s[k] \in ToSet(s) /\ EdgeOf(s[k][1], s[k][2]) = EdgeOf(c[1], c[2])
        BY <3>1 DEF ToSet
      <3>3. QED
        BY <3>2
    <2>3. QED
      BY <2>1, <2>2 DEF Folded
  <1>4. ListEdges(s, 0) = B
    <2>1. \A k \in DOMAIN s : <<s[k][1] - 0, s[k][2] - 0>> = <<s[k][1], s[k][2]>>
      <3> TAKE k \in DOMAIN s
      <3> DEFINE a == s[k][1]
                 b == s[k][2]
      <3>1. a \in Int /\ b \in Int
        BY <1>1
      <3> HIDE DEF a, b
      <3>2. a - 0 = a /\ b - 0 = b
        BY <3>1
      <3>3. QED
        BY Zenon, <3>2 DEF a, b
    <2>2. QED
      BY <1>1, <1>2, <2>1 DEF ListEdges
  <1>5. ListEdges(FromOne(s), 1) = B
    <2> DEFINE t == FromOne(s)
    <2>1. DOMAIN t = DOMAIN s /\ \A k \in DOMAIN s : t[k][1] = s[k][1] + 1 /\ t[k][2] = s[k][2] + 1
      BY DEF FromOne
    <2> HIDE DEF t
    <2>2. \A k \in DOMAIN s : <<t[k][1] - 1, t[k][2] - 1>> = <<s[k][1], s[k][2]>>
      <3> TAKE k \in DOMAIN s
      <3> DEFINE a == s[k][1]
                 b == s[k][2]
      <3>1. a \in Int /\ b \in Int /\ t[k][1] = a + 1 /\ t[k][2] = b + 1
        BY <1>1, <2>1
      <3> HIDE DEF a, b
      <3>2. t[k][1] - 1 = a /\ t[k][2] - 1 = b
        BY <3>1
      <3>3. QED
        BY Zenon, <3>2 DEF a, b
    <2>3. ListEdges(t, 1) = B
      BY <1>1, <1>2, <2>1, <2>2 DEF ListEdges
    <2>4. QED
      BY <2>3 DEF t
  <1>6. QED
    BY <1>3, <1>4, <1>5

LEMMA AnswerIsBMatching ==
  ASSUME NEW p, IsProblem(p), NEW n, NEW B, NEW v, Answers(p, n, B, 1, v), p.method # 1
  PROVE  IsBMatching(Folded(B), DOMAIN p.w, p.ub)
  <1>1. p.method # 5 /\ IsBMatching(B, DOMAIN p.w, p.ub) /\ B \subseteq DOMAIN p.w /\ B \in SUBSET Cell
    BY DEF Answers
  <1>2. B \in SUBSET Edge
    BY <1>1, ProblemFacts
  <1>3. Folded(B) = B
    BY <1>1, <1>2, FoldedFacts
  <1>4. QED
    BY <1>1, <1>3

\* The matching an answer stands for, once the edges R have been read off.
LEMMA ReadOffReaches ==
  ASSUME IsProblem(Meant'), NEW n, NEW B, NEW v, Answers(Meant', n, B, success', v),
         Lists(bmatch_edge_vec', B), NEW R, ReadOff' = R, Folded(R) = Folded(B),
         ~ IsList' => \A k \in DOMAIN Dense' : ToSet(Dense'[k]) \subseteq {0, 1},
         ~ IsList' /\ ~ (session'.front = "tool" /\ Meant'.method = 5) =>
             \A e \in R : <<e[2], e[1]>> \in R,
         \A k \in DOMAIN deg_out' : deg_out'[k] = Degree(Folded(B), k - 1)
  PROVE  AnswerReachesTheUser'
  <1>1. Matched' = Folded(B)
    BY DEF Matched, Folded
  <1>2. {EdgeOf(t[1], t[2]) : t \in ToSet(bmatch_edge_vec')} = Folded(B)
    BY ListFolded
  <1>3. success' = 1 /\ Meant'.method # 1 => IsBMatching(Folded(B), DOMAIN Meant'.w, Meant'.ub)
    BY AnswerIsBMatching
  <1>4. QED
    BY <1>1, <1>2, <1>3 DEF AnswerReachesTheUser
LEMMA WriteMatchingMeant ==
  ASSUME ToolGoesOn, WriteMatching
  PROVE  SideKnown' /\ InputKnown' /\ CallKnown' /\ AnswerKnown'
  <1> DEFINE s == bmatch_edge_vec
             n == num_node
  <1>1. phase = "output" /\ phase' = "exited" /\ status' = 255 - success
    BY DEF WriteMatching, Exit
  <1>2. /\ UNCHANGED pvars /\ files' = files /\ success' = success
        /\ bmatch_edge_vec' = s
        /\ printed' = IF PP.sparse = 1 THEN s
                      ELSE IF PP.method = 5 THEN ijw_write_matrix(n, s)
                      ELSE ijw_write_matrix(n, ijw_add_upper_tri_transpose(s, TRUE))
    BY DEF WriteMatching, answer
  <1>3. /\ IsProblem(Meant) /\ ToolWrites(session, Meant) /\ Meant' = Meant /\ session' = session
        /\ session.front = "tool" /\ parsing = "done" /\ deg_out' = <<>>
    BY <1>1, ToolSession DEF ToolGoesOn
  <1>4. PP.method = Meant.method /\ PP' = PP
    BY <1>2, <1>3, OptionsRead DEF ToolWrites, pvars
  <1>5. n \in LastIndex(Meant) + 1 .. Meant.n
    BY <1>1 DEF ToolGoesOn, CallKnown
  <1>6. n \in Nat
    BY <1>3, <1>5, LastIndexFacts, ProblemFacts
  <1>7. PICK B : Answers(Meant, n, B, success, bmatch_wgt) /\ s = svecvec_2_ijw([e \in B |-> 1])
    BY <1>1 DEF ToolGoesOn, AnswerKnown
  <1> HIDE DEF s, n
  <1>8. /\ B \in SUBSET Cell /\ \A c \in B : c[1] < n /\ c[2] < n
        /\ success \in {0, 1} /\ Lists(s, B)
        /\ Meant.method # 5 => B \in SUBSET Edge
    <2>1. B \in SUBSET Cell /\ (\A c \in B : c[1] < n /\ c[2] < n) /\ success \in {0, 1}
          /\ (Meant.method # 5 => B \subseteq DOMAIN Meant.w)
      BY <1>7 DEF Answers
    <2>2. Lists(s, B)
      BY <1>7, <2>1, AnswerListed
    <2>3. DOMAIN Meant.w \in SUBSET Edge
      BY <1>3, ProblemFacts
    <2>4. QED
      BY <2>1, <2>2, <2>3
  <1>9. IsList' <=> PP.sparse = 1
    BY <1>3, <1>4 DEF IsList
  <1>10. Dense' = printed'
    BY <1>3 DEF Dense
  <1>11. ReadOff' = IF PP.sparse = 1 THEN ListEdges(printed', 0) ELSE MatrixEdges(printed')
    BY <1>3, <1>9, <1>10 DEF ReadOff
  <1>12. \A k \in DOMAIN deg_out' : deg_out'[k] = Degree(Folded(B), k - 1)
    BY <1>3
  <1>13. IsProblem(Meant') /\ Answers(Meant', n, B, success', bmatch_wgt) /\ Lists(bmatch_edge_vec', B)
    BY <1>2, <1>3, <1>7, <1>8
  <1>14. AnswerReachesTheUser'
    <2>1. CASE PP.sparse = 1
      <3>1. ReadOff' = B
        BY <1>2, <1>8, <1>11, <2>1, ListFolded
      <3>2. QED
        BY <1>9, <1>12, <1>13, <2>1, <3>1, ReadOffReaches
    <2>2. CASE PP.sparse # 1 /\ Meant.method = 5
      <3> DEFINE m == ijw_write_matrix(n, s)
      <3>1. printed' = m
        BY <1>2, <1>4, <2>2
      <3>2. MatrixEdges(m) = B /\ \A k \in DOMAIN m : ToSet(m[k]) \subseteq {0, 1}
        BY <1>6, <1>8, MatrixWritten
      <3> HIDE DEF m
      <3>3. ReadOff' = B /\ \A k \in DOMAIN Dense' : ToSet(Dense'[k]) \subseteq {0, 1}
        BY <1>10, <1>11, <2>2, <3>1, <3>2
      <3>4. session'.front = "tool" /\ Meant'.method = 5
        BY <1>3, <2>2
      <3>5. QED
        BY <1>12, <1>13, <3>3, <3>4, ReadOffReaches
    <2>3. CASE PP.sparse # 1 /\ Meant.method # 5
      <3> DEFINE b == ijw_add_upper_tri_transpose(s, TRUE)
                 m == ijw_write_matrix(n, b)
                 R == Mirrored(B)
      <3>1. printed' = m
        BY <1>2, <1>4, <2>3
      <3>2. B \in SUBSET Edge
        BY <1>8, <2>3
      <3>3. Lists(b, R)
        BY <1>8, <3>2, BothListed
      <3>4. /\ R \in SUBSET Cell /\ \A c \in R : <<c[2], c[1]>> \in R
            /\ \A c \in R : c[1] < n /\ c[2] < n
        <4>1. R \in SUBSET Cell
          BY <3>2, MirroredFacts
        <4>2. \A c \in R : <<c[2], c[1]>> \in R
          BY <3>2, MirroredFacts
        <4>3. \A c \in R : c[1] < n /\ c[2] < n
          BY <1>8 DEF Mirrored
        <4>4. QED
          BY <4>1, <4>2, <4>3
      <3> HIDE DEF R, b
      <3>5. MatrixEdges(m) = R /\ \A k \in DOMAIN m : ToSet(m[k]) \subseteq {0, 1}
        BY <1>6, <3>3, <3>4, MatrixWritten
      <3> HIDE DEF m
      <3>6. ReadOff' = R /\ \A k \in DOMAIN Dense' : ToSet(Dense'[k]) \subseteq {0, 1}
        BY <1>10, <1>11, <2>3, <3>1, <3>5
      <3>7. Folded(R) = Folded(B)
        <4>1. Folded(B) = B
          BY <1>8, <3>2, FoldedFacts
        <4>2. Folded(Mirrored(B)) = B
          BY <1>8, <3>2, FoldedFacts
        <4>3. QED
          BY <4>1, <4>2 DEF R
      <3>8. QED
        BY <1>12, <1>13, <3>4, <3>6, <3>7, ReadOffReaches
    <2>4. QED
      BY <2>1, <2>2, <2>3
  <1>15. OutcomeIsReported'
    <2>1. WellPosed' <=> IsWellPosed(Meant)
      BY <1>3 DEF WellPosed, IsWellPosed
    <2>2. (status' # 1) /\ (status' = 254 <=> success = 1)
      BY <1>1, <1>8
    <2>3. Answered' /\ (LooksLikeSuccess' <=> success = 1)
      BY <1>1, <1>3, <2>2 DEF Answered, LooksLikeSuccess
    <2>4. Meant.method \in {3, 4} /\ IsWellPosed(Meant) => success = 1
      BY <1>7 DEF Answers
    <2>5. QED
      BY <1>2, <1>3, <2>1, <2>3, <2>4 DEF OutcomeIsReported
  <1>16. SideKnown'
    BY <1>1, <1>2, <1>3, ToolStays
  <1>17. InputKnown'
    BY <1>1, <1>3 DEF InputKnown
  <1>18. CallKnown'
    BY <1>1 DEF CallKnown
  <1>19. AnswerKnown'
    BY <1>1, <1>14, <1>15 DEF AnswerKnown
  <1>20. QED
    BY <1>16, <1>17, <1>18, <1>19
-----------------------------------------------------------------------------
(****************************************************************************)
(* The call of the solver, whoever calls it.                                 *)
(****************************************************************************)
LEMMA CallIsCalled ==
  ASSUME IsProblem(Meant), InputOf(ijw_vec, Meant),
         num_node \in LastIndex(Meant) + 1 .. Meant.n, BoundsOf(deg_bdd_vec, num_node, Meant)
  PROVE  Called(Meant, num_node, ijw_vec, Lower, Upper)
  <1>1. \A x \in Node : x < num_node => deg_bdd_vec[x + 1] = <<Meant.lb[x], Meant.ub[x]>>
    BY DEF BoundsOf
  <1>2. UpTo(num_node, Lower, Meant.lb)
    BY <1>1 DEF UpTo, Lower
  <1>3. UpTo(num_node, Upper, Meant.ub)
    BY <1>1 DEF UpTo, Upper
  <1>4. QED
    BY <1>2, <1>3 DEF Called

\* What a solver answers is an answer for what was meant.
LEMMA SolverAnswers ==
  ASSUME NEW p, IsProblem(p), NEW n, NEW b, NEW lo, NEW up, Called(p, n, b, lo, up),
         NEW r, r.success \in {0, 1}, Contract(p.method, n, b, lo, up, r)
  PROVE  /\ Answers(p, n, r.edges, r.success, IF r.wgt = Unset THEN Unset ELSE r.wgt)
         /\ r.gptr = "unset" => ~ IsWellPosed(p)
  <1> DEFINE v == IF r.wgt = Unset THEN Unset ELSE r.wgt
  <1>1. p.method \in {1, 2} \/ p.method \in {3, 4} \/ p.method = 5
    BY ProblemFacts
  <1> HIDE DEF v
  <1>2. CASE p.method \in {1, 2}
    <2>1. ExactContract(p.method, b, lo, up, r)
      BY <1>2 DEF Contract
    <2>2. Answers(p, n, r.edges, r.success, v)
      BY <1>2, <2>1, ExactAnswers DEF v
    <2>3. r.gptr = "unset" => ~ IsWellPosed(p)
      BY <1>2, <2>1, ExactUnset
    <2>4. QED
      BY <2>2, <2>3 DEF v
  <1>3. CASE p.method \in {3, 4}
    <2>1. GreedyContract(p.method, b, lo, up, r)
      BY <1>3 DEF Contract
    <2>2. Answers(p, n, r.edges, r.success, v)
      BY <1>3, <2>1, GreedyAnswers DEF v
    <2>3. r.gptr = "none"
      BY <1>3, <2>1, GreedyAnswers
    <2>4. QED
      BY <2>2, <2>3 DEF v
  <1>4. CASE p.method = 5
    <2>1. BeliefContract(n, b, up, r)
      BY <1>4 DEF Contract
    <2>2. Answers(p, n, r.edges, r.success, v)
      BY <1>4, <2>1, BeliefAnswers
    <2>3. r.gptr = "none"
      BY <1>4, <2>1, BeliefAnswers
    <2>4. QED
      BY <2>2, <2>3 DEF v
  <1>5. QED
    BY <1>1, <1>2, <1>3, <1>4

LEMMA CallMeant ==
  ASSUME session \in Sessions, IsMeant, CallKnown, AnswerKnown, session' = session, CallSolver
  PROVE  /\ CallKnown' /\ AnswerKnown'
         /\ phase \in {"solve", "delete"} /\ phase' \in {"delete", "output", "crashed"}
  <1>1. IsProblem(Meant) /\ Meant' = Meant
    BY MeantIsWritten DEF Meant
  <1>2. phase \in {"solve", "delete"} /\ phase' \in {"delete", "output", "crashed"}
    BY DEF CallSolver, solve_bmatching_problem, ReadBeyondVectors, DeleteUnset, DeleteSolver
  <1>3. num_node' = num_node /\ deg_bdd_vec' = deg_bdd_vec /\ ijw_vec' = ijw_vec
    BY DEF CallSolver, solve_bmatching_problem, ReadBeyondVectors, DeleteUnset, DeleteSolver, problem
  <1>4. /\ num_node \in LastIndex(Meant) + 1 .. Meant.n /\ BoundsOf(deg_bdd_vec, num_node, Meant)
        /\ InputOf(ijw_vec, Meant)
    BY <1>2 DEF CallKnown
  <1>5. CallKnown'
    BY <1>1, <1>2, <1>3, <1>4 DEF CallKnown
  <1>6. Called(Meant, num_node, ijw_vec, Lower, Upper)
    BY <1>1, <1>4, CallIsCalled
  <1>7. WellPosed' <=> IsWellPosed(Meant)
    BY <1>1 DEF WellPosed, IsWellPosed
  <1>8. phase' # "crashed" => AnswerReachesTheUser' /\ OutcomeIsReported'
    BY <1>2 DEF AnswerReachesTheUser, OutcomeIsReported, Answered
  <1>9. phase' = "crashed" /\ ~ IsWellPosed(Meant) => AnswerReachesTheUser' /\ OutcomeIsReported'
    BY <1>7 DEF AnswerReachesTheUser, OutcomeIsReported, Answered
  <1>10. CASE solve_bmatching_problem
    <2>1. phase = "solve" /\ phase' = "delete"
      BY <1>10 DEF solve_bmatching_problem
    <2>2. ALG = Meant.method /\ bmatch_wgt = Unset
      BY <2>1 DEF CallKnown
    <2>3. PICK r \in Results : /\ success' = r.success
                               /\ bmatch_edge_vec' = svecvec_2_ijw([e \in r.edges |-> 1])
                               /\ bmatch_wgt' = IF r.wgt = Unset THEN bmatch_wgt ELSE r.wgt
                               /\ gptr' = r.gptr
      BY <1>10 DEF solve_bmatching_problem
    <2>4. r.success \in {0, 1} /\ Contract(ALG, num_node, ijw_vec, Lower, Upper, r)
      BY DEF Results
    <2>5. /\ Answers(Meant, num_node, r.edges, r.success, IF r.wgt = Unset THEN Unset ELSE r.wgt)
          /\ r.gptr = "unset" => ~ IsWellPosed(Meant)
      <3>1. Contract(Meant.method, num_node, ijw_vec, Lower, Upper, r)
        BY <2>2, <2>4
      <3>2. Answers(Meant, num_node, r.edges, r.success, IF r.wgt = Unset THEN Unset ELSE r.wgt)
        BY <1>1, <1>6, <2>4, <3>1, SolverAnswers
      <3>3. r.gptr = "unset" => ~ IsWellPosed(Meant)
        BY <1>1, <1>6, <2>4, <3>1, SolverAnswers
      <3>4. QED
        BY <3>2, <3>3
    <2>6. Answers(Meant', num_node', r.edges, success', bmatch_wgt')
      BY <1>1, <1>3, <2>2, <2>3, <2>5
    <2>7. phase' = "delete" /\ gptr' = "unset" => ~ IsWellPosed(Meant')
      BY <1>1, <2>3, <2>5
    <2>8. AnswerReachesTheUser' /\ OutcomeIsReported'
      BY <1>8, <2>1
    <2>9. \E B : /\ Answers(Meant', num_node', B, success', bmatch_wgt')
                 /\ bmatch_edge_vec' = svecvec_2_ijw([e \in B |-> 1])
      BY <2>3, <2>6
    <2>10. AnswerKnown'
      BY <2>7, <2>8, <2>9 DEF AnswerKnown
    <2>11. QED
      BY <1>2, <1>5, <2>10
  <1>11. CASE ReadBeyondVectors
    <2>1. phase = "solve" /\ phase' = "crashed" /\ ALG = 5 /\ ~ ExpectsCapacity(num_node, ijw_vec, Upper)
      BY <1>11 DEF ReadBeyondVectors
    <2>2. Meant.method = 5
      BY <2>1 DEF CallKnown
    <2>3. ~ IsWellPosed(Meant)
      BY <1>1, <1>6, <2>1, <2>2, CapacityExpected
    <2>4. AnswerKnown'
      BY <1>9, <2>1, <2>3 DEF AnswerKnown
    <2>5. QED
      BY <1>2, <1>5, <2>4
  <1>12. CASE DeleteUnset
    <2>1. phase = "delete" /\ phase' = "crashed" /\ gptr = "unset"
      BY <1>12 DEF DeleteUnset
    <2>2. ~ IsWellPosed(Meant)
      BY <2>1 DEF AnswerKnown
    <2>3. AnswerKnown'
      BY <1>9, <2>1, <2>2 DEF AnswerKnown
    <2>4. QED
      BY <1>2, <1>5, <2>3
  <1>13. CASE DeleteSolver
    <2>1. /\ phase = "delete" /\ phase' = "output" /\ success' = success
          /\ bmatch_edge_vec' = bmatch_edge_vec /\ bmatch_wgt' = bmatch_wgt
      BY <1>13 DEF DeleteSolver, answer
    <2>2. PICK B : /\ Answers(Meant, num_node, B, success, bmatch_wgt)
                   /\ bmatch_edge_vec = svecvec_2_ijw([e \in B |-> 1])
      BY <2>1 DEF AnswerKnown
    <2>3. /\ Answers(Meant', num_node', B, success', bmatch_wgt')
          /\ bmatch_edge_vec' = svecvec_2_ijw([e \in B |-> 1])
      BY <1>1, <1>3, <2>1, <2>2
    <2>4. AnswerReachesTheUser' /\ OutcomeIsReported'
      BY <1>8, <2>1
    <2>5. AnswerKnown'
      BY <2>1, <2>3, <2>4 DEF AnswerKnown
    <2>6. QED
      BY <1>2, <1>5, <2>5
  <1>14. QED
    BY <1>10, <1>11, <1>12, <1>13 DEF CallSolver

LEMMA ToolCallMeant ==
  ASSUME ToolGoesOn, CallSolver, UNCHANGED <<pvars, tvars>>
  PROVE  SideKnown' /\ InputKnown' /\ CallKnown' /\ AnswerKnown'
  <1>1. /\ CallKnown' /\ AnswerKnown'
        /\ phase \in {"solve", "delete"} /\ phase' \in {"delete", "output", "crashed"}
    BY CallMeant DEF ToolGoesOn
  <1>2. parsing = "done" /\ session' = session /\ session.front = "tool" /\ files' = files
    BY <1>1, ToolSession DEF ToolGoesOn, tvars
  <1>3. SideKnown'
    BY <1>1, <1>2, ToolStays
  <1>4. InputKnown'
    BY <1>1, <1>2 DEF InputKnown
  <1>5. QED
    BY <1>1, <1>3, <1>4

\* Every step of the tool keeps what is known.
LEMMA ToolMeant ==
  ASSUME ToolGoesOn, ReadsKnown, Tool
  PROVE  SideKnown' /\ InputKnown' /\ CallKnown' /\ AnswerKnown'
  <1>1. CASE Options
    BY <1>1, OptionsMeant
  <1>2. CASE ExitHelp \/ RefuseMethod
    BY <1>2, NotRefused
  <1>3. CASE ReadWeights
    BY <1>3, ReadWeightsMeant
  <1>4. CASE ConstantBounds
    BY <1>4, ConstantBoundsMeant
  <1>5. CASE ReadBounds
    BY <1>5, ReadBoundsMeant DEF ReadsKnown
  <1>6. CASE ChooseMethod
    BY <1>6, ChooseMethodMeant
  <1>7. CASE CallSolver /\ UNCHANGED <<pvars, tvars>>
    BY <1>7, ToolCallMeant
  <1>8. CASE WriteMatching
    BY <1>8, WriteMatchingMeant
  <1>9. QED
    BY <1>1, <1>2, <1>3, <1>4, <1>5, <1>6, <1>7, <1>8 DEF Tool
-----------------------------------------------------------------------------
(****************************************************************************)
(* The Matlab functions pass on what was meant.                              *)
(****************************************************************************)
\* A step of a Matlab function, in a session whose problem is meant.
MatlabGoesOn ==
    /\ session \in Sessions /\ IsMeant /\ session.front # "tool"
    /\ SideKnown /\ InputKnown /\ CallKnown /\ AnswerKnown
    /\ session' = session

LEMMA MatlabSession ==
  ASSUME MatlabGoesOn
  PROVE  /\ IsProblem(Meant) /\ MatlabWrites(session, Meant) /\ session.mat \in Texts
         /\ session.front \in {"bmatch_matrix", "bmatch_ijw"}
         /\ method = Meant.method /\ (session.front = "bmatch_matrix" => N = Meant.n)
         /\ Meant' = Meant
  <1>1. /\ IsProblem(Meant) /\ Writes(session, Meant) /\ session.mat \in Texts
        /\ session.front \in {"tool", "bmatch_matrix", "bmatch_ijw"}
    BY MeantIsWritten DEF MatlabGoesOn
  <1>2. MatlabWrites(session, Meant)
    BY <1>1 DEF MatlabGoesOn, Writes
  <1>3. session.front # "tool" /\ Meant' = Meant
    BY DEF MatlabGoesOn, Meant
  <1>4. method = Meant.method /\ (session.front = "bmatch_matrix" => N = Meant.n)
    BY <1>3 DEF MatlabGoesOn, SideKnown
  <1>5. QED
    BY <1>1, <1>2, <1>3, <1>4

\* A Matlab function stays on its side.
LEMMA MatlabStays ==
  ASSUME MatlabGoesOn, method' = method, N' = N,
         phase' \in {"bmatch_matrix", "bmatch_ijw", "solve", "delete", "output", "returned", "error", "crashed"}
  PROVE  SideKnown'
  <1>1. session' = session /\ session.front # "tool"
    BY DEF MatlabGoesOn
  <1>2. method' = Meant'.method /\ (session.front = "bmatch_matrix" => N' = Meant'.n)
    BY MatlabSession
  <1>3. QED
    BY <1>1, <1>2 DEF SideKnown

\* The list that was passed on stays.
LEMMA ListStays ==
  ASSUME MatlabGoesOn, ListKnown, ijw_in' = ijw_in
  PROVE  ListKnown'
  <1>1. PICK s : GraphList(s, Meant) /\ ijw_in = FromOne(s)
    BY DEF ListKnown
  <1>2. GraphList(s, Meant') /\ ijw_in' = FromOne(s)
    BY <1>1, MatlabSession
  <1>3. QED
    BY <1>2 DEF ListKnown

LEMMA MatrixMeant ==
  ASSUME MatlabGoesOn, bmatch_matrix
  PROVE  SideKnown' /\ InputKnown' /\ CallKnown' /\ AnswerKnown'
  <1>1. phase = "bmatch_matrix" /\ ijw_bdd' = ShapedBounds
    BY DEF bmatch_matrix
  <1>2. method' = method /\ N' = N
    BY DEF bmatch_matrix, marguments
  <1>3. /\ IsProblem(Meant) /\ MatlabWrites(session, Meant) /\ session.mat \in Texts
        /\ Meant' = Meant
    BY MatlabSession
  <1>4. session.front = "bmatch_matrix" /\ W = session.mat /\ deg_bdd = session.bounds
    BY <1>1 DEF MatlabGoesOn, InputKnown
  <1>5. N = Meant.n
    BY <1>4, MatlabSession
  <1>6. GraphMatrix(W, Meant) /\ deg_bdd \in MatlabShapes(Meant)
    BY <1>3, <1>4 DEF MatlabWrites
  <1>7. RowsMeant(ShapedBounds, Meant)
    BY <1>3, <1>5, <1>6, MatlabShapesRead
  <1>8. ShapedBounds # <<>>
    BY <1>7 DEF RowsMeant
  <1>9. phase' = "bmatch_ijw" /\ ijw_in' = FindTriu
    BY <1>8 DEF bmatch_matrix
  <1>10. ListKnown'
    <2>1. W \in Texts
      BY <1>3, <1>4
    <2>2. PICK s : GraphList(s, Meant) /\ FindTriu = FromOne(s)
      BY <1>3, <1>5, <1>6, <2>1, TriuIsMeant
    <2>3. GraphList(s, Meant') /\ ijw_in' = FromOne(s)
      BY <1>3, <1>9, <2>2
    <2>4. QED
      BY <2>3 DEF ListKnown
  <1>11. RowsMeant(ijw_bdd', Meant')
    BY <1>1, <1>3, <1>7
  <1>12. SideKnown'
    BY <1>2, <1>9, MatlabStays
  <1>13. InputKnown'
    BY <1>9, <1>10, <1>11 DEF InputKnown
  <1>14. CallKnown'
    BY <1>9 DEF CallKnown
  <1>15. AnswerReachesTheUser' /\ OutcomeIsReported'
    BY <1>9 DEF AnswerReachesTheUser, OutcomeIsReported, Answered
  <1>16. AnswerKnown'
    BY <1>9, <1>15 DEF AnswerKnown
  <1>17. QED
    BY <1>12, <1>13, <1>14, <1>16

\* Counting from 0 undoes counting from 1.
LEMMA FromOneUndone ==
  ASSUME NEW s \in Seq(Entry)
  PROVE  [k \in DOMAIN FromOne(s) |->
            <<FromOne(s)[k][1] - 1, FromOne(s)[k][2] - 1, FromOne(s)[k][3]>>] = s
  <1> DEFINE t == FromOne(s)
             u == [k \in DOMAIN t |-> <<t[k][1] - 1, t[k][2] - 1, t[k][3]>>]
  <1>1. /\ DOMAIN t = DOMAIN s
        /\ \A k \in DOMAIN s : t[k][1] = s[k][1] + 1 /\ t[k][2] = s[k][2] + 1 /\ t[k][3] = s[k][3]
    BY DEF FromOne
  <1> HIDE DEF t
  <1>2. ASSUME NEW k \in DOMAIN s
        PROVE  u[k] = s[k]
    <2> DEFINE a == s[k][1]
               b == s[k][2]
               c == s[k][3]
    <2>1. a \in Int /\ b \in Int /\ s[k] = <<a, b, c>>
      BY EntryFacts
    <2>2. t[k][1] = a + 1 /\ t[k][2] = b + 1 /\ t[k][3] = c
      BY <1>1
    <2>3. u[k] = <<t[k][1] - 1, t[k][2] - 1, t[k][3]>>
      BY <1>1
    <2> HIDE DEF a, b, c, u
    <2>4. t[k][1] - 1 = a /\ t[k][2] - 1 = b
      BY <2>1, <2>2
    <2>5. QED
      BY <2>1, <2>2, <2>3, <2>4
  <1>3. DOMAIN u = DOMAIN s
    BY <1>1
  <1>4. s = [k \in DOMAIN s |-> s[k]]
    OBVIOUS
  <1>5. u = [k \in DOMAIN s |-> s[k]]
    BY <1>1, <1>2
  <1>6. u = s
    BY Zenon, <1>4, <1>5
  <1>7. QED
    BY <1>6 DEF t

LEMMA MexMeant ==
  ASSUME MatlabGoesOn, bmatch_ijw_mex
  PROVE  SideKnown' /\ InputKnown' /\ CallKnown' /\ AnswerKnown'
  <1> DEFINE list == [k \in DOMAIN ijw_in |-> <<ijw_in[k][1] - 1, ijw_in[k][2] - 1, ijw_in[k][3]>>]
  <1>1. phase = "bmatch_ijw" /\ bmatch_wgt' = InitialWeight
    BY DEF bmatch_ijw_mex
  <1>2. method' = method /\ N' = N /\ ijw_in' = ijw_in
    BY DEF bmatch_ijw_mex, mvars, marguments, mcall
  <1>3. /\ IsProblem(Meant) /\ MatlabWrites(session, Meant) /\ method = Meant.method
        /\ Meant' = Meant /\ session' = session /\ session.front # "tool"
    BY MatlabSession DEF MatlabGoesOn
  <1>4. RowsMeant(ijw_bdd, Meant) /\ ListKnown
    BY <1>1 DEF MatlabGoesOn, InputKnown
  <1>5. PICK s : GraphList(s, Meant) /\ ijw_in = FromOne(s)
    BY <1>4 DEF ListKnown
  <1>6. s \in Seq(Entry)
    BY <1>3, <1>5, GraphListFacts
  <1>7. list = s
    BY <1>5, <1>6, FromOneUndone
  <1>8. DOMAIN Meant.w # {}
    BY <1>3 DEF MatlabWrites
  <1>9. MaxIndex = LastIndex(Meant) + 1
    BY <1>3, <1>5, <1>8, LargestIndex
  <1>10. Size1(ijw_bdd) = 2 /\ Size2(ijw_bdd) = Meant.n
    BY <1>4 DEF RowsMeant
  <1>11. Meant.n \in Nat /\ LastIndex(Meant) \in -1 .. Meant.n - 1 /\ method \in 1 .. 5
    BY <1>3, ProblemFacts, LastIndexFacts
  <1>12. ~ (Size2(ijw_bdd) < MaxIndex \/ Size1(ijw_bdd) # 2)
    BY <1>9, <1>10, <1>11
  <1>13. /\ num_node' = Size2(ijw_bdd) /\ deg_bdd_vec' = RowMajor(ijw_bdd)
         /\ NewSolver(method, s) /\ phase' = "solve"
    <2> HIDE DEF list
    <2>1. /\ num_node' = Size2(ijw_bdd) /\ deg_bdd_vec' = RowMajor(ijw_bdd)
          /\ NewSolver(method, list) /\ phase' = "solve"
      BY <1>11, <1>12 DEF bmatch_ijw_mex, list
    <2>2. QED
      BY <1>7, <2>1
  <1>14. BoundsOf(deg_bdd_vec', num_node', Meant)
    BY <1>3, <1>4, <1>10, <1>13, PairsOfRows
  <1>15. InputOf(ijw_vec', Meant)
    <2>1. ijw_vec' = SolverInput(Meant.method, s)
      BY <1>3, <1>13 DEF NewSolver
    <2>2. QED
      BY <1>3, <1>5, <2>1, InputMeant
  <1>16. num_node' \in LastIndex(Meant) + 1 .. Meant.n
    BY <1>10, <1>11, <1>13
  <1>17. bmatch_wgt' = Unset
    BY <1>1 DEF InitialWeight, Unset
  <1>18. ALG' = Meant.method /\ gptr' = IF Meant.method \in {1, 2} THEN "unset" ELSE "none"
    BY <1>3, <1>13 DEF NewSolver
  <1>19. SideKnown'
    BY <1>2, <1>13, MatlabStays
  <1>20. ListKnown'
    BY <1>2, <1>4, ListStays
  <1>21. InputKnown'
    BY <1>13, <1>20 DEF InputKnown
  <1>22. CallKnown'
    BY <1>3, <1>13, <1>14, <1>15, <1>16, <1>17, <1>18 DEF CallKnown
  <1>23. AnswerReachesTheUser' /\ OutcomeIsReported'
    BY <1>13 DEF AnswerReachesTheUser, OutcomeIsReported, Answered
  <1>24. AnswerKnown'
    BY <1>13, <1>23 DEF AnswerKnown
  <1>25. QED
    BY <1>19, <1>21, <1>22, <1>24

LEMMA MatlabCallMeant ==
  ASSUME MatlabGoesOn, CallSolver, UNCHANGED mvars
  PROVE  SideKnown' /\ InputKnown' /\ CallKnown' /\ AnswerKnown'
  <1>1. /\ CallKnown' /\ AnswerKnown'
        /\ phase \in {"solve", "delete"} /\ phase' \in {"delete", "output", "crashed"}
    BY CallMeant DEF MatlabGoesOn
  <1>2. method' = method /\ N' = N /\ ijw_in' = ijw_in
    BY DEF mvars, marguments, mcall
  <1>3. SideKnown'
    BY <1>1, <1>2, MatlabStays
  <1>4. ListKnown
    BY <1>1 DEF MatlabGoesOn, InputKnown
  <1>5. ListKnown'
    BY <1>2, <1>4, ListStays
  <1>6. InputKnown'
    BY <1>1, <1>5 DEF InputKnown
  <1>7. QED
    BY <1>1, <1>3, <1>6

\* In a list that the mex function takes, every matched node has been counted,
\* unless the problem is not well posed.
LEMMA MatchedIsCounted ==
  ASSUME NEW p, IsProblem(p), DOMAIN p.w # {}, NEW n, NEW b, NEW lo, NEW up, Called(p, n, b, lo, up),
         NEW B, NEW ok, NEW v, Answers(p, n, B, ok, v), IsWellPosed(p)
  PROVE  \A c \in B : c[1] <= LastIndex(p) /\ c[2] <= LastIndex(p)
  <1>1. CASE p.method # 5
    <2>1. B \subseteq DOMAIN p.w
      BY <1>1 DEF Answers
    <2>2. QED
      BY <2>1, LastIndexFacts
  <1>2. CASE p.method = 5
    <2>1. n = p.n
      BY <1>2, CapacityExpected
    <2>2. LastIndex(p) = p.n - 1
      BY <1>2, CapacityExpected
    <2>3. B \in SUBSET Cell /\ \A c \in B : c[1] < n /\ c[2] < n
      BY DEF Answers
    <2>4. p.n \in Nat /\ \A c \in B : c[1] \in Int /\ c[2] \in Int
      BY <2>3, ProblemFacts, NumNodeAssumption DEF Cell, Node
    <2>5. QED
      BY <2>1, <2>2, <2>3, <2>4
  <1>3. QED
    BY <1>1, <1>2

\* The problem the solver was called with, once the call is over.
LEMMA StillCalled ==
  ASSUME session \in Sessions, IsMeant, CallKnown, phase = "output"
  PROVE  Called(Meant, num_node, ijw_vec, Lower, Upper)
  <1>1. IsProblem(Meant)
    BY MeantIsWritten
  <1>2. /\ num_node \in LastIndex(Meant) + 1 .. Meant.n /\ BoundsOf(deg_bdd_vec, num_node, Meant)
        /\ InputOf(ijw_vec, Meant)
    BY DEF CallKnown
  <1>3. QED
    BY <1>1, <1>2, CallIsCalled

LEMMA ReturnMeant ==
  ASSUME MatlabGoesOn, Return
  PROVE  SideKnown' /\ InputKnown' /\ CallKnown' /\ AnswerKnown'
  <1> DEFINE s == bmatch_edge_vec
             out == FromOne(s)
             l == LastIndex(Meant) + 1
  <1>1. phase = "output" /\ phase' \in {"returned", "error"}
    BY DEF Return
  <1>2. /\ method' = method /\ N' = N /\ ijw_in' = ijw_in /\ success' = success
        /\ bmatch_edge_vec' = s
    BY DEF Return, marguments, mcall, answer
  <1>3. /\ ijw_out' = out /\ deg_out' = DegOut(Either(out, MaxIndex)) /\ Ymat' = Either(out, N)
        /\ wgt' = IF method = 5 THEN bmatch_wgt ELSE 2 * bmatch_wgt
        /\ phase' = IF \E k \in DOMAIN out : out[k][1] > MaxIndex \/ out[k][2] > MaxIndex
                    THEN "error" ELSE "returned"
    BY DEF Return, FromOne
  <1>4. /\ IsProblem(Meant) /\ MatlabWrites(session, Meant) /\ method = Meant.method
        /\ session.front \in {"bmatch_matrix", "bmatch_ijw"}
        /\ session.front = "bmatch_matrix" => N = Meant.n
        /\ Meant' = Meant /\ session' = session
    BY MatlabSession DEF MatlabGoesOn
  <1>5. ListKnown
    BY <1>1 DEF MatlabGoesOn, InputKnown
  <1>6. DOMAIN Meant.w # {}
    BY <1>4 DEF MatlabWrites
  <1>7. MaxIndex = l
    <2>1. PICK r : GraphList(r, Meant) /\ ijw_in = FromOne(r)
      BY <1>5 DEF ListKnown
    <2>2. QED
      BY <1>4, <1>6, <2>1, LargestIndex
  <1>8. /\ Meant.n \in Nat /\ Meant.n <= NumNode /\ LastIndex(Meant) \in Int
        /\ l \in Nat /\ l <= NumNode /\ num_node \in Int /\ num_node <= Meant.n
    <2>1. Meant.n \in Nat /\ Meant.n <= NumNode /\ LastIndex(Meant) \in -1 .. Meant.n - 1
      BY <1>4, ProblemFacts, LastIndexFacts
    <2>2. NumNode \in Nat
      BY NumNodeAssumption
    <2>3. num_node \in l .. Meant.n
      BY <1>1 DEF MatlabGoesOn, CallKnown
    <2>4. QED
      BY <2>1, <2>2, <2>3
  <1>9. PICK B : Answers(Meant, num_node, B, success, bmatch_wgt) /\ s = svecvec_2_ijw([e \in B |-> 1])
    BY <1>1 DEF MatlabGoesOn, AnswerKnown
  <1> HIDE DEF s, out, l
  <1>10. /\ B \in SUBSET Cell /\ \A c \in B : c[1] < num_node /\ c[2] < num_node
         /\ success \in {0, 1}
    BY <1>9 DEF Answers
  <1>11. Lists(s, B)
    BY <1>9, <1>10, AnswerListed
  <1>12. \A c \in B : c[1] \in Int /\ c[2] \in Int /\ c[1] < Meant.n /\ c[2] < Meant.n
    <2>1. \A c \in B : c[1] \in Int /\ c[2] \in Int
      BY <1>10, NumNodeAssumption DEF Cell, Node
    <2>2. QED
      BY <1>8, <1>10, <2>1
  <1>13. /\ DOMAIN out = DOMAIN s
         /\ \A k \in DOMAIN s : /\ s[k][1] \in Int /\ s[k][2] \in Int /\ <<s[k][1], s[k][2]>> \in B
                                /\ out[k][1] = s[k][1] + 1 /\ out[k][2] = s[k][2] + 1
    BY <1>11, EntryFacts DEF out, FromOne, Lists
  <1>14. phase' = "returned" => AnswerReachesTheUser'
    <2> SUFFICES ASSUME phase' = "returned" PROVE AnswerReachesTheUser'
      OBVIOUS
    <2>1. \A c \in B : c[1] < l /\ c[2] < l
      <3> TAKE c \in B
      <3>1. PICK k \in DOMAIN s : c = <<s[k][1], s[k][2]>>
        BY <1>11 DEF Lists
      <3> DEFINE a == s[k][1]
                 b == s[k][2]
      <3>2. a \in Int /\ b \in Int /\ out[k][1] = a + 1 /\ out[k][2] = b + 1
        BY <1>13
      <3>3. ~ (out[k][1] > l) /\ ~ (out[k][2] > l)
        BY <1>3, <1>7, <1>13
      <3>4. c[1] = a /\ c[2] = b
        BY <3>1
      <3> HIDE DEF a, b
      <3>5. QED
        BY <1>8, <3>2, <3>3, <3>4
    <2>2. \A k \in DOMAIN deg_out' : deg_out'[k] = Degree(Folded(B), k - 1)
      <3> DEFINE d == DegOut(Either(FromOne(s), l))
      <3>1. \A k \in DOMAIN d : d[k] = Degree(Folded(B), k - 1)
        BY <1>8, <1>10, <1>11, <2>1, DegOutRead
      <3>2. deg_out' = d
        BY <1>3, <1>7 DEF out
      <3> HIDE DEF d
      <3>3. QED
        BY <3>1, <3>2
    <2>3. /\ IsProblem(Meant') /\ Answers(Meant', num_node, B, success', bmatch_wgt)
          /\ Lists(bmatch_edge_vec', B)
      BY <1>2, <1>4, <1>9, <1>11
    <2>4. CASE session.front = "bmatch_ijw"
      <3>1. IsList' /\ ReadOff' = ListEdges(ijw_out', 1)
        BY <1>4, <2>4 DEF IsList, ReadOff
      <3>2. ReadOff' = B
        BY <1>3, <1>11, <3>1, ListFolded DEF out
      <3>3. QED
        BY <2>2, <2>3, <3>1, <3>2, ReadOffReaches
    <2>5. CASE session.front = "bmatch_matrix"
      <3> DEFINE m == Either(FromOne(s), Meant.n)
                 F == Folded(B)
                 R == Mirrored(F)
      <3>1. ~ IsList' /\ Dense' = Ymat' /\ ReadOff' = MatrixEdges(Ymat')
        BY <1>4, <2>5 DEF IsList, Dense, ReadOff
      <3>2. Ymat' = m
        BY <1>3, <1>4, <2>5 DEF out
      <3>3. MatrixEdges(m) = R
        BY <1>8, <1>10, <1>11, <1>12, EitherRead
      <3>4. \A k \in DOMAIN m : ToSet(m[k]) \subseteq {0, 1}
        BY <1>8, <1>10, <1>11, <1>12, EitherRead
      <3>5. F \in SUBSET Edge
        BY <1>10, FoldedFacts
      <3> HIDE DEF m, F
      <3>6. \A c \in R : <<c[2], c[1]>> \in R
        BY <3>5, MirroredFacts
      <3>7. Folded(R) = Folded(B)
        BY <1>10, FoldedFacts DEF F
      <3> HIDE DEF R
      <3>8. ReadOff' = R /\ \A k \in DOMAIN Dense' : ToSet(Dense'[k]) \subseteq {0, 1}
        BY <3>1, <3>2, <3>3, <3>4
      <3>9. QED
        BY <2>2, <2>3, <3>6, <3>7, <3>8, ReadOffReaches
    <2>6. QED
      BY <1>4, <2>4, <2>5
  <1>15. AnswerReachesTheUser'
    <2>1. phase' = "error" => AnswerReachesTheUser'
      BY DEF AnswerReachesTheUser, Answered
    <2>2. QED
      BY <1>1, <1>14, <2>1
  <1>16. phase' = "error" => ~ IsWellPosed(Meant)
    <2> SUFFICES ASSUME phase' = "error", IsWellPosed(Meant) PROVE FALSE
      OBVIOUS
    <2>1. Called(Meant, num_node, ijw_vec, Lower, Upper)
      BY <1>1, StillCalled DEF MatlabGoesOn
    <2>2. \A c \in B : c[1] <= LastIndex(Meant) /\ c[2] <= LastIndex(Meant)
      BY <1>4, <1>6, <1>9, <2>1, MatchedIsCounted
    <2>3. PICK k \in DOMAIN out : out[k][1] > l \/ out[k][2] > l
      BY <1>3, <1>7
    <2> DEFINE a == s[k][1]
               b == s[k][2]
               c == <<a, b>>
    <2>4. a \in Int /\ b \in Int /\ out[k][1] = a + 1 /\ out[k][2] = b + 1 /\ c \in B
      BY <1>13
    <2>5. c[1] = a /\ c[2] = b
      OBVIOUS
    <2> HIDE DEF a, b, c
    <2>6. a <= LastIndex(Meant) /\ b <= LastIndex(Meant)
      BY <2>2, <2>4, <2>5
    <2>7. QED
      BY <1>8, <2>3, <2>4, <2>6 DEF l
  <1>17. OutcomeIsReported'
    <2>1. WellPosed' <=> IsWellPosed(Meant)
      BY <1>4 DEF WellPosed, IsWellPosed
    <2>2. Answered' <=> phase' = "returned"
      BY <1>1 DEF Answered
    <2>3. LooksLikeSuccess' <=> wgt' >= 0
      BY <1>4 DEF LooksLikeSuccess
    <2>4. Meant.method \in {3, 4} => (wgt' >= 0 <=> success = 1) /\ (IsWellPosed(Meant) => success = 1)
      <3> SUFFICES ASSUME Meant.method \in {3, 4}
                   PROVE  (wgt' >= 0 <=> success = 1) /\ (IsWellPosed(Meant) => success = 1)
        OBVIOUS
      <3>1. /\ bmatch_wgt \in Int /\ (bmatch_wgt >= 0 <=> success = 1)
            /\ IsWellPosed(Meant) => success = 1
        BY <1>9 DEF Answers
      <3>2. wgt' = 2 * bmatch_wgt
        BY <1>3, <1>4
      <3>3. QED
        BY <3>1, <3>2
    <2>5. IsWellPosed(Meant) => Answered'
      BY <1>1, <1>16, <2>2
    <2>6. QED
      BY <1>2, <1>4, <2>1, <2>3, <2>4, <2>5 DEF OutcomeIsReported
  <1>18. SideKnown'
    BY <1>1, <1>2, MatlabStays
  <1>19. ListKnown'
    BY <1>2, <1>5, ListStays
  <1>20. InputKnown'
    <2>1. phase' \notin {"options", "bounds", "method", "bmatch_matrix", "bmatch_ijw"}
      BY <1>1
    <2>2. QED
      BY <1>19, <2>1 DEF InputKnown
  <1>21. CallKnown'
    BY <1>1 DEF CallKnown
  <1>22. AnswerKnown'
    BY <1>1, <1>15, <1>17 DEF AnswerKnown
  <1>23. QED
    BY <1>18, <1>20, <1>21, <1>22

LEMMA MatlabMeant ==
  ASSUME MatlabGoesOn, Matlab
  PROVE  SideKnown' /\ InputKnown' /\ CallKnown' /\ AnswerKnown'
  <1>1. CASE bmatch_matrix
    BY <1>1, MatrixMeant
  <1>2. CASE bmatch_ijw_mex
    BY <1>2, MexMeant
  <1>3. CASE CallSolver /\ UNCHANGED mvars
    BY <1>3, MatlabCallMeant
  <1>4. CASE Return
    BY <1>4, ReturnMeant
  <1>5. QED
    BY <1>1, <1>2, <1>3, <1>4 DEF Matlab
-----------------------------------------------------------------------------
(****************************************************************************)
(* What is meant is known throughout.                                        *)
(****************************************************************************)
LEMMA MeantStutters ==
  ASSUME MeantInv, UNCHANGED allvars
  PROVE  MeantInv'
  <1>1. UNCHANGED <<phase, num_node, deg_bdd_vec, ijw_vec, ALG, gptr, success, bmatch_edge_vec,
                    bmatch_wgt, session>>
    BY DEF allvars, ivars, problem, object, answer
  <1>2. UNCHANGED <<arguments, argv, i, PP, parsing, stdin, files, printed, status>> /\ UNCHANGED pvars
    BY DEF allvars, pvars, tvars
  <1>3. UNCHANGED <<W, deg_bdd, method, N, ijw_in, ijw_bdd, Ymat, ijw_out, deg_out, wgt>>
    BY DEF allvars, mvars, marguments, mcall, mresults
  <1>4. Meant' = Meant /\ (IsMeant' <=> IsMeant)
    BY <1>1 DEF Meant, IsMeant
  <1> SUFFICES ASSUME IsMeant
               PROVE  SideKnown' /\ InputKnown' /\ CallKnown' /\ AnswerKnown'
    BY <1>1, <1>4 DEF MeantInv
  <1>5. SideKnown /\ InputKnown /\ CallKnown /\ AnswerKnown
    BY DEF MeantInv
  <1>6. SideKnown'
    <2>1. OptionsKnown => OptionsKnown'
      BY <1>2, OptionsStay
    <2>2. QED
      BY <1>1, <1>2, <1>3, <1>4, <1>5, <2>1 DEF SideKnown
  <1>7. InputKnown'
    <2>1. ListKnown => ListKnown'
      BY <1>3, <1>4 DEF ListKnown
    <2>2. QED
      BY <1>1, <1>2, <1>3, <1>4, <1>5, <2>1 DEF InputKnown
  <1>8. CallKnown'
    BY <1>1, <1>4, <1>5 DEF CallKnown
  <1>9. AnswerKnown'
    <2>1. AnswerReachesTheUser' <=> AnswerReachesTheUser
      <3>1. (Answered' <=> Answered) /\ (IsList' <=> IsList) /\ Dense' = Dense /\ ReadOff' = ReadOff
        BY <1>1, <1>2, <1>3 DEF Answered, IsList, Dense, ReadOff
      <3>2. Matched' = Matched
        BY <3>1 DEF Matched
      <3>3. QED
        BY <1>1, <1>3, <1>4, <3>1, <3>2 DEF AnswerReachesTheUser
    <2>2. OutcomeIsReported' <=> OutcomeIsReported
      BY <1>1, <1>2, <1>3, <1>4 DEF OutcomeIsReported, WellPosed, Answered, LooksLikeSuccess
    <2>3. QED
      BY <1>1, <1>4, <1>5, <2>1, <2>2 DEF AnswerKnown
  <1>10. QED
    BY <1>6, <1>7, <1>8, <1>9

LEMMA MeantSteps ==
  ASSUME FrontInv, MeantInv, [FNext]_allvars
  PROVE  MeantInv'
  <1>1. CASE ToolStep
    <2>1. session' = session
      BY <1>1 DEF ToolStep
    <2>2. ASSUME IsMeant
          PROVE  SideKnown' /\ InputKnown' /\ CallKnown' /\ AnswerKnown'
      <3>1. ToolGoesOn
        BY <1>1, <2>2 DEF ToolStep, ToolGoesOn, MeantInv
      <3>2. QED
        BY <1>1, <3>1, ToolMeant DEF ToolStep, FrontInv
    <2>3. QED
      BY <2>1, <2>2 DEF MeantInv, IsMeant, Meant
  <1>2. CASE MatlabStep
    <2>1. session' = session
      BY <1>2 DEF MatlabStep
    <2>2. ASSUME IsMeant
          PROVE  SideKnown' /\ InputKnown' /\ CallKnown' /\ AnswerKnown'
      <3>1. MatlabGoesOn
        BY <1>2, <2>2 DEF MatlabStep, MatlabGoesOn, MeantInv
      <3>2. QED
        BY <1>2, <3>1, MatlabMeant DEF MatlabStep
    <2>3. QED
      BY <2>1, <2>2 DEF MeantInv, IsMeant, Meant
  <1>3. CASE UNCHANGED allvars
    BY <1>3, MeantStutters
  <1>4. QED
    BY <1>1, <1>2, <1>3 DEF FNext, Ended

LEMMA MeantInvHolds == FSpec => []MeantInv
  <1>1. FrontInv /\ MeantInv /\ [FNext]_allvars => MeantInv'
    BY MeantSteps
  <1>2. QED
    BY <1>1, MeantInit, FrontInvHolds, PTL DEF FSpec

\* A solver is called with the problem that was meant: the edge weights and the
\* bounds a user wrote down reach solve_bmatching_problem unaltered through
\* bmatch.cpp, bmatch_matrix.m or bmatch_ijw.m, in every format of the graph and
\* shape of the bounds they document, for graphs of any size.
THEOREM ProblemReachesTheSolver == FSpec => []SolvesWhatWasMeant
  <1>1. MeantInv => SolvesWhatWasMeant
    <2> SUFFICES ASSUME MeantInv, phase = "solve", IsMeant
                 PROVE  /\ ALG = Meant.method
                        /\ \A e \in Edge : Total(ijw_vec, e) = WeightOf(Meant, e)
                        /\ ALG = 5 => \A e \in Edge : Total(ijw_vec, <<e[2], e[1]>>) = WeightOf(Meant, e)
                        /\ \A x \in Node : x < num_node =>
                              deg_bdd_vec[x + 1] = <<Meant.lb[x], Meant.ub[x]>>
      BY DEF SolvesWhatWasMeant
    <2>1. CallKnown
      BY DEF MeantInv
    <2>2. /\ ALG = Meant.method /\ InputOf(ijw_vec, Meant)
          /\ BoundsOf(deg_bdd_vec, num_node, Meant)
      BY <2>1 DEF CallKnown
    <2>3. QED
      BY <2>2 DEF InputOf, BoundsOf
  <1>2. QED
    BY <1>1, MeantInvHolds, PTL

\* The user reads off the matching the solver has found, from the matrix or the
\* list that bmatch.cpp prints and from what the Matlab functions return, with
\* the degrees they count; and after a success of methods 2 to 4 it is a
\* b-matching of the graph and the bounds that were meant.
THEOREM MatchingReachesTheUser == FSpec => []AnswerReachesTheUser
  <1>1. MeantInv => AnswerReachesTheUser
    <2>1. ~ IsMeant => AnswerReachesTheUser
      BY DEF AnswerReachesTheUser
    <2>2. QED
      BY <2>1 DEF MeantInv, AnswerKnown
  <1>2. QED
    BY <1>1, MeantInvHolds, PTL

\* How a call has ended can be told from outside: a well-posed problem is
\* answered, neither refused nor lost with the uninitialised pointer of the
\* exact solvers or beyond the vectors of belief propagation, and the exit
\* status or the sign of the weight tells the success of methods 3 and 4.
THEOREM OutcomeCanBeTold == FSpec => []OutcomeIsReported
  <1>1. MeantInv => OutcomeIsReported
    <2>1. ~ IsMeant => OutcomeIsReported
      BY DEF OutcomeIsReported
    <2>2. QED
      BY <2>1 DEF MeantInv, AnswerKnown
  <1>2. QED
    BY <1>1, MeantInvHolds, PTL
-----------------------------------------------------------------------------
(****************************************************************************)
(* Types.  What is typed may be any numbers, so that only a session that     *)
(* means a problem keeps its nodes within NumNode and its indices in Node.   *)
(****************************************************************************)
SolverTyped ==
    /\ ALG \in 0 .. 5 /\ gptr \in {"none", "unset", "made"}
    /\ success \in {0, 1} /\ bmatch_edge_vec \in Seq(Node \X Node \X {1}) /\ bmatch_wgt \in Int

ProblemTyped ==
    /\ num_node \in 0 .. NumNode
    /\ deg_bdd_vec \in Seq(Int \X Int)
    /\ ijw_vec \in Seq(Entry)

ParserTyped == Len(argv) \in Nat /\ i \in 1 .. Len(argv) + 1

Typed == ProblemTyped /\ SolverTyped /\ ParserTyped /\ status \in {0, 1, 254, 255}

TypedInv == IsMeant => Typed

LEMMA TypedInit == FInit => TypedInv
  <1> SUFFICES ASSUME FInit, IsMeant PROVE Typed
    BY DEF TypedInv
  <1>1. InterfaceInit /\ argv = Defaults /\ i = 1 /\ status = 0
    BY DEF FInit, ToolInit, ParameterInit
  <1>2. num_node = 0 /\ deg_bdd_vec = <<>> /\ ijw_vec = <<>> /\ NumNode \in Nat
    BY <1>1, NumNodeAssumption DEF InterfaceInit
  <1>3. ProblemTyped
    BY <1>2 DEF ProblemTyped
  <1>4. SolverTyped
    BY <1>1 DEF InterfaceInit, SolverTyped, Unset
  <1>5. Len(argv) = 14
    BY <1>1, DefaultsArePairs
  <1>6. ParserTyped
    BY <1>1, <1>5 DEF ParserTyped
  <1>7. QED
    BY <1>1, <1>3, <1>4, <1>6 DEF Typed

\* Bounds of nodes are pairs of numbers.
LEMMA BoundsTyped ==
  ASSUME NEW p, IsProblem(p), NEW n \in Nat, n <= p.n, NEW T, NEW v \in Seq(T), BoundsOf(v, n, p)
  PROVE  v \in Seq(Int \X Int)
  <1>1. DOMAIN v = 1 .. n /\ v = [x \in 1 .. n |-> v[x]]
    <2>1. Len(v) = n
      BY DEF BoundsOf
    <2>2. QED
      BY <2>1, LenProperties
  <1>2. \A x \in 1 .. n : v[x] \in Int \X Int
    <2> TAKE x \in 1 .. n
    <2> DEFINE y == x - 1
    <2>1. y \in Node /\ y < n /\ y + 1 = x
      <3>1. y \in 0 .. p.n - 1
        BY ProblemFacts
      <3>2. QED
        BY <3>1, ProblemFacts
    <2>2. p.lb[y] \in Nat /\ p.ub[y] \in Nat
      BY <2>1, ProblemFacts
    <2> HIDE DEF y
    <2>3. v[y + 1] = <<p.lb[y], p.ub[y]>>
      BY <2>1 DEF BoundsOf
    <2>4. v[x] = <<p.lb[y], p.ub[y]>>
      BY <2>1, <2>3
    <2>5. QED
      BY <2>2, <2>4
  <1>3. QED
    BY <1>1, <1>2, IsASeq

\* Whatever the shape, the bounds that are read are a sequence.
LEMMA DegreesListed ==
  ASSUME NEW m, Matrix(m), NEW n \in Nat
  PROVE  \E T : read_degrees(m, n) \in Seq(T)
  <1>1. m \in Texts /\ Rows(m) \in Nat /\ Columns(m) \in Nat
    BY RowsTyped DEF Matrix, Rows
  <1>2. ASSUME NEW k \in Nat, NEW f
        PROVE  \E T : [x \in 1 .. k |-> <<0, f[x]>>] \in Seq(T)
    <2> DEFINE g == [x \in 1 .. k |-> <<0, f[x]>>]
               T == {g[x] : x \in 1 .. k}
    <2>1. \A x \in 1 .. k : g[x] \in T
      OBVIOUS
    <2>2. g = [x \in 1 .. k |-> g[x]]
      OBVIOUS
    <2> HIDE DEF g, T
    <2>3. g \in Seq(T)
      BY <2>1, <2>2, IsASeq
    <2>4. QED
      BY <2>3 DEF g
  <1>3. ASSUME NEW a, NEW b
        PROVE  \E T : init_const_degrees(n, a, b) \in Seq(T)
    <2> DEFINE g == [x \in 1 .. n |-> <<a, b>>]
               T == {<<a, b>>}
    <2>1. \A x \in 1 .. n : g[x] \in T
      OBVIOUS
    <2>2. g = [x \in 1 .. n |-> g[x]]
      OBVIOUS
    <2> HIDE DEF T
    <2>3. g \in Seq(T)
      BY <2>1, <2>2, IsASeq
    <2>4. QED
      BY <2>3 DEF init_const_degrees
  <1>4. \E T : [x \in 1 .. Rows(m) |-> <<0, m[x][1]>>] \in Seq(T)
    <2> DEFINE f == [x \in 1 .. Rows(m) |-> m[x][1]]
    <2>1. \E T : [x \in 1 .. Rows(m) |-> <<0, f[x]>>] \in Seq(T)
      <3> HIDE DEF f
      <3>1. QED
        BY <1>1, <1>2
    <2>2. QED
      BY <2>1
  <1>5. \E T : [x \in 1 .. Columns(m) |-> <<0, m[1][x]>>] \in Seq(T)
    <2>1. \A f : \E T : [x \in 1 .. Columns(m) |-> <<0, f[x]>>] \in Seq(T)
      BY <1>1, <1>2
    <2>2. QED
      BY <2>1
  <1>6. m \in Seq(Seq(Int)) /\ \E T : <<>> \in Seq(T)
    BY <1>1 DEF Texts
  <1>7. QED
    BY <1>3, <1>4, <1>5, <1>6 DEF read_degrees

LEMMA AnswerTyped ==
  ASSUME NEW B, NEW s, Lists(s, B)
  PROVE  s \in Seq(Node \X Node \X {1})
  <1>1. /\ DOMAIN s = 1 .. Len(s) /\ Len(s) \in Nat /\ s \in Seq(Entry)
        /\ \A k \in DOMAIN s : /\ s[k] = <<s[k][1], s[k][2], s[k][3]>> /\ s[k][3] = 1
                               /\ s[k][1] \in Node /\ s[k][2] \in Node
    BY EntryFacts DEF Lists
  <1>2. \A k \in 1 .. Len(s) : s[k] \in Node \X Node \X {1}
    <2> TAKE k \in 1 .. Len(s)
    <2> DEFINE a == s[k][1]
               b == s[k][2]
    <2>1. s[k] = <<a, b, 1>> /\ a \in Node /\ b \in Node
      BY <1>1
    <2> HIDE DEF a, b
    <2>2. QED
      BY <2>1
  <1> DEFINE n == Len(s)
  <1>3. n \in Nat /\ s = [k \in 1 .. n |-> s[k]]
    BY <1>1
  <1>4. \A k \in 1 .. n : s[k] \in Node \X Node \X {1}
    BY <1>2
  <1> HIDE DEF n
  <1>5. QED
    BY <1>3, <1>4, IsASeq

LEMMA WeightTyped ==
  ASSUME NEW b \in Seq(Entry), NEW B \in SUBSET Cell
  PROVE  WeightIn(b, B) \in Int
  <1> DEFINE g == [e \in B |-> Total(b, e)]
  <1>1. IsFiniteSet(B)
    BY CellsFinite
  <1>2. \A e \in B : g[e] \in Int
    BY TotalFacts
  <1>3. DOMAIN g = B
    OBVIOUS
  <1>4. WeightIn(b, B) = SumFunction(g)
    BY DEF WeightIn
  <1> HIDE DEF g
  <1>5. SumFunction(g) = SumFunctionOnSet(g, B)
    BY <1>3 DEF SumFunction
  <1>6. SumFunctionOnSet(g, B) \in Int
    BY <1>1, <1>2, SumType
  <1>7. QED
    BY <1>4, <1>5, <1>6

\* The number of nodes and the list, wherever the problem that was meant is.
LEMMA NodesTyped ==
  ASSUME MeantInv, IsMeant, phase \in {"bounds", "method", "solve"}
  PROVE  num_node \in 0 .. NumNode /\ ijw_vec \in Seq(Entry)
  <1>1. IsProblem(Meant) /\ InputKnown /\ CallKnown
    BY MeantIsWritten DEF MeantInv
  <1>2. /\ Meant.n \in Nat /\ Meant.n <= NumNode /\ NumNode \in Nat
        /\ LastIndex(Meant) \in -1 .. Meant.n - 1
    BY <1>1, ProblemFacts, LastIndexFacts, NumNodeAssumption
  <1>3. \/ num_node = LastIndex(Meant) + 1 \/ num_node \in LastIndex(Meant) + 1 .. Meant.n
    BY <1>1 DEF InputKnown, CallKnown
  <1>4. num_node \in 0 .. NumNode
    BY <1>2, <1>3
  <1>5. GraphList(ijw_vec, Meant) \/ InputOf(ijw_vec, Meant)
    BY <1>1 DEF InputKnown, CallKnown
  <1>6. ijw_vec \in Seq(Entry)
    BY <1>1, <1>5, GraphListFacts DEF InputOf
  <1>7. QED
    BY <1>4, <1>6

LEMMA ParserStaysTyped ==
  ASSUME ParserTyped, OptionsKnown, Parse
  PROVE  ParserTyped'
  <1>1. Len(argv) \in Nat /\ i \in 1 .. Len(argv) + 1 /\ Len(arguments) \in Nat
    BY DEF ParserTyped, OptionsKnown, OptionPairs
  <1>2. CASE PrintHelp
    BY <1>1, <1>2 DEF PrintHelp, ParserTyped
  <1>3. CASE SetOption \/ SkipOption
    <2>1. i <= Len(argv) /\ i # Len(argv) /\ i' = i + 2 /\ argv' = argv
      BY <1>3 DEF SetOption, SkipOption, AtOption, WantsHelp
    <2>2. i' \in 1 .. Len(argv) + 1
      BY <1>1, <2>1
    <2>3. QED
      BY <1>1, <2>1, <2>2 DEF ParserTyped
  <1>4. CASE EndOptions
    <2>1. argv' = arguments /\ i' = 1
      BY <1>4 DEF EndOptions
    <2>2. QED
      BY <1>1, <2>1 DEF ParserTyped
  <1>5. QED
    BY <1>2, <1>3, <1>4 DEF Parse

\* A call of the solver, whoever calls.
LEMMA CallTyped ==
  ASSUME MeantInv, IsMeant, MeantInv', IsMeant', ProblemTyped, SolverTyped, CallSolver
  PROVE  ProblemTyped' /\ SolverTyped'
  <1>1. UNCHANGED <<num_node, deg_bdd_vec, ijw_vec>>
    BY DEF CallSolver, solve_bmatching_problem, ReadBeyondVectors, DeleteUnset, DeleteSolver, problem
  <1>2. ProblemTyped'
    BY <1>1 DEF ProblemTyped
  <1>3. CASE solve_bmatching_problem
    <2>1. PICK r \in Results : /\ success' = r.success
                               /\ bmatch_edge_vec' = svecvec_2_ijw([e \in r.edges |-> 1])
                               /\ bmatch_wgt' = IF r.wgt = Unset THEN bmatch_wgt ELSE r.wgt
                               /\ gptr' = r.gptr
      BY <1>3 DEF solve_bmatching_problem
    <2>2. ALG' = ALG /\ phase' = "delete"
      BY <1>3 DEF solve_bmatching_problem
    <2>3. /\ r.success \in {0, 1}
          /\ r.gptr \in {gptr, "made"}
          /\ r.edges \in Candidates
          /\ r.wgt = Unset \/ \E B \in Candidates : r.wgt = WeightIn(ijw_vec, B)
      BY DEF Results
    <2>4. \A B \in Candidates : B \in SUBSET Cell
      <3>1. Usable(ijw_vec, Upper) \in SUBSET Cell
        BY DEF Usable, Edge, Cell
      <3>2. QED
        BY <3>1 DEF Candidates, Cell
    <2>5. ijw_vec \in Seq(Entry) /\ bmatch_wgt \in Int
      BY DEF ProblemTyped, SolverTyped
    <2>6. r.wgt \in Int
      BY <2>3, <2>4, <2>5, WeightTyped DEF Unset
    <2>7. bmatch_edge_vec' \in Seq(Node \X Node \X {1})
      <3>1. Lists(svecvec_2_ijw([e \in r.edges |-> 1]), r.edges)
        BY <2>3, <2>4, AnswerListed
      <3>2. QED
        BY <2>1, <3>1, AnswerTyped
    <2>8. SolverTyped'
      BY <2>1, <2>2, <2>3, <2>5, <2>6, <2>7 DEF SolverTyped
    <2>9. QED
      BY <1>2, <2>8
  <1>4. CASE ReadBeyondVectors \/ DeleteUnset \/ DeleteSolver
    <2>1. /\ UNCHANGED <<success, bmatch_edge_vec, bmatch_wgt>>
          /\ ALG' \in {ALG, 0} /\ gptr' \in {gptr, "none"}
      BY <1>4 DEF ReadBeyondVectors, DeleteUnset, DeleteSolver, object, answer
    <2>2. SolverTyped'
      BY <2>1 DEF SolverTyped
    <2>3. QED
      BY <1>2, <2>2
  <1>5. QED
    BY <1>3, <1>4 DEF CallSolver

LEMMA NewSolverTyped ==
  ASSUME SolverTyped, NEW m \in 1 .. 5, NEW s, NewSolver(m, s), UNCHANGED answer
  PROVE  SolverTyped'
  BY DEF SolverTyped, NewSolver, answer

\* A step of the tool keeps to the types.
LEMMA ToolTyped ==
  ASSUME ToolGoesOn, ReadsKnown, MeantInv, MeantInv', Typed, Tool
  PROVE  Typed'
  <1>1. /\ IsMeant /\ IsMeant' /\ IsProblem(Meant) /\ OptionsKnown /\ Meant' = Meant
        /\ ProblemTyped /\ SolverTyped /\ ParserTyped /\ status \in {0, 1, 254, 255}
    BY ToolSession DEF ToolGoesOn, IsMeant, Typed
  <1>2. UNCHANGED pvars => ParserTyped'
    BY <1>1 DEF pvars, ParserTyped
  <1>3. UNCHANGED <<object, answer>> => SolverTyped'
    BY <1>1 DEF object, answer, SolverTyped
  <1>4. UNCHANGED problem => ProblemTyped'
    BY <1>1 DEF problem, ProblemTyped
  <1>5. phase' \in {"bounds", "method", "solve"} => num_node' \in 0 .. NumNode /\ ijw_vec' \in Seq(Entry)
    <2>1. (MeantInv /\ IsMeant /\ phase \in {"bounds", "method", "solve"} =>
              num_node \in 0 .. NumNode /\ ijw_vec \in Seq(Entry))'
      BY NodesTyped, PTL
    <2>2. QED
      BY <1>1, <2>1
  <1>6. CASE Options
    <2>1. Parse /\ UNCHANGED <<problem, object, answer>> /\ status' = status
      BY <1>6 DEF Options, ivars, tvars
    <2>2. ParserTyped'
      BY <1>1, <2>1, ParserStaysTyped
    <2>3. QED
      BY <1>1, <1>3, <1>4, <2>1, <2>2 DEF Typed
  <1>7. CASE ReadWeights
    <2>1. /\ UNCHANGED <<object, answer>> /\ UNCHANGED pvars /\ status' = status
          /\ deg_bdd_vec' = deg_bdd_vec /\ phase' = "bounds"
      BY <1>7 DEF ReadWeights
    <2>2. ProblemTyped'
      BY <1>1, <1>5, <2>1 DEF ProblemTyped
    <2>3. QED
      BY <1>1, <1>2, <1>3, <2>1, <2>2 DEF Typed
  <1>8. CASE ConstantBounds
    <2>1. /\ UNCHANGED <<object, answer>> /\ UNCHANGED pvars /\ status' = status
          /\ num_node' = num_node /\ phase' = "method"
          /\ deg_bdd_vec' = init_const_degrees(num_node, Max({PP.const_l, 0}), PP.const_u)
      BY <1>8 DEF ConstantBounds, tvars
    <2>2. deg_bdd_vec' \in Seq(Int \X Int)
      <3> DEFINE c == <<Max({PP.const_l, 0}), PP.const_u>>
                 g == [x \in 1 .. num_node |-> c]
      <3>1. deg_bdd_vec' = g
        BY <2>1 DEF init_const_degrees
      <3>2. num_node \in Nat /\ num_node <= Meant.n
        <4>1. num_node = LastIndex(Meant) + 1
          BY <1>8 DEF ConstantBounds, ToolGoesOn, InputKnown
        <4>2. QED
          BY <1>1, <4>1, NodesOf
      <3>3. CallKnown'
        BY <1>1 DEF MeantInv
      <3>4. BoundsOf(g, num_node, Meant)
        BY <1>1, <2>1, <3>1, <3>3 DEF CallKnown
      <3>5. g \in Seq({c})
        <4>1. g = [x \in 1 .. num_node |-> g[x]] /\ \A x \in 1 .. num_node : g[x] \in {c}
          OBVIOUS
        <4> HIDE DEF c, g
        <4>2. QED
          BY <3>2, <4>1, IsASeq
      <3> HIDE DEF c, g
      <3>6. g \in Seq(Int \X Int)
        BY <1>1, <3>2, <3>4, <3>5, BoundsTyped
      <3>7. QED
        BY <3>1, <3>6
    <2>3. ProblemTyped'
      BY <1>5, <2>1, <2>2 DEF ProblemTyped
    <2>4. QED
      BY <1>1, <1>2, <1>3, <2>1, <2>3 DEF Typed
  <1>9. CASE ReadBounds
    <2> DEFINE v == read_degrees(read_mn_matrix(Text(PP.degrees)).rows, num_node)
    <2>1. /\ UNCHANGED <<object, answer>> /\ UNCHANGED pvars
          /\ deg_bdd_vec' = v /\ num_node' = Len(v)
      BY <1>9 DEF ReadBounds
    <2>2. phase' = "method"
      BY <1>9, ReadBoundsMeant DEF ReadsKnown
    <2>3. status' = status
      BY <1>9, <2>2 DEF ReadBounds, Exit
    <2>4. num_node \in Nat
      BY <1>1, NumNodeAssumption DEF ProblemTyped
    <2>5. Text(PP.degrees) \in Texts
      BY DEF Text, ReadsKnown, Texts
    <2>6. PICK T : v \in Seq(T)
      BY <2>4, <2>5, ReadBlock, DegreesListed
    <2> HIDE DEF v
    <2>7. CallKnown'
      BY <1>1 DEF MeantInv
    <2>8. BoundsOf(v, num_node', Meant) /\ num_node' \in LastIndex(Meant) + 1 .. Meant.n
      BY <1>1, <2>1, <2>2, <2>7 DEF CallKnown
    <2>9. num_node' \in Nat /\ num_node' <= Meant.n
      BY <1>1, <2>8, NodesOf, LastIndexFacts
    <2>10. v \in Seq(Int \X Int)
      BY <1>1, <2>6, <2>8, <2>9, BoundsTyped
    <2>11. ProblemTyped'
      BY <1>5, <2>1, <2>2, <2>10 DEF ProblemTyped
    <2>12. QED
      BY <1>1, <1>2, <1>3, <2>1, <2>3, <2>11 DEF Typed
  <1>10. CASE ChooseMethod
    <2>1. /\ PP.method \in 1 .. 5 /\ NewSolver(PP.method, ijw_vec) /\ UNCHANGED answer
          /\ UNCHANGED pvars /\ status' = status
          /\ num_node' = num_node /\ deg_bdd_vec' = deg_bdd_vec /\ phase' = "solve"
      BY <1>10 DEF ChooseMethod, tvars
    <2>2. SolverTyped'
      BY <1>1, <2>1, NewSolverTyped
    <2>3. ProblemTyped'
      BY <1>1, <1>5, <2>1 DEF ProblemTyped
    <2>4. QED
      BY <1>1, <1>2, <2>1, <2>2, <2>3 DEF Typed
  <1>11. CASE CallSolver /\ UNCHANGED <<pvars, tvars>>
    <2>1. ProblemTyped' /\ SolverTyped'
      BY <1>1, <1>11, CallTyped
    <2>2. status' = status /\ UNCHANGED pvars
      BY <1>11 DEF tvars
    <2>3. QED
      BY <1>1, <1>2, <2>1, <2>2 DEF Typed
  <1>12. CASE WriteMatching
    <2>1. /\ UNCHANGED problem /\ UNCHANGED <<object, answer>> /\ UNCHANGED pvars
          /\ status' = 255 - success
      BY <1>12 DEF WriteMatching, Exit
    <2>2. status' \in {254, 255}
      BY <1>1, <2>1 DEF SolverTyped
    <2>3. QED
      BY <1>2, <1>3, <1>4, <2>1, <2>2 DEF Typed
  <1>13. ~ ExitHelp /\ ~ RefuseMethod
    BY NotRefused
  <1>14. QED
    BY <1>6, <1>7, <1>8, <1>9, <1>10, <1>11, <1>12, <1>13 DEF Tool

\* A step of a Matlab function keeps to the types.
LEMMA MatlabTyped ==
  ASSUME MatlabGoesOn, ArgumentsKnown, MeantInv, MeantInv', Typed, Matlab, UNCHANGED <<pvars, tvars>>
  PROVE  Typed'
  <1>1. /\ IsMeant /\ IsMeant' /\ IsProblem(Meant) /\ Meant' = Meant /\ method \in 1 .. 5
        /\ ProblemTyped /\ SolverTyped /\ ParserTyped /\ status \in {0, 1, 254, 255}
    <2>1. IsMeant /\ IsMeant' /\ IsProblem(Meant) /\ Meant' = Meant /\ method = Meant.method
      BY MatlabSession DEF MatlabGoesOn, IsMeant
    <2>2. QED
      BY <2>1, ProblemFacts DEF Typed
  <1>2. ParserTyped' /\ status' = status
    BY <1>1 DEF pvars, tvars, ParserTyped
  <1>3. UNCHANGED <<object, answer>> => SolverTyped'
    BY <1>1 DEF object, answer, SolverTyped
  <1>4. UNCHANGED problem => ProblemTyped'
    BY <1>1 DEF problem, ProblemTyped
  <1>5. CASE bmatch_matrix \/ Return
    <2>1. UNCHANGED <<problem, object, answer>>
      BY <1>5 DEF bmatch_matrix, Return
    <2>2. QED
      BY <1>1, <1>2, <1>3, <1>4, <2>1 DEF Typed
  <1>6. CASE CallSolver /\ UNCHANGED mvars
    <2>1. ProblemTyped' /\ SolverTyped'
      BY <1>1, <1>6, CallTyped
    <2>2. QED
      BY <1>1, <1>2, <2>1 DEF Typed
  <1>7. CASE bmatch_ijw_mex
    <2> DEFINE list == [k \in DOMAIN ijw_in |-> <<ijw_in[k][1] - 1, ijw_in[k][2] - 1, ijw_in[k][3]>>]
    <2>1. bmatch_wgt' = -1 /\ success' = success /\ bmatch_edge_vec' = bmatch_edge_vec
      BY <1>7 DEF bmatch_ijw_mex, InitialWeight
    <2>2. \/ phase' = "error" /\ UNCHANGED <<problem, object>>
          \/ /\ num_node' = Size2(ijw_bdd) /\ deg_bdd_vec' = RowMajor(ijw_bdd)
             /\ NewSolver(method, list) /\ phase' = "solve"
      <3> HIDE DEF list
      <3>1. QED
        BY <1>1, <1>7 DEF bmatch_ijw_mex, list
    <2> HIDE DEF list
    <2>3. CASE phase' = "error" /\ UNCHANGED <<problem, object>>
      <3>1. SolverTyped'
        BY <1>1, <2>1, <2>3 DEF object, SolverTyped
      <3>2. QED
        BY <1>1, <1>2, <1>4, <2>3, <3>1 DEF Typed
    <2>4. CASE /\ num_node' = Size2(ijw_bdd) /\ deg_bdd_vec' = RowMajor(ijw_bdd)
               /\ NewSolver(method, list) /\ phase' = "solve"
      <3>1. SolverTyped'
        BY <1>1, <2>1, <2>4 DEF SolverTyped, NewSolver
      <3>2. num_node' \in 0 .. NumNode /\ ijw_vec' \in Seq(Entry)
        <4>1. (MeantInv /\ IsMeant /\ phase \in {"bounds", "method", "solve"} =>
                  num_node \in 0 .. NumNode /\ ijw_vec \in Seq(Entry))'
          BY NodesTyped, PTL
        <4>2. QED
          BY <1>1, <2>4, <4>1
      <3>3. deg_bdd_vec' \in Seq(Int \X Int)
        <4> DEFINE n == Size2(ijw_bdd)
                   v == [x \in 1 .. n |-> <<ijw_bdd[1][x], ijw_bdd[2][x]>>]
                   T == {v[x] : x \in 1 .. n}
        <4>1. deg_bdd_vec' = v /\ num_node' = n /\ n \in Nat
          BY <2>4 DEF RowMajor, ArgumentsKnown
        <4>2. v = [x \in 1 .. n |-> v[x]] /\ \A x \in 1 .. n : v[x] \in T
          OBVIOUS
        <4> HIDE DEF n, v, T
        <4>3. v \in Seq(T)
          BY <4>1, <4>2, IsASeq
        <4>4. CallKnown'
          BY <1>1 DEF MeantInv
        <4>5. BoundsOf(v, n, Meant) /\ n \in LastIndex(Meant) + 1 .. Meant.n
          BY <1>1, <2>4, <4>1, <4>4 DEF CallKnown
        <4>6. n <= Meant.n
          BY <1>1, <4>5, NodesOf, LastIndexFacts
        <4>7. v \in Seq(Int \X Int)
          BY <1>1, <4>1, <4>3, <4>5, <4>6, BoundsTyped
        <4>8. QED
          BY <4>1, <4>7
      <3>4. ProblemTyped'
        BY <3>2, <3>3 DEF ProblemTyped
      <3>5. QED
        BY <1>1, <1>2, <3>1, <3>4 DEF Typed
    <2>5. QED
      BY <2>2, <2>3, <2>4
  <1>8. QED
    BY <1>5, <1>6, <1>7 DEF Matlab

LEMMA TypedSteps ==
  ASSUME FrontInv, MeantInv, MeantInv', TypedInv, [FNext]_allvars
  PROVE  TypedInv'
  <1>1. session' = session
    BY DEF FNext, ToolStep, MatlabStep, Ended, allvars
  <1> SUFFICES ASSUME IsMeant PROVE Typed'
    BY <1>1 DEF TypedInv, IsMeant, Meant
  <1>2. Typed
    BY DEF TypedInv
  <1>3. CASE ToolStep
    <2>1. ToolGoesOn
      BY <1>3 DEF ToolStep, ToolGoesOn, MeantInv
    <2>2. QED
      BY <1>2, <1>3, <2>1, ToolTyped DEF ToolStep, FrontInv
  <1>4. CASE MatlabStep
    <2>1. MatlabGoesOn
      BY <1>4 DEF MatlabStep, MatlabGoesOn, MeantInv
    <2>2. UNCHANGED <<pvars, tvars>>
      BY <1>4 DEF MatlabStep
    <2>3. QED
      BY <1>2, <1>4, <2>1, <2>2, MatlabTyped DEF MatlabStep, FrontInv
  <1>5. CASE UNCHANGED allvars
    <2>1. /\ UNCHANGED <<num_node, deg_bdd_vec, ijw_vec, ALG, gptr, success, bmatch_edge_vec, bmatch_wgt>>
          /\ UNCHANGED <<argv, i, status>>
      BY <1>5 DEF allvars, ivars, problem, object, answer, pvars, tvars
    <2>2. QED
      BY <1>2, <2>1 DEF Typed, ProblemTyped, SolverTyped, ParserTyped
  <1>6. QED
    BY <1>3, <1>4, <1>5 DEF FNext, Ended

\* In a session that means a problem every variable of the two front ends keeps
\* to its type: no more nodes than there are, indices of nodes only in what a
\* solver gets and gives, pairs of bounds, and the four exit statuses.  (What
\* means nothing may be typed with any numbers.)
THEOREM MeantSessionsAreTyped == FSpec => [](IsMeant => FTypeOK)
  <1>1. FrontInv /\ MeantInv /\ MeantInv' /\ TypedInv /\ [FNext]_allvars => TypedInv'
    BY TypedSteps
  <1>2. MeantInv /\ TypedInv => (IsMeant => FTypeOK)
    <2> SUFFICES ASSUME MeantInv, TypedInv, IsMeant PROVE FTypeOK
      OBVIOUS
    <2>1. SideKnown /\ Typed
      BY DEF MeantInv, TypedInv
    <2>2. phase \in {"options", "bounds", "method", "bmatch_matrix", "bmatch_ijw", "solve",
                     "delete", "output", "exited", "returned", "error", "crashed"}
      BY <2>1 DEF SideKnown
    <2>3. ProblemTyped /\ SolverTyped /\ ParserTyped /\ status \in {0, 1, 254, 255}
      BY <2>1 DEF Typed
    <2>4. QED
      BY <2>2, <2>3 DEF ProblemTyped, SolverTyped, ParserTyped, Entry, FTypeOK
  <1>3. QED
    BY <1>1, <1>2, TypedInit, FrontInvHolds, MeantInvHolds, PTL DEF FSpec
=============================================================================
