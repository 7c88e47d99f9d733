--------------------------------- MODULE Ijw ---------------------------------
(****************************************************************************)
(* The two representations of a weighted graph in Vector.cpp: an edge list   *)
(* ("ijw"), here a sequence of triples <<i, j, w>>, and a sparse matrix      *)
(* (SparseVecVec), here a function from the stored positions to their        *)
(* values.  A position may be stored with value zero.                        *)
(****************************************************************************)
EXTENDS Integers, Sequences, FiniteSets, FiniteSetsExt, SequencesExt

\* The entries of s that are kept, in their order (SelectSeq, as a recursive
\* function).
Selected(s, Keep(_)) ==
    LET F[i \in 0 .. Len(s)] ==
            IF i = 0 THEN <<>> ELSE IF Keep(s[i]) THEN Append(F[i - 1], s[i]) ELSE F[i - 1]
    IN  F[Len(s)]

ijw_upper_tri(s, exclude_diagonal) ==
    Selected(s, LAMBDA t : t[1] < t[2] \/ (t[1] = t[2] /\ ~ exclude_diagonal))

ijw_nnz(s) == Selected(s, LAMBDA t : t[3] # 0)

ijw_transpose(s) == [k \in DOMAIN s |-> <<s[k][2], s[k][1], s[k][3]>>]

\* Mutant of ijw_add_upper_tri_transpose: the diagonal is added twice.
AddWithDiagonal(s, exclude_diagonal) == s \o ijw_transpose(ijw_upper_tri(s, FALSE))

ijw_add_upper_tri_transpose(s, exclude_diagonal) ==
    s \o ijw_transpose(ijw_upper_tri(s, exclude_diagonal))

\* Weights listed for the same position add up.
Positions(s) == {<<t[1], t[2]>> : t \in ToSet(s)}
Listed(s) == [k \in DOMAIN s |-> s[k][3]]
Total(s, p) == SumFunctionOnSet(Listed(s), {k \in DOMAIN s : s[k][1] = p[1] /\ s[k][2] = p[2]})

ijw_2_svecvec(s) == [p \in Positions(s) |-> Total(s, p)]

\* Mutant of ijw_2_svecvec_symm: both triangles are added to either.
SymmBothWays(s) ==
    [p \in Positions(s) \cup {<<q[2], q[1]>> : q \in Positions(s)} |->
        Total(s, p) + (IF p[1] # p[2] THEN Total(s, <<p[2], p[1]>>) ELSE 0)]

\* The matrix of the list with the transpose of its strict upper triangle
\* appended: an entry below the diagonal also gets what is listed above it, an
\* entry above the diagonal gets nothing from below.
ijw_2_svecvec_symm(s) == ijw_2_svecvec(ijw_add_upper_tri_transpose(s, TRUE))

\* Row by row, in the order of the columns, without the stored zeros.
Before(p, q) == p[1] < q[1] \/ (p[1] = q[1] /\ p[2] < q[2])

svecvec_2_ijw(m) ==
    LET S == {p \in DOMAIN m : m[p] # 0}
        Kth(k) == CHOOSE p \in S : Cardinality({q \in S : Before(q, p)}) = k - 1
    IN  [k \in 1 .. Cardinality(S) |-> <<Kth(k)[1], Kth(k)[2], m[Kth(k)]>>]

logical_svecvec(m) == [p \in DOMAIN m |-> IF m[p] # 0 THEN 1 ELSE m[p]]

\* The value at p as (*mat[i])[j] reads it: zero where nothing is stored.
At(m, p) == IF p \in DOMAIN m THEN m[p] ELSE 0
=============================================================================
