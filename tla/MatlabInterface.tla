--------------------------- MODULE MatlabInterface ---------------------------
(****************************************************************************)
(* The Matlab interface: bmatch_matrix.m turns a matrix into an edge list    *)
(* and calls bmatch_ijw.m, which counts from 0 and calls the mex function    *)
(* (bmatch_ijw_mex.cpp); each converts the answer back.  bmatch_ijw may also *)
(* be called directly.                                                       *)
(*                                                                           *)
(* A Matlab matrix is the sequence of its rows.                              *)
(****************************************************************************)
EXTENDS SolverInterface

VARIABLES
    W, deg_bdd, method,     \* arguments of bmatch_matrix
    N,                      \* size(W,1), 0 when bmatch_ijw was called directly
    ijw_in, ijw_bdd,        \* arguments of bmatch_ijw: the list, and a 2 x M matrix
    Ymat, ijw_out, deg_out, \* what they return
    wgt                     \* the returned weight, in halves

marguments == <<W, deg_bdd, method>>
mcall == <<N, ijw_in, ijw_bdd>>
mresults == <<Ymat, ijw_out, deg_out, wgt>>
mvars == <<marguments, mcall, mresults>>

Size1(m) == Len(m)
Size2(m) == IF m = <<>> THEN 0 ELSE Len(m[1])
numel(m) == Size1(m) * Size2(m)
Transpose(m) == [c \in 1 .. Size2(m) |-> [r \in 1 .. Size1(m) |-> m[r][c]]]

\* m(:)', the elements column by column.
Flat(m) == [k \in 1 .. numel(m) |-> m[((k - 1) % Size1(m)) + 1][((k - 1) \div Size1(m)) + 1]]

MatlabInit(mat, bounds, list, m) ==
    /\ W = mat /\ method = m
    /\ N = Len(mat)
    /\ ijw_in = list
    /\ deg_bdd = IF mat = <<>> THEN <<>> ELSE bounds
    /\ ijw_bdd = IF mat = <<>> THEN bounds ELSE <<>>
    /\ Ymat = <<>> /\ ijw_out = <<>> /\ deg_out = <<>> /\ wgt = 0

-----------------------------------------------------------------------------
\* The shapes of deg_bdd as bmatch_matrix reads them; <<>> when it is none.
ShapedBounds ==
    LET zeros == [x \in 1 .. N |-> 0]
    IN  IF numel(deg_bdd) = 1 THEN <<zeros, [x \in 1 .. N |-> deg_bdd[1][1]]>>
        ELSE IF numel(deg_bdd) = N THEN <<zeros, Flat(deg_bdd)>>
        ELSE IF numel(deg_bdd) = 2 * N /\ Size1(deg_bdd) = 2 THEN deg_bdd
        ELSE IF numel(deg_bdd) = 2 * N /\ Size1(deg_bdd) = N THEN Transpose(deg_bdd)
        ELSE <<>>

\* [I,J,V] = find(triu(W)): column by column.
FindTriu ==
    LET all == [k \in 1 .. N * N |->
                  LET row == ((k - 1) % N) + 1
                      col == ((k - 1) \div N) + 1
                  IN  <<row, col, W[row][col]>>]
    IN  ijw_nnz(ijw_upper_tri(all, FALSE))

bmatch_matrix ==
    /\ phase = "bmatch_matrix"
    /\ ijw_bdd' = ShapedBounds
    /\ IF ShapedBounds = <<>> THEN phase' = "error" /\ UNCHANGED ijw_in
       ELSE phase' = "bmatch_ijw" /\ ijw_in' = FindTriu
    /\ UNCHANGED <<problem, object, answer, marguments, N, mresults>>

MaxIndex == Max(UNION {{ijw_in[k][1], ijw_in[k][2]} : k \in DOMAIN ijw_in})

\* The mex function gets deg_bdd' and reads it column by column.
RowMajor(bdd) == [x \in 1 .. Size2(bdd) |-> <<bdd[1][x], bdd[2][x]>>]

\* Mutant of InitialWeight: the weight of nothing is 0.
ZeroWeight == 0

\* bmatch_wgt before the call.
InitialWeight == -1

\* The indices are counted from 0; the mex function checks the sizes and takes
\* as many nodes as there are bounds.
bmatch_ijw_mex ==
    /\ phase = "bmatch_ijw"
    /\ LET list == [k \in DOMAIN ijw_in |-> <<ijw_in[k][1] - 1, ijw_in[k][2] - 1, ijw_in[k][3]>>]
       IN  IF Size2(ijw_bdd) < MaxIndex \/ Size1(ijw_bdd) # 2
           THEN phase' = "error" /\ UNCHANGED <<problem, object>>
           ELSE /\ num_node' = Size2(ijw_bdd)
                /\ deg_bdd_vec' = RowMajor(ijw_bdd)
                /\ IF method \in 1 .. 5 THEN NewSolver(method, list) /\ phase' = "solve"
                   ELSE ijw_vec' = list /\ phase' = "output" /\ UNCHANGED object
    /\ bmatch_wgt' = InitialWeight
    /\ UNCHANGED <<success, bmatch_edge_vec, mvars>>

-----------------------------------------------------------------------------
\* Bmat = Bmat | Bmat': a pair of nodes is matched when either direction is.
Either(s, n) ==
    [x \in 1 .. n |-> [y \in 1 .. n |->
        IF \E k \in DOMAIN s : {s[k][1], s[k][2]} = {x, y} THEN 1 ELSE 0]]

\* Mutant of DegOut: the diagonal counts once.
ColumnSums(B) == [x \in 1 .. Len(B) |-> MapThenSumSet(LAMBDA y : B[y][x], 1 .. Len(B))]

\* sum(Bmat) + diag(Bmat)'
DegOut(B) == [x \in 1 .. Len(B) |-> MapThenSumSet(LAMBDA y : B[y][x], 1 .. Len(B)) + B[x][x]]

\* The answer is counted from 1 again.  The weight is that of the call, or the
\* one from before a call that wrote none, and halved for method 5.  A matched
\* node beyond the last node of the list would be an error of sparse().
Return ==
    /\ phase = "output"
    /\ LET out == [k \in DOMAIN bmatch_edge_vec |->
                     <<bmatch_edge_vec[k][1] + 1, bmatch_edge_vec[k][2] + 1, bmatch_edge_vec[k][3]>>]
       IN  /\ ijw_out' = out
           /\ wgt' = IF method = 5 THEN bmatch_wgt ELSE 2 * bmatch_wgt
           /\ deg_out' = DegOut(Either(out, MaxIndex))
           /\ Ymat' = Either(out, N)
           /\ phase' = IF \E k \in DOMAIN out : out[k][1] > MaxIndex \/ out[k][2] > MaxIndex
                       THEN "error" ELSE "returned"
    /\ UNCHANGED <<problem, object, answer, marguments, mcall>>

Matlab ==
    \/ bmatch_matrix \/ bmatch_ijw_mex
    \/ CallSolver /\ UNCHANGED mvars
    \/ Return
=============================================================================
