----------------------------- MODULE BmatchTool -----------------------------
(****************************************************************************)
(* bmatch.cpp: the command line tool.  It parses its options, reads a graph  *)
(* and the degree bounds from files or from the standard input, calls one    *)
(* solver and prints the matching.                                           *)
(*                                                                           *)
(* A text is a sequence of lines, a line the sequence of its numbers; the    *)
(* empty sequence is a blank line.                                           *)
(****************************************************************************)
EXTENDS SolverInterface, Parameter

VARIABLES
    stdin,      \* what is left of the standard input
    files,      \* the texts of the files, by their names
    printed,    \* the rows of numbers that were written
    status      \* the exit status

tvars == <<stdin, files, printed, status>>

ToolInit(words, text, fs) ==
    /\ ParameterInit(words)
    /\ stdin = text
    /\ files = fs
    /\ printed = <<>>
    /\ status = 0

Exit(s) == phase' = "exited" /\ status' = s

-----------------------------------------------------------------------------
(****************************************************************************)
(* Reading matrices (Vector.cpp)                                             *)
(****************************************************************************)
\* The lines before the first blank line or the end of the text.
BlockLength(text) == Min({k \in 1 .. Len(text) + 1 : k = Len(text) + 1 \/ text[k] = <<>>}) - 1

RaggedLines(text) == {k \in 1 .. BlockLength(text) : Len(text[k]) # Len(text[1])}

\* The rows of a matrix and what is left of the text.  A ragged matrix is
\* dropped at its first line of another length; the lines after it are left.
read_mn_matrix(text) ==
    LET n == BlockLength(text)
        ragged == RaggedLines(text)
    IN  IF ragged # {} THEN [rows |-> <<>>, rest |-> SubSeq(text, Min(ragged) + 1, Len(text))]
        ELSE [rows |-> SubSeq(text, 1, n), rest |-> SubSeq(text, n + 2, Len(text))]

Rows(m) == Len(m)
Columns(m) == IF m = <<>> THEN 0 ELSE Len(m[1])

\* Row by row, every element; nothing when the matrix is not square.
ijw_read_matrix(m) ==
    IF Rows(m) # Columns(m) THEN <<>>
    ELSE [k \in 1 .. Rows(m) * Rows(m) |->
            LET row == (k - 1) \div Rows(m)
                col == (k - 1) % Rows(m)
            IN  <<row, col, m[row + 1][col + 1]>>]

\* Mutant of ijw_read_ijw: further columns are let through.
AtLeastThree(m) == IF Columns(m) < 3 THEN <<>> ELSE m

ijw_read_ijw(m) == IF Columns(m) # 3 THEN <<>> ELSE m

\* The text behind a file option, and the standard input after reading r from it.
\* Every file is opened anew; one that cannot be opened reads as empty.
Text(option) ==
    IF option = NULL THEN stdin
    ELSE IF option[2] \in DOMAIN files THEN files[option[2]] ELSE <<>>
Consume(option, r) == stdin' = IF option = NULL THEN r.rest ELSE stdin

\* Mutant of NumIjwNode: only the first index is looked at.
NumFirstIndex(s) == Max({0} \cup {1 + s[k][1] : k \in DOMAIN s})

\* The number of nodes the list speaks of.
NumIjwNode(s) == Max({0} \cup {1 + s[k][1] : k \in DOMAIN s} \cup {1 + s[k][2] : k \in DOMAIN s})

ReadWeights ==
    /\ phase = "options"
    /\ parsing = "done"
    /\ LET r == read_mn_matrix(Text(PP.weights))
       IN  /\ Consume(PP.weights, r)
           /\ ijw_vec' = IF PP.sparse = 1 THEN ijw_read_ijw(r.rows)
                         ELSE ijw_nnz(ijw_upper_tri(ijw_read_matrix(r.rows), FALSE))
    /\ num_node' = NumIjwNode(ijw_vec')
    /\ phase' = "bounds"
    /\ UNCHANGED <<deg_bdd_vec, object, answer, pvars, files, printed, status>>

-----------------------------------------------------------------------------
(****************************************************************************)
(* Reading bounds                                                            *)
(****************************************************************************)
init_const_degrees(n, lower, upper) == [x \in 1 .. n |-> <<lower, upper>>]

\* -l has a meaning only together with -u.
ConstantBounds ==
    /\ phase = "bounds"
    /\ PP.const_u >= 0
    /\ deg_bdd_vec' = init_const_degrees(num_node, Max({PP.const_l, 0}), PP.const_u)
    /\ phase' = "method"
    /\ UNCHANGED <<num_node, ijw_vec, object, answer, pvars, tvars>>

\* Mutant of read_degrees: one row of two bounds is a pair for any graph.
PairBeforeRow(m, n) ==
    IF Rows(m) = 1 /\ Columns(m) = 2 THEN init_const_degrees(n, m[1][1], m[1][2])
    ELSE IF Columns(m) = 2 THEN m
    ELSE IF Columns(m) = 1 THEN [x \in 1 .. Rows(m) |-> <<0, m[x][1]>>]
    ELSE [x \in 1 .. Columns(m) |-> <<0, m[1][x]>>]

\* The bounds of an M x N matrix for a graph of n nodes: the shapes in the
\* order they are tried.  The number of nodes becomes that of the bounds.
read_degrees(m, n) ==
    LET M == Rows(m)
        N == Columns(m)
    IN  IF M = 1 /\ N = 1 THEN init_const_degrees(n, 0, m[1][1])
        ELSE IF M >= n /\ N = 1 THEN [x \in 1 .. M |-> <<0, m[x][1]>>]
        ELSE IF M >= n /\ N = 2 THEN m
        ELSE IF M = 1 /\ N >= n THEN [x \in 1 .. N |-> <<0, m[1][x]>>]
        ELSE IF M = 1 /\ N = 2 THEN init_const_degrees(n, m[1][1], m[1][2])
        ELSE IF M = 2 /\ N = 1 THEN init_const_degrees(n, m[1][1], m[2][1])
        ELSE <<>>

ReadBounds ==
    /\ phase = "bounds"
    /\ PP.const_u < 0
    /\ LET r == read_mn_matrix(Text(PP.degrees))
           bounds == read_degrees(r.rows, num_node)
       IN  /\ Consume(PP.degrees, r)
           /\ deg_bdd_vec' = bounds
           /\ num_node' = Len(bounds)
           /\ IF Len(bounds) < num_node THEN Exit(1)      \* "missing nodes"
              ELSE phase' = "method" /\ UNCHANGED status
    /\ UNCHANGED <<ijw_vec, object, answer, pvars, files, printed>>

-----------------------------------------------------------------------------
(****************************************************************************)
(* Calling the solver and writing the matching                               *)
(****************************************************************************)
ChooseMethod ==
    /\ phase = "method"
    /\ PP.method \in 1 .. 5
    /\ NewSolver(PP.method, ijw_vec)
    /\ phase' = "solve"
    /\ UNCHANGED <<num_node, deg_bdd_vec, answer, pvars, tvars>>

RefuseMethod ==
    /\ phase = "method"
    /\ PP.method \notin 1 .. 5
    /\ Exit(1)
    /\ UNCHANGED <<problem, object, answer, pvars, stdin, files, printed>>

\* The dense matrix of a list; repeated entries add up.
ijw_write_matrix(n, s) == [x \in 1 .. n |-> [y \in 1 .. n |-> Total(s, <<x - 1, y - 1>>)]]

\* The transpose is added for a dense matrix only, and not for method 5.  The
\* process ends with ~success in the low byte of its status.
WriteMatching ==
    /\ phase = "output"
    /\ printed' = IF PP.sparse = 1 THEN bmatch_edge_vec
                  ELSE IF PP.method = 5 THEN ijw_write_matrix(num_node, bmatch_edge_vec)
                  ELSE ijw_write_matrix(num_node, ijw_add_upper_tri_transpose(bmatch_edge_vec, TRUE))
    /\ Exit(255 - success)
    /\ UNCHANGED <<problem, object, answer, pvars, stdin, files>>

Options ==
    /\ phase = "options"
    /\ Parse
    /\ UNCHANGED <<ivars, tvars>>

\* After print_help().
ExitHelp ==
    /\ phase = "options"
    /\ parsing = "help"
    /\ Exit(1)
    /\ UNCHANGED <<problem, object, answer, pvars, stdin, files, printed>>

Tool ==
    \/ Options \/ ExitHelp
    \/ ReadWeights \/ ConstantBounds \/ ReadBounds
    \/ ChooseMethod \/ RefuseMethod
    \/ CallSolver /\ UNCHANGED <<pvars, tvars>>
    \/ WriteMatching
=============================================================================
