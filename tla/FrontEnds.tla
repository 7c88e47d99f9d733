------------------------------ MODULE FrontEnds ------------------------------
(****************************************************************************)
(* The two front ends side by side.  A session is one run of the command     *)
(* line tool or one call of a Matlab function, together with the problem its *)
(* user meant by what was typed.                                             *)
(****************************************************************************)
EXTENDS BmatchTool, MatlabInterface, Formats

CONSTANT Sessions
    \* Records: front is "tool", "bmatch_matrix" or "bmatch_ijw"; words, text and
    \* files are what the tool reads; mat, bounds, list and method the arguments
    \* in Matlab; meant is the problem that was written down, or NoProblem, and
    \* graph and shape are how its graph and its bounds were.

NoProblem == [n |-> 0, method |-> 0, w |-> <<>>, lb |-> <<>>, ub |-> <<>>]

\* Texts, matrices and bounds are rows of numbers, of any number and length,
\* and what is meant is a problem they write down.
ASSUME SessionAssumption ==
    \A s \in Sessions :
        /\ s.front \in {"tool", "bmatch_matrix", "bmatch_ijw"}
        /\ s.text \in Seq(Seq(Int)) /\ \A f \in DOMAIN s.files : s.files[f] \in Seq(Seq(Int))
        /\ s.mat \in Seq(Seq(Int)) /\ s.bounds \in Seq(Seq(Int))
        /\ s.list \in Seq(Int \X Int \X Int)
        /\ s.meant # NoProblem => IsProblem(s.meant) /\ Writes(s, s.meant)

VARIABLE session

allvars == <<ivars, pvars, tvars, mvars, session>>

FInit ==
    /\ session \in Sessions
    /\ InterfaceInit
    /\ ToolInit(session.words, session.text, session.files)
    /\ MatlabInit(session.mat, session.bounds, session.list, session.method)
    /\ phase = CASE session.front = "tool" -> "options"
                 [] session.front = "bmatch_matrix" -> "bmatch_matrix"
                 [] session.front = "bmatch_ijw" -> "bmatch_ijw"

ToolStep == session.front = "tool" /\ Tool /\ UNCHANGED <<mvars, session>>
MatlabStep == session.front # "tool" /\ Matlab /\ UNCHANGED <<pvars, tvars, session>>

Ended == phase \in {"exited", "returned", "error", "crashed"} /\ UNCHANGED allvars

FNext == ToolStep \/ MatlabStep \/ Ended

FSpec == FInit /\ [][FNext]_allvars
-----------------------------------------------------------------------------
FTypeOK ==
    /\ phase \in {"options", "bounds", "method", "bmatch_matrix", "bmatch_ijw", "solve",
                  "delete", "output", "exited", "returned", "error", "crashed"}
    /\ num_node \in 0 .. NumNode
    /\ deg_bdd_vec \in Seq(Int \X Int)
    /\ ijw_vec \in Seq(Node \X Node \X Int)
    /\ ALG \in 0 .. 5 /\ gptr \in {"none", "unset", "made"}
    /\ success \in {0, 1} /\ bmatch_edge_vec \in Seq(Node \X Node \X {1}) /\ bmatch_wgt \in Int
    /\ i \in 1 .. Len(argv) + 1
    /\ status \in {0, 1, 254, 255}

Meant == session.meant
IsMeant == Meant # NoProblem

Symmetric(w) == [p \in DOMAIN w \cup {<<e[2], e[1]>> : e \in DOMAIN w} |-> w[EdgeOf(p[1], p[2])]]

FromFirst(s, first) == \A k \in DOMAIN s : s[k][1] >= first /\ s[k][2] >= first

\* No list that is typed or passed names a node before the first, which is 0 for
\* the tool (in a line of three numbers) and 1 in Matlab.  Nothing in the code
\* checks it; a matrix has no indices that could be wrong.
CountsFromFirst ==
    /\ session.front = "tool" /\ PP.sparse = 1 =>
          \A t \in {session.text} \cup {session.files[f] : f \in DOMAIN session.files} :
             \A k \in DOMAIN t : Len(t[k]) = 3 => t[k][1] >= 0 /\ t[k][2] >= 0
    /\ session.front = "bmatch_ijw" => FromFirst(session.list, 1)

\* A solver indexes its vectors by the list, and checks neither an index nor the
\* number of bounds.  A call always has a pair of bounds for every node and no
\* index beyond the last node.  It has none before the first node when the list
\* named none: reading, shifting and completing a list make no such index, but
\* one that is typed or passed goes through.
SolverCallIsWellFormed ==
    phase = "solve" =>
        /\ Len(deg_bdd_vec) = num_node
        /\ \A k \in DOMAIN ijw_vec : ijw_vec[k][1] < num_node /\ ijw_vec[k][2] < num_node
        /\ CountsFromFirst => FromFirst(ijw_vec, 0)

\* The problem a solver is called with is the one that was meant, whichever
\* front end, format of the graph and shape of the bounds it was written in
\* ("scalar, Nx1, 1xN, Nx2 or 2xN", bmatch_matrix.m; the shapes in the comments
\* of read_degrees, bmatch.cpp).  Only isolated nodes may be missing.  Belief
\* propagation gets both triangles of the matrix, the others the upper one.
SolvesWhatWasMeant ==
    phase = "solve" /\ IsMeant =>
        /\ ALG = Meant.method
        /\ \A e \in Edge : Total(ijw_vec, e) = WeightOf(Meant, e)
        /\ ALG = 5 => \A e \in Edge : Total(ijw_vec, <<e[2], e[1]>>) = WeightOf(Meant, e)
        /\ \A x \in Node : x < num_node => deg_bdd_vec[x + 1] = <<Meant.lb[x], Meant.ub[x]>>

\* The edges a user reads off what is written or returned: the entries of a
\* dense matrix, or of a list that counts from 0 (tool) or 1 (Matlab).
IsList == (session.front = "tool" /\ PP.sparse = 1) \/ session.front = "bmatch_ijw"
Dense == IF session.front = "tool" THEN printed ELSE Ymat
MatrixEdges(m) == {e \in Node \X Node : e[1] < Len(m) /\ e[2] < Len(m) /\ m[e[1] + 1][e[2] + 1] # 0}
ListEdges(s, origin) == {<<s[k][1] - origin, s[k][2] - origin>> : k \in DOMAIN s}
ReadOff ==
    IF ~ IsList THEN MatrixEdges(Dense)
    ELSE IF session.front = "tool" THEN ListEdges(printed, 0) ELSE ListEdges(ijw_out, 1)

Answered == phase = "returned" \/ (phase = "exited" /\ status # 1)
Matched == {EdgeOf(e[1], e[2]) : e \in ReadOff}

\* The user reads off the matching the solver has found: a dense matrix is of
\* zeros and ones, and symmetric unless the tool prints what belief propagation
\* believes, deg_out is the degrees, a self-loop counted twice; and with success
\* methods 2 to 4 give a b-matching of the graph and the bounds that were meant
\* (for method 1 see GoblinExact).
AnswerReachesTheUser ==
    Answered /\ IsMeant =>
        /\ Matched = {EdgeOf(t[1], t[2]) : t \in ToSet(bmatch_edge_vec)}
        /\ ~ IsList => \A k \in DOMAIN Dense : ToSet(Dense[k]) \subseteq {0, 1}
        /\ ~ IsList /\ ~ (session.front = "tool" /\ Meant.method = 5) =>
              \A e \in ReadOff : <<e[2], e[1]>> \in ReadOff
        /\ \A k \in DOMAIN deg_out : deg_out[k] = Degree(Matched, k - 1)
        /\ success = 1 /\ Meant.method # 1 => IsBMatching(Matched, DOMAIN Meant.w, Meant.ub)

\* A problem is well posed when its weights are not negative, its bounds are in
\* order and, for belief propagation, its capacity is as the code expects it.
WellPosed ==
    /\ \A e \in DOMAIN Meant.w : Meant.w[e] >= 0
    /\ ~ Crossed(Meant.lb, Meant.ub)
    /\ Meant.method = 5 => ExpectsCapacity(Meant.n, svecvec_2_ijw(Symmetric(Meant.w)), Meant.ub)

\* How a call has ended can be told from outside: a well-posed problem is
\* answered, neither refused nor lost with an uninitialised pointer; methods 3
\* and 4 then report success, by the status 254 of the tool or a weight that is
\* not negative ("a negative weight indicates a failure", bmatch_matrix.m); and
\* what they refuse never looks like that.
LooksLikeSuccess == IF session.front = "tool" THEN status = 254 ELSE wgt >= 0
OutcomeIsReported ==
    phase \in {"exited", "returned", "error", "crashed"} /\ IsMeant =>
        /\ WellPosed => Answered
        /\ Meant.method \in {3, 4} /\ Answered => (LooksLikeSuccess <=> success = 1)
        /\ Meant.method \in {3, 4} /\ WellPosed => LooksLikeSuccess
=============================================================================
