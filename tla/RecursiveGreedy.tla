--------------------------- MODULE RecursiveGreedy ---------------------------
(****************************************************************************)
(* RecursiveGreedyApproxBmatch::solve_bmatching_problem (greedyapprox.cpp):  *)
(* the greedy solver, called again on the edges and the capacity that its    *)
(* matching left over, until a call adds nothing.  Every level of the        *)
(* recursion normalises its arguments, calls                                 *)
(* GreedyApproxBmatch::solve_bmatching_problem (BmatchSolver), and appends   *)
(* the edges of the deeper levels to its own when they return.               *)
(*                                                                           *)
(* The arguments of BmatchSolver (in_ijw, in_lb, in_ub) are the local        *)
(* L_ijw_vec and L_deg_bdd_vec of the current level; frames holds what the   *)
(* suspended levels still need.                                              *)
(****************************************************************************)
EXTENDS BmatchSolver

VARIABLES
    r_ijw, r_lb, r_ub,    \* arguments of the current level
    AAmat,                \* the matrix of the current level
    level,                \* "enter", "prepared", "greedy", "unwind" or "finished"
    frames,               \* success, edges and weight of the suspended levels
    result                \* success, edges and weight of the level that returns

rargs == <<r_ijw, r_lb, r_ub>>
rvars == <<rargs, AAmat, level, frames, result>>
allvars == <<svars, rvars>>

\* The problem of the outermost call, for the properties: variables of the
\* history only.
VARIABLES asked_ijw, asked_lb, asked_ub
asked == <<asked_ijw, asked_lb, asked_ub>>

NoResult == [success |-> 0, edges |-> <<>>, wgt |-> Unset]

RInit ==
    /\ r_ijw \in EdgeLists
    /\ r_lb \in [Node -> LowerBounds]
    /\ r_ub \in [Node -> UpperBounds]
    /\ asked_ijw = r_ijw /\ asked_lb = r_lb /\ asked_ub = r_ub
    /\ AAmat = <<>>
    /\ level = "enter"
    /\ frames = <<>>
    /\ result = NoResult
    /\ in_ijw = <<>> /\ in_lb = <<>> /\ in_ub = <<>>
    /\ stage = "idle"
    /\ success = 0 /\ bmatch_edge_vec = <<>> /\ bmatch_wgt = Unset
    /\ NoSolver

\* The prepass of the level: the edges at nodes whose upper bound is zero go.
Enter ==
    /\ level = "enter"
    /\ \E m \in {ijw_2_svecvec_symm(r_ijw)} : AAmat' = WithoutZeroBound(m, r_ub)
    /\ level' = "prepared"
    /\ UNCHANGED <<svars, rargs, frames, result, asked>>

\* The upper triangle and the clamped bounds are passed to the greedy solver.
CallGreedy ==
    /\ level = "prepared"
    /\ \E w \in {UpperEdges(AAmat)} :
           /\ in_ijw' = svecvec_2_ijw(w)
           /\ in_lb' = Clamp(r_lb, DOMAIN w)
           /\ in_ub' = Clamp(r_ub, DOMAIN w)
    /\ stage' = "called"
    /\ bmatch_edge_vec' = <<>>
    /\ bmatch_wgt' = Unset
    /\ level' = "greedy"
    /\ UNCHANGED <<success, solver, rargs, AAmat, frames, result, asked>>

GreedyCall ==
    /\ level = "greedy"
    /\ Call
    /\ UNCHANGED <<rvars, asked>>

\* Mutant of LevelResult: the number of edges is returned as success.
CountAsSuccess == [success |-> Len(bmatch_edge_vec), edges |-> bmatch_edge_vec, wgt |-> bmatch_wgt]

LevelResult == [success |-> success, edges |-> bmatch_edge_vec, wgt |-> bmatch_wgt]
\* Mutant of AddedEdges: no recursion.
NeverAdded == FALSE

AddedEdges == success = 1 /\ Len(bmatch_edge_vec) > 0

\* W_residual: what the level's matching left, with the weights W of the
\* arguments of the level.
Residual(W) ==
    LET B == ToSet(bmatch_edge_vec)
        left == {p \in DOMAIN AAmat : EdgeOf(p[1], p[2]) \notin B}
    IN  [e \in {p \in left : p[1] <= p[2] /\ At(W, p) # 0} |-> At(W, e)]

\* Mutant of LessDegree: the bounds are passed on as they are.
SameBounds(b) == b

\* The bounds less the degrees in the level's matching.
LessDegree(b) == [x \in Node |-> b[x] - DegUnit * ListDegree(bmatch_edge_vec, x)]

\* Mutant of Descend: only the upper bounds are reduced.
DescendWithLower ==
    /\ level = "greedy"
    /\ stage = "returned"
    /\ AddedEdges
    /\ frames' = Append(frames, LevelResult)
    /\ \E W_residual \in {Residual(ijw_2_svecvec_symm(r_ijw))} : r_ijw' = svecvec_2_ijw(W_residual)
    /\ r_lb' = in_lb
    /\ r_ub' = LessDegree(in_ub)
    /\ level' = "enter"
    /\ UNCHANGED <<svars, AAmat, result, asked>>

Descend ==
    /\ level = "greedy"
    /\ stage = "returned"
    /\ AddedEdges
    /\ frames' = Append(frames, LevelResult)
    /\ \E W_residual \in {Residual(ijw_2_svecvec_symm(r_ijw))} : r_ijw' = svecvec_2_ijw(W_residual)
    /\ r_lb' = LessDegree(in_lb)
    /\ r_ub' = LessDegree(in_ub)
    /\ level' = "enter"
    /\ UNCHANGED <<svars, AAmat, result, asked>>

\* The level returns what the greedy solver returned.
Bottom ==
    /\ level = "greedy"
    /\ stage = "returned"
    /\ ~ AddedEdges
    /\ result' = LevelResult
    /\ level' = "unwind"
    /\ UNCHANGED <<svars, rargs, AAmat, frames, asked>>

\* Mutants of Merge: the weight is not added; the edges replace the level's own.
MergeWithoutWeight(frame, recur) ==
    IF recur.success = 1 /\ Len(recur.edges) > 0
    THEN [frame EXCEPT !.edges = @ \o recur.edges] ELSE frame
MergeReplacing(frame, recur) ==
    IF recur.success = 1 /\ Len(recur.edges) > 0
    THEN [frame EXCEPT !.edges = recur.edges, !.wgt = @ + recur.wgt] ELSE frame

\* A level appends the edges of the call below it; its own success stands.
Merge(frame, recur) ==
    IF recur.success = 1 /\ Len(recur.edges) > 0
    THEN [frame EXCEPT !.edges = @ \o recur.edges, !.wgt = @ + recur.wgt]
    ELSE frame

\* Mutant of Unwind: the level is not left.
UnwindInPlace ==
    /\ level = "unwind"
    /\ frames # <<>>
    /\ result' = Last(frames)
    /\ UNCHANGED <<svars, rargs, AAmat, level, frames, asked>>

Unwind ==
    /\ level = "unwind"
    /\ frames # <<>>
    /\ result' = Merge(Last(frames), result)
    /\ frames' = Front(frames)
    /\ UNCHANGED <<svars, rargs, AAmat, level, asked>>

Leave ==
    /\ level = "unwind"
    /\ frames = <<>>
    /\ level' = "finished"
    /\ UNCHANGED <<svars, rargs, AAmat, frames, result, asked>>

Recursion == Enter \/ CallGreedy \/ GreedyCall \/ Descend \/ Bottom \/ Unwind \/ Leave

Finished == level = "finished" /\ UNCHANGED <<allvars, asked>>

RNext == Recursion \/ Finished

RSpec == RInit /\ [][RNext]_<<allvars, asked>> /\ WF_<<allvars, asked>>(Recursion)
-----------------------------------------------------------------------------
RTypeOK ==
    /\ r_ijw \in Seq(Node \X Node \X Int)
    /\ r_lb \in [Node -> Int] /\ r_ub \in [Node -> Int]
    /\ level \in {"enter", "prepared", "greedy", "unwind", "finished"}
    /\ stage \in {"idle", "called", "pruned", "solving", "returned"}
    /\ frames \in Seq([success : {1}, edges : Seq(Edge), wgt : Nat])
    /\ result \in [success : {0, 1}, edges : Seq(Edge), wgt : Nat \cup {Unset}]

\* The outermost problem, read off the arguments of the outermost call.
AskedW(e) ==
    SumFunctionOnSet([k \in DOMAIN asked_ijw |-> asked_ijw[k][3]],
                     {k \in DOMAIN asked_ijw : <<asked_ijw[k][1], asked_ijw[k][2]>> = e})
AskedE == {e \in Edge : AskedW(e) > 0}
AskedWgt == [e \in AskedE |-> AskedW(e)]
AskedCap == [x \in Node |-> asked_ub[x] \div DegUnit]

\* All edges chosen so far, by the suspended levels and the one that returns.
ChosenEdges == FlattenSeq([k \in DOMAIN frames |-> frames[k].edges]) \o result.edges

\* At every level of the recursion the edges chosen so far are distinct edges
\* of the outermost graph and respect the outermost bounds: the capacities
\* handed down are what the levels above have left.
LevelsShareTheBounds ==
    /\ NoDuplicate(ChosenEdges)
    /\ IsBMatching(ToSet(ChosenEdges), AskedE, AskedCap)

\* Only the outermost call can be rejected: the bounds a level derives for
\* the next one never cross.
OnlyOutermostRejects ==
    frames # <<>> /\ level = "greedy" /\ stage = "returned" => success = 1

\* The merged matching is maximal: no positive edge of the problem fits any more.
MergedIsMaximal ==
    level = "finished" /\ result.success = 1 => IsMaximal(ToSet(result.edges), AskedE, AskedCap)

\* The merged weight is sum_{i<=j} Wij Yij of the merged edges.
MergedWeight ==
    level = "finished" /\ result.success = 1 =>
        result.wgt = SumFunction([k \in DOMAIN result.edges |-> AskedW(result.edges[k])])

\* The outermost call keeps the contract the front ends rely on (integral
\* bounds): its caller sees one rejection or one b-matching and its weight,
\* whatever the levels have merged.
RecursionKeepsContract ==
    level = "finished" =>
        Contract(4, NumNode, asked_ijw, asked_lb, asked_ub,
                 [success |-> result.success, edges |-> ToSet(result.edges),
                  wgt |-> result.wgt, gptr |-> "none"])

\* The recursion implements ApproxSolver over all its levels: what a deeper
\* level finds only ever adds to the matching of the outermost problem, within
\* its bounds, and the merged matching weighs half of the best one ("greedy
\* 1/2 approximation to maxwgt solution with recursion", README).
Outermost == INSTANCE ApproxSolver WITH
    wgt <- AskedWgt, ub <- AskedCap, matching <- ToSet(ChosenEdges),
    done <- (level = "finished" /\ result.success = 1)

ImplementsApproxSolver == Outermost!Spec

\* The recursion is bounded: it ends, and no level is entered without an edge
\* having been added above it.
RecursionEnds == <>(level = "finished")
=============================================================================
