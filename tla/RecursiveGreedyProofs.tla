------------------------- MODULE RecursiveGreedyProofs -------------------------
(****************************************************************************)
(* Theorems about RecursiveGreedyApproxBmatch::solve_bmatching_problem: for  *)
(* every number of nodes, every edge list and all integral bounds, however   *)
(* deep the recursion goes.                                                  *)
(****************************************************************************)
EXTENDS RecursiveGreedy, BmatchSolverProofs

-----------------------------------------------------------------------------
(****************************************************************************)
(* The invariant of the recursion.                                           *)
(****************************************************************************)
\* The edges of the suspended levels.
EdgesAbove(fs) == FlattenSeq([k \in DOMAIN fs |-> fs[k].edges])
SoFar == EdgesAbove(frames)

\* The edges the current level is given.
Rest == {e \in Edge : Total(r_ijw, e) # 0}

\* Some level has succeeded.
Succeeding == frames # <<>> \/ result.success = 1

\* The suspended levels: what they found, and what it weighs.
Suspended == [success : {1}, edges : Seq(Edge), wgt : Nat]
FramesKnown ==
  /\ frames \in Seq(Suspended)
  /\ \A k \in DOMAIN frames : frames[k].wgt = ListWeight(frames[k].edges, AskedWgt)

\* All that has been chosen is a b-matching, and once there is any the first
\* greedy matching is among it.
ChosenKnown ==
  /\ ChosenEdges \in Seq(Edge) /\ NoDuplicate(ChosenEdges)
  /\ IsBMatching(ToSet(ChosenEdges), AskedE, AskedCap)
  /\ Succeeding =>
       /\ \A e \in Usable(asked_ijw, asked_ub) : AskedW(e) > 0
       /\ BestWeight(AskedE, AskedWgt, AskedCap) <= 2 * ListWeight(ChosenEdges, AskedWgt)

\* What a level is given: edges nobody has taken, with their weights, and
\* capacity nobody has used.  What it is not given is out of reach, and the
\* capacity it is not given would be of no use to it.
GivenRest ==
  /\ \A e \in Rest : Total(r_ijw, e) = AskedW(e) /\ e \notin ToSet(SoFar)
  /\ \A x \in Node : /\ r_ub[x] <= asked_ub[x] - Degree(ToSet(SoFar), x)
                     /\ \/ r_ub[x] = asked_ub[x] - Degree(ToSet(SoFar), x)
                        \/ r_ub[x] >= Degree(Rest, x)
  /\ \A e \in AskedE \ ToSet(SoFar) :
       e \in Rest \/ \E x \in Node : IncidentTo(e, x) /\ asked_ub[x] = Degree(ToSet(SoFar), x)
  /\ frames # <<>> => ~ HasNegativeWeight(r_ijw) /\ \A x \in Node : r_lb[x] <= r_ub[x]
  /\ frames = <<>> => r_ijw = asked_ijw /\ r_lb = asked_lb /\ r_ub = asked_ub

\* The greedy solver is called with the usable part of it.
GreedyGiven ==
  LET E == Usable(r_ijw, r_ub)
  IN  /\ \A e \in Edge : Total(in_ijw, e) = IF e \in E THEN Total(r_ijw, e) ELSE 0
      /\ HasNegativeWeight(in_ijw) => \E e \in E : Total(r_ijw, e) < 0
      /\ in_lb = Clamp(r_lb, E) /\ in_ub = Clamp(r_ub, E)

\* What the level that returns has found.
Outcome == [success : {0, 1}, edges : Seq(Edge), wgt : Nat \cup {Unset}]
ResultKnown ==
  /\ result \in Outcome
  /\ \/ /\ result.success = 0 /\ result.edges = <<>> /\ result.wgt = Unset
        /\ frames = <<>>
        /\ HasNegativeWeight(asked_ijw) \/ Crossed(asked_lb, asked_ub)
     \/ /\ result.success = 1 /\ result.edges \in Seq(Edge) /\ result.wgt \in Nat
        /\ result.wgt = ListWeight(result.edges, AskedWgt)
        /\ IsMaximal(ToSet(ChosenEdges), AskedE, AskedCap)

LevelTypes ==
  /\ asked_ijw \in Seq(Entry) /\ asked_lb \in [Node -> Int] /\ asked_ub \in [Node -> Nat]
  /\ r_ijw \in Seq(Entry) /\ r_lb \in [Node -> Int] /\ r_ub \in [Node -> Nat]
  /\ level \in {"enter", "prepared", "greedy", "unwind", "finished"}
  /\ stage \in {"idle", "called", "pruned", "solving", "returned"}
  /\ success \in {0, 1}

RecursionInv ==
  /\ LevelTypes /\ FramesKnown /\ ChosenKnown
  /\ level \in {"enter", "prepared", "greedy"} => GivenRest /\ result = NoResult
  /\ level \in {"prepared", "greedy"} =>
       AAmat = WithoutZeroBound(ijw_2_svecvec_symm(r_ijw), r_ub)
  /\ level = "greedy" => GreedyGiven /\ CallInv
  /\ level \in {"unwind", "finished"} => ResultKnown
  /\ level = "finished" => frames = <<>>
-----------------------------------------------------------------------------
(****************************************************************************)
(* The problem that is asked and the matrix of a level.                      *)
(****************************************************************************)
\* The outermost problem is read off the arguments of the outermost call.
LEMMA AskedProblem ==
  ASSUME DegUnit = 1, LevelTypes
  PROVE  /\ \A e \in Edge : AskedW(e) = Total(asked_ijw, e) /\ AskedW(e) \in Int
         /\ AskedE \in SUBSET Edge
         /\ \A e \in AskedE : /\ AskedWgt[e] = AskedW(e) /\ AskedW(e) > 0
                              /\ AskedWgt[e] \in Nat
         /\ AskedCap \in [Node -> Nat]
         /\ \A x \in Node : AskedCap[x] = asked_ub[x] /\ asked_ub[x] \in Nat
  <1>1. ASSUME NEW e \in Edge
        PROVE  AskedW(e) = Total(asked_ijw, e) /\ AskedW(e) \in Int
    <2>1. e = <<e[1], e[2]>>
      BY DEF Edge
    <2>2. {k \in DOMAIN asked_ijw : <<asked_ijw[k][1], asked_ijw[k][2]>> = e}
            = {k \in DOMAIN asked_ijw : asked_ijw[k][1] = e[1] /\ asked_ijw[k][2] = e[2]}
      BY <2>1
    <2>3. AskedW(e) = Total(asked_ijw, e)
      BY <2>2 DEF AskedW, Total, Listed
    <2>4. asked_ijw \in Seq(Entry)
      BY DEF LevelTypes
    <2>5. QED
      BY <2>3, <2>4, TotalFacts
  <1>2. \A e \in AskedE : AskedWgt[e] = AskedW(e) /\ AskedW(e) > 0 /\ e \in Edge
    BY DEF AskedE, AskedWgt
  <1>3. \A e \in AskedE : AskedWgt[e] \in Nat
    BY <1>1, <1>2
  <1>4. \A x \in Node : AskedCap[x] = asked_ub[x] /\ asked_ub[x] \in Nat
    <2>1. \A x \in Node : asked_ub[x] \in Nat /\ asked_ub[x] \div 1 = asked_ub[x]
      BY DEF LevelTypes
    <2>2. \A x \in Node : AskedCap[x] = asked_ub[x] \div 1
      BY DEF AskedCap
    <2>3. QED
      BY <2>1, <2>2
  <1>5. AskedCap \in [Node -> Nat]
    <2>1. AskedCap = [x \in Node |-> AskedCap[x]]
      BY DEF AskedCap
    <2>2. QED
      BY <1>4, <2>1
  <1>6. QED
    BY <1>1, <1>2, <1>3, <1>4, <1>5

\* The matrix of a level, above the diagonal: the edges the level may use.
LEMMA LevelMatrix ==
  ASSUME NEW s \in Seq(Entry), NEW ub \in [Node -> Nat]
  PROVE  LET W == ijw_2_svecvec_symm(s)
             A == WithoutZeroBound(W, ub)
         IN  /\ {p \in DOMAIN A : p[1] <= p[2] /\ At(W, p) # 0} = Usable(s, ub)
             /\ \A e \in Usable(s, ub) : At(W, e) = Total(s, e) /\ e \in DOMAIN A
  <1> DEFINE W == ijw_2_svecvec_symm(s)
             A == WithoutZeroBound(W, ub)
  <1>1. UpperEdges(A) = UsableGraph(s, ub)
    BY ProblemIsUsable DEF Problem
  <1>2. /\ DOMAIN A = {q \in DOMAIN W : ub[q[1]] # 0 /\ ub[q[2]] # 0}
        /\ \A p \in DOMAIN A : A[p] = W[p]
    BY DEF WithoutZeroBound
  <1> HIDE DEF W, A
  <1>3. \A p \in DOMAIN A : At(W, p) = A[p]
    BY <1>2 DEF At
  <1>4. DOMAIN UpperEdges(A) = {p \in DOMAIN A : p[1] <= p[2] /\ A[p] # 0}
    BY DEF UpperEdges
  <1>5. {p \in DOMAIN A : p[1] <= p[2] /\ A[p] # 0} = Usable(s, ub)
    BY <1>1, <1>4 DEF UsableGraph
  <1>6. {p \in DOMAIN A : p[1] <= p[2] /\ At(W, p) # 0} = Usable(s, ub)
    BY <1>3, <1>5
  <1>7. \A e \in Usable(s, ub) : e \in DOMAIN A /\ At(W, e) = Total(s, e)
    <2> TAKE e \in Usable(s, ub)
    <2>1. e \in DOMAIN A /\ e[1] <= e[2] /\ A[e] # 0
      BY <1>5
    <2>2. UpperEdges(A)[e] = A[e]
      BY <2>1 DEF UpperEdges
    <2>3. UsableGraph(s, ub)[e] = Total(s, e)
      BY DEF UsableGraph
    <2>4. QED
      BY <1>1, <1>3, <2>1, <2>2, <2>3
  <1>8. QED
    BY <1>6, <1>7 DEF W, A

\* What W_residual is: the usable edges that are not matched.
LEMMA ResidualIs ==
  ASSUME NEW s \in Seq(Entry), NEW ub \in [Node -> Nat],
         AAmat = WithoutZeroBound(ijw_2_svecvec_symm(s), ub)
  PROVE  Residual(ijw_2_svecvec_symm(s))
           = [e \in Usable(s, ub) \ ToSet(bmatch_edge_vec) |-> Total(s, e)]
  <1> DEFINE W == ijw_2_svecvec_symm(s)
             B == ToSet(bmatch_edge_vec)
             G == Usable(s, ub)
             left == {p \in DOMAIN AAmat : EdgeOf(p[1], p[2]) \notin B}
             D == {p \in left : p[1] <= p[2] /\ At(W, p) # 0}
  <1>1. /\ {p \in DOMAIN AAmat : p[1] <= p[2] /\ At(W, p) # 0} = G
        /\ \A e \in G : At(W, e) = Total(s, e)
    BY LevelMatrix
  <1>2. \A e \in G : e = EdgeOf(e[1], e[2])
    BY UsableFacts
  <1>3. D = G \ B
    <2> HIDE DEF G, B, W
    <2>1. D \subseteq G
      BY <1>1
    <2>2. G \subseteq {p \in DOMAIN AAmat : p[1] <= p[2] /\ At(W, p) # 0}
      BY <1>1
    <2>3. \A p \in G : p \in D <=> p \notin B
      BY <1>2, <2>2
    <2>4. QED
      BY <2>1, <2>3
  <1>4. Residual(W) = [e \in D |-> At(W, e)]
    BY DEF Residual
  <1> HIDE DEF D, G, B, W
  <1>5. Residual(W) = [e \in G \ B |-> Total(s, e)]
    BY <1>1, <1>3, <1>4
  <1>6. QED
    BY <1>5 DEF W, G, B
-----------------------------------------------------------------------------
(****************************************************************************)
(* A level.                                                                  *)
(****************************************************************************)
\* The bounds the greedy solver is called with.
LEMMA GivenBoundsAre ==
  ASSUME DegUnit = 1, LevelTypes, GreedyGiven
  PROVE  LET G == Usable(r_ijw, r_ub)
         IN  /\ in_ub \in [Node -> Nat] /\ in_lb \in [Node -> Nat]
             /\ \A x \in Node :
                  /\ Degree(G, x) \in Nat /\ r_ub[x] \in Nat /\ in_ub[x] \in Nat /\ in_lb[x] \in Nat
                  /\ in_ub[x] = IF r_ub[x] <= Degree(G, x) THEN r_ub[x] ELSE Degree(G, x)
                  /\ in_lb[x] <= Degree(G, x)
  <1> DEFINE G == Usable(r_ijw, r_ub)
  <1>1. G \in SUBSET Edge
    BY UsableFacts DEF LevelTypes
  <1>2. in_ub = Clamp(r_ub, G) /\ in_lb = Clamp(r_lb, G)
    BY DEF GreedyGiven
  <1>3. r_ub \in [Node -> Nat] /\ r_ub \in [Node -> Int] /\ r_lb \in [Node -> Int]
    BY DEF LevelTypes
  <1> HIDE DEF G
  <1>4. ASSUME NEW x \in Node
        PROVE  /\ Degree(G, x) \in Nat /\ r_ub[x] \in Nat /\ in_ub[x] \in Nat /\ in_lb[x] \in Nat
               /\ in_ub[x] = IF r_ub[x] <= Degree(G, x) THEN r_ub[x] ELSE Degree(G, x)
               /\ in_lb[x] <= Degree(G, x)
    <2>1. /\ Degree(G, x) \in Nat /\ in_ub[x] \in Nat
          /\ in_ub[x] = IF r_ub[x] < 0 THEN 0 ELSE IF r_ub[x] <= Degree(G, x) THEN r_ub[x] ELSE Degree(G, x)
      BY <1>1, <1>2, <1>3, ClampIs
    <2>2. /\ in_lb[x] \in Nat
          /\ in_lb[x] = IF r_lb[x] < 0 THEN 0 ELSE IF r_lb[x] <= Degree(G, x) THEN r_lb[x] ELSE Degree(G, x)
      BY <1>1, <1>2, <1>3, ClampIs
    <2>3. r_ub[x] \in Nat /\ r_lb[x] \in Int
      BY <1>3
    <2>4. QED
      BY <2>1, <2>2, <2>3
  <1>5. in_ub = [x \in Node |-> in_ub[x]] /\ in_lb = [x \in Node |-> in_lb[x]]
    BY <1>2 DEF Clamp
  <1>6. in_ub \in [Node -> Nat] /\ in_lb \in [Node -> Nat]
    BY <1>4, <1>5
  <1>7. QED
    BY <1>4, <1>6 DEF G

\* A bound that is in 0 .. degree stays what it is.
LEMMA ClampedStays ==
  ASSUME DegUnit = 1, NEW b \in [Node -> Nat], NEW E \in SUBSET Edge,
         \A x \in Node : b[x] <= Degree(E, x)
  PROVE  Clamp(b, E) = b
  <1>1. b \in [Node -> Int]
    OBVIOUS
  <1>2. ASSUME NEW x \in Node
        PROVE  Clamp(b, E)[x] = b[x]
    <2>1. /\ Degree(E, x) \in Nat /\ b[x] \in Nat /\ b[x] <= Degree(E, x)
          /\ Clamp(b, E)[x] = IF b[x] < 0 THEN 0 ELSE IF b[x] <= Degree(E, x) THEN b[x] ELSE Degree(E, x)
      BY <1>1, ClampIs
    <2>2. QED
      BY <2>1
  <1>3. Clamp(b, E) = [x \in Node |-> Clamp(b, E)[x]]
    BY DEF Clamp
  <1>4. b = [x \in Node |-> b[x]]
    OBVIOUS
  <1>5. QED
    BY <1>2, <1>3, <1>4

\* The greedy solver uses all it is called with: normalising the usable part
\* of a problem again loses nothing.
LEMMA UsableAgain ==
  ASSUME DegUnit = 1, LevelTypes, GreedyGiven, in_ijw \in Seq(Entry)
  PROVE  LET G == Usable(r_ijw, r_ub)
         IN  /\ Usable(in_ijw, in_ub) = G
             /\ UsableGraph(in_ijw, in_ub) = UsableGraph(r_ijw, r_ub)
             /\ Clamp(in_ub, G) = in_ub /\ Clamp(in_lb, G) = in_lb
  <1> DEFINE G == Usable(r_ijw, r_ub)
  <1>1. /\ G \in SUBSET Edge
        /\ \A e \in G : e[1] \in Node /\ e[2] \in Node /\ Total(r_ijw, e) # 0 /\ r_ub[e[1]] > 0 /\ r_ub[e[2]] > 0
    BY UsableFacts DEF LevelTypes
  <1>2. /\ in_ub \in [Node -> Nat] /\ in_lb \in [Node -> Nat]
        /\ \A x \in Node :
             /\ Degree(G, x) \in Nat /\ r_ub[x] \in Nat /\ in_ub[x] \in Nat /\ in_lb[x] \in Nat
             /\ in_ub[x] = IF r_ub[x] <= Degree(G, x) THEN r_ub[x] ELSE Degree(G, x)
             /\ in_lb[x] <= Degree(G, x)
    BY GivenBoundsAre
  <1>3. \A e \in Edge : Total(in_ijw, e) = IF e \in G THEN Total(r_ijw, e) ELSE 0
    BY DEF GreedyGiven
  <1> HIDE DEF G
  <1>4. ASSUME NEW e \in G
        PROVE  in_ub[e[1]] > 0 /\ in_ub[e[2]] > 0
    <2>1. ASSUME NEW x \in Node, IncidentTo(e, x), r_ub[x] > 0
          PROVE  in_ub[x] > 0
      <3>1. Degree(G, x) # 0
        BY <1>1, <2>1, DegreeFacts
      <3>2. QED
        BY <1>2, <2>1, <3>1
    <2>2. QED
      BY <1>1, <2>1 DEF IncidentTo
  <1>5. Usable(in_ijw, in_ub) = G
    BY <1>1, <1>3, <1>4 DEF Usable
  <1>6. UsableGraph(in_ijw, in_ub) = UsableGraph(r_ijw, r_ub)
    <2>1. UsableGraph(in_ijw, in_ub) = [e \in G |-> Total(in_ijw, e)]
      BY <1>5 DEF UsableGraph
    <2>2. UsableGraph(r_ijw, r_ub) = [e \in G |-> Total(r_ijw, e)]
      BY DEF UsableGraph, G
    <2>3. \A e \in G : Total(in_ijw, e) = Total(r_ijw, e)
      BY <1>1, <1>3
    <2>4. QED
      BY <2>1, <2>2, <2>3
  <1>7. \A x \in Node : in_ub[x] <= Degree(G, x) /\ in_lb[x] <= Degree(G, x)
    <2> TAKE x \in Node
    <2>1. /\ Degree(G, x) \in Nat /\ r_ub[x] \in Nat
          /\ in_ub[x] = IF r_ub[x] <= Degree(G, x) THEN r_ub[x] ELSE Degree(G, x)
      BY <1>2
    <2>2. in_ub[x] <= Degree(G, x)
      BY <2>1
    <2>3. QED
      BY <1>2, <2>2
  <1>8. Clamp(in_ub, G) = in_ub /\ Clamp(in_lb, G) = in_lb
    BY <1>1, <1>2, <1>7, ClampedStays
  <1>9. QED
    BY <1>5, <1>6, <1>8 DEF G

\* The edges of suspended levels are edges.
LEMMA EdgesAboveType ==
  ASSUME NEW fs \in Seq(Suspended)
  PROVE  EdgesAbove(fs) \in Seq(Edge)
  <1> DEFINE ss == [k \in DOMAIN fs |-> fs[k].edges]
  <1>1. /\ DOMAIN fs = 1 .. Len(fs) /\ Len(fs) \in Nat
        /\ \A k \in DOMAIN fs : fs[k].edges \in Seq(Edge)
    <2>1. /\ DOMAIN fs = 1 .. Len(fs) /\ Len(fs) \in Nat
          /\ \A k \in DOMAIN fs : fs[k] \in Suspended
      BY LenProperties, ElementOfSeq
    <2>2. QED
      BY <2>1 DEF Suspended
  <1>2. ss = [k \in 1 .. Len(fs) |-> fs[k].edges]
    BY <1>1
  <1>3. \A k \in 1 .. Len(fs) : ss[k] \in Seq(Edge)
    BY <1>1
  <1> HIDE DEF ss
  <1>4. ss \in Seq(Seq(Edge))
    BY <1>1, <1>2, <1>3, IsASeq
  <1>5. <<>> \in Seq(Edge)
    OBVIOUS
  <1>6. FlattenSeq(ss) \in Seq(Edge)
    BY <1>4, <1>5, FlattenAppend
  <1>7. QED
    BY <1>6 DEF EdgesAbove, ss

\* What the levels have chosen is a list of edges that have a weight.
LEMMA ChosenSoFar ==
  ASSUME DegUnit = 1, LevelTypes, FramesKnown, ChosenKnown, result.edges = <<>>
  PROVE  /\ ChosenEdges = SoFar
         /\ SoFar \in Seq(Edge) /\ NoDuplicate(SoFar)
         /\ ToSet(SoFar) \in SUBSET AskedE
         /\ Weighed(SoFar, AskedWgt)
         /\ \A x \in Node : Degree(ToSet(SoFar), x) <= asked_ub[x]
  <1>1. SoFar \in Seq(Edge)
    BY EdgesAboveType DEF SoFar, FramesKnown
  <1>2. ChosenEdges = SoFar
    <2>1. ChosenEdges = SoFar \o <<>>
      BY DEF ChosenEdges, SoFar, EdgesAbove
    <2>2. QED
      BY <1>1, <2>1, ConcatEmptySeq
  <1>3. NoDuplicate(SoFar) /\ ToSet(SoFar) \in SUBSET AskedE
    BY <1>2 DEF ChosenKnown, IsBMatching
  <1>4. \A x \in Node : Degree(ToSet(SoFar), x) <= asked_ub[x]
    <2>1. \A x \in Node : Degree(ToSet(SoFar), x) <= AskedCap[x]
      BY <1>2 DEF ChosenKnown, IsBMatching
    <2>2. QED
      BY <2>1, AskedProblem
  <1>5. Weighed(SoFar, AskedWgt)
    <2>1. \A k \in DOMAIN SoFar : SoFar[k] \in AskedE
      BY <1>3 DEF ToSet
    <2>2. QED
      BY <1>1, <2>1, AskedProblem DEF Weighed
  <1>6. QED
    BY <1>1, <1>2, <1>3, <1>4, <1>5

\* Edges a level may use are worth something once it is known that it is not
\* rejected, and belong to what was asked.
LEMMA LevelEdges ==
  ASSUME DegUnit = 1, LevelTypes, FramesKnown, ChosenKnown, GivenRest, result.edges = <<>>
  PROVE  LET G == Usable(r_ijw, r_ub)
         IN  /\ G \in SUBSET Edge /\ G \subseteq Rest /\ G \cap ToSet(SoFar) = {}
             /\ \A e \in G : Total(r_ijw, e) = AskedW(e)
             /\ \A e \in Rest : e \notin G => \E x \in Node : IncidentTo(e, x) /\ r_ub[x] = 0
             /\ frames # <<>> => \A e \in G : AskedW(e) > 0
  <1> DEFINE G == Usable(r_ijw, r_ub)
  <1>1. G \in SUBSET Edge /\ G \subseteq Rest
    BY DEF Usable, Rest
  <1>2. G \cap ToSet(SoFar) = {} /\ \A e \in G : Total(r_ijw, e) = AskedW(e)
    BY <1>1 DEF GivenRest
  <1>3. ASSUME NEW e \in Rest, e \notin G
        PROVE  \E x \in Node : IncidentTo(e, x) /\ r_ub[x] = 0
    <2>1. e \in Edge /\ ~ (r_ub[e[1]] > 0 /\ r_ub[e[2]] > 0)
      BY <1>3 DEF Rest, Usable
    <2>2. e[1] \in Node /\ e[2] \in Node
      BY <2>1 DEF Edge
    <2>3. \A x \in Node : r_ub[x] > 0 \/ r_ub[x] = 0
      BY DEF LevelTypes
    <2>4. IncidentTo(e, e[1]) /\ IncidentTo(e, e[2])
      BY DEF IncidentTo
    <2>5. QED
      BY <2>1, <2>2, <2>3, <2>4
  <1>4. ASSUME frames # <<>>, NEW e \in G
        PROVE  AskedW(e) > 0
    <2>1. ~ HasNegativeWeight(r_ijw) /\ r_ijw \in Seq(Entry)
      BY <1>4 DEF GivenRest, LevelTypes
    <2>2. Total(r_ijw, e) > 0
      BY <2>1, UsableFacts
    <2>3. QED
      BY <1>2, <2>2
  <1>5. QED
    BY <1>1, <1>2, <1>3, <1>4 DEF G

\* What the greedy solver answers is a b-matching of the edges the level may
\* use, at least half as heavy as the best one of them.
LEMMA LevelAnswer ==
  ASSUME DegUnit = 1, RecursionInv, level = "greedy", stage = "returned", success = 1
  PROVE  LET G == Usable(r_ijw, r_ub)
             M == ToSet(bmatch_edge_vec)
         IN  /\ G \subseteq AskedE
             /\ bmatch_edge_vec \in Seq(Edge) /\ NoDuplicate(bmatch_edge_vec)
             /\ M \subseteq G
             /\ \A x \in Node : Degree(M, x) <= in_ub[x]
             /\ Weighed(bmatch_edge_vec, AskedWgt)
             /\ bmatch_wgt = ListWeight(bmatch_edge_vec, AskedWgt) /\ bmatch_wgt \in Nat
             /\ BestWeight(G, UsableGraph(r_ijw, r_ub), in_ub) <= 2 * bmatch_wgt
             /\ \A x \in Node : in_lb[x] <= in_ub[x]
  <1> DEFINE G == Usable(r_ijw, r_ub)
             s == bmatch_edge_vec
             w == UsableGraph(r_ijw, r_ub)
  <1>1. /\ LevelTypes /\ FramesKnown /\ ChosenKnown /\ GivenRest /\ GreedyGiven /\ CallInv
        /\ result = NoResult
    BY DEF RecursionInv
  <1>2. CallAnswer /\ in_ijw \in Seq(Entry)
    BY <1>1, AnswerShape DEF CallInv
  <1>3. /\ Usable(in_ijw, in_ub) = G /\ UsableGraph(in_ijw, in_ub) = w
        /\ Clamp(in_ub, G) = in_ub /\ Clamp(in_lb, G) = in_lb
    BY <1>1, <1>2, UsableAgain
  <1>4. result.edges = <<>>
    BY <1>1 DEF NoResult
  <1>5. /\ G \in SUBSET Edge
        /\ \A e \in G : Total(r_ijw, e) = AskedW(e)
    BY <1>1, <1>4, LevelEdges
  <1>6. /\ s \in Seq(Edge) /\ NoDuplicate(s)
        /\ ToSet(s) \subseteq G /\ \A x \in Node : Degree(ToSet(s), x) <= in_ub[x]
        /\ bmatch_wgt = ListWeight(s, w)
        /\ BestWeight(G, w, in_ub) <= 2 * bmatch_wgt
        /\ \A x \in Node : in_lb[x] <= in_ub[x]
        /\ ~ HasNegativeWeight(in_ijw)
    BY <1>2, <1>3 DEF CallAnswer, InOrder, IsBMatching
  <1>7. \A e \in G : AskedW(e) > 0 /\ w[e] = AskedW(e)
    <2> TAKE e \in G
    <2>1. e \in Edge /\ Total(in_ijw, e) = Total(r_ijw, e)
      BY <1>1, <1>5 DEF GreedyGiven
    <2>2. e \in Usable(in_ijw, in_ub)
      BY <1>3
    <2>3. Total(in_ijw, e) > 0
      BY <1>2, <1>6, <2>2, UsableFacts
    <2>4. w[e] = Total(r_ijw, e)
      BY DEF UsableGraph
    <2>5. QED
      BY <1>5, <2>1, <2>3, <2>4
  <1>8. G \subseteq AskedE /\ \A e \in G : AskedWgt[e] = w[e]
    BY <1>5, <1>7 DEF AskedE, AskedWgt
  <1>9. \A k \in DOMAIN s : s[k] \in G
    BY <1>6 DEF ToSet
  <1> HIDE DEF G, w
  <1>10. Weighed(s, AskedWgt)
    <2>1. \A e \in AskedE : AskedWgt[e] \in Nat
      BY <1>1, AskedProblem
    <2>2. QED
      BY <1>6, <1>8, <1>9, <2>1 DEF Weighed
  <1>11. ListWeight(s, w) = ListWeight(s, AskedWgt)
    <2>1. [k \in DOMAIN s |-> w[s[k]]] = [k \in DOMAIN s |-> AskedWgt[s[k]]]
      BY <1>8, <1>9
    <2>2. QED
      BY <2>1 DEF ListWeight
  <1>12. bmatch_wgt = ListWeight(s, AskedWgt) /\ bmatch_wgt \in Nat
    BY <1>6, <1>10, <1>11, WeighedList
  <1>13. QED
    BY <1>6, <1>8, <1>10, <1>12 DEF G, w

\* The best of what was asked is found by the outermost greedy matching.
LEMMA FirstIsHalf ==
  ASSUME DegUnit = 1, RecursionInv, level = "greedy", stage = "returned", success = 1,
         frames = <<>>
  PROVE  BestWeight(AskedE, AskedWgt, AskedCap) <= 2 * bmatch_wgt
  <1> DEFINE G == Usable(asked_ijw, asked_ub)
             w == UsableGraph(asked_ijw, asked_ub)
             c == Clamp(asked_ub, G)
  <1>1. /\ LevelTypes /\ FramesKnown /\ ChosenKnown /\ GivenRest /\ GreedyGiven
        /\ result = NoResult
    BY DEF RecursionInv
  <1>2. r_ijw = asked_ijw /\ r_ub = asked_ub
    BY <1>1 DEF GivenRest
  <1>3. /\ G \subseteq AskedE /\ BestWeight(G, w, in_ub) <= 2 * bmatch_wgt /\ bmatch_wgt \in Nat
    BY <1>2, LevelAnswer
  <1>4. in_ub = c
    BY <1>1, <1>2 DEF GreedyGiven
  <1>5. asked_ijw \in Seq(Entry) /\ asked_ub \in [Node -> Nat]
    BY <1>1 DEF LevelTypes
  <1>6. /\ AskedE \in SUBSET Edge /\ AskedCap \in [Node -> Nat]
        /\ \A e \in AskedE : Total(asked_ijw, e) > 0 /\ AskedWgt[e] = Total(asked_ijw, e)
        /\ \A x \in Node : AskedCap[x] = asked_ub[x]
    BY <1>1, AskedProblem
  <1>7. \A e \in G : Total(asked_ijw, e) > 0
    BY <1>3, <1>6
  <1>8. /\ BestWeight(AskedE, AskedWgt, AskedCap) <= BestWeight(G, w, c)
        /\ BestWeight(AskedE, AskedWgt, AskedCap) \in Nat
        /\ BestWeight(G, w, c) \in Nat
    BY <1>5, <1>6, <1>7, BestIsUsable
  <1> HIDE DEF G, w, c
  <1>9. QED
    BY <1>3, <1>4, <1>8

\* The edges of a level are added to a b-matching of what was asked: what the
\* levels above have left of the bounds is enough for them.
LEMMA LevelAdds ==
  ASSUME DegUnit = 1, RecursionInv, level = "greedy", stage = "returned", success = 1
  PROVE  LET c == SoFar \o bmatch_edge_vec
             M == ToSet(bmatch_edge_vec)
         IN  /\ c \in Seq(Edge) /\ NoDuplicate(c)
             /\ ToSet(c) = ToSet(SoFar) \cup M
             /\ IsBMatching(ToSet(c), AskedE, AskedCap)
             /\ \A x \in Node : /\ Degree(ToSet(c), x) = Degree(ToSet(SoFar), x) + Degree(M, x)
                                /\ Degree(ToSet(SoFar), x) \in Nat /\ Degree(M, x) \in Nat
             /\ \A e \in Usable(asked_ijw, asked_ub) : AskedW(e) > 0
             /\ BestWeight(AskedE, AskedWgt, AskedCap) <= 2 * ListWeight(c, AskedWgt)
  <1> DEFINE s == SoFar
             t == bmatch_edge_vec
             G == Usable(r_ijw, r_ub)
  <1>1. /\ LevelTypes /\ FramesKnown /\ ChosenKnown /\ GivenRest /\ GreedyGiven
        /\ result = NoResult
    BY DEF RecursionInv
  <1>2. result.edges = <<>> /\ result.success = 0
    BY <1>1 DEF NoResult
  <1>3. /\ ChosenEdges = s
        /\ s \in Seq(Edge) /\ NoDuplicate(s)
        /\ ToSet(s) \in SUBSET AskedE
        /\ Weighed(s, AskedWgt)
    BY <1>1, <1>2, ChosenSoFar
  <1>4. /\ G \subseteq AskedE
        /\ t \in Seq(Edge) /\ NoDuplicate(t)
        /\ ToSet(t) \subseteq G
        /\ \A x \in Node : Degree(ToSet(t), x) <= in_ub[x]
        /\ Weighed(t, AskedWgt)
        /\ bmatch_wgt = ListWeight(t, AskedWgt) /\ bmatch_wgt \in Nat
    BY LevelAnswer
  <1>5. G \cap ToSet(s) = {} /\ (frames # <<>> => \A e \in G : AskedW(e) > 0)
    BY <1>1, <1>2, LevelEdges
  <1>6. /\ AskedE \in SUBSET Edge
        /\ \A x \in Node : AskedCap[x] = asked_ub[x] /\ asked_ub[x] \in Nat
        /\ AskedCap \in [Node -> Nat]
        /\ \A e \in AskedE : AskedWgt[e] \in Nat /\ AskedW(e) > 0
    BY <1>1, AskedProblem
  <1>7. \A x \in Node :
          /\ r_ub[x] \in Nat /\ in_ub[x] \in Nat /\ Degree(G, x) \in Nat
          /\ in_ub[x] = IF r_ub[x] <= Degree(G, x) THEN r_ub[x] ELSE Degree(G, x)
    BY <1>1, GivenBoundsAre
  <1>8. \A x \in Node : r_ub[x] <= asked_ub[x] - Degree(ToSet(s), x)
    BY <1>1 DEF GivenRest
  <1> DEFINE c == s \o t
  <1> HIDE DEF s, t, G
  <1>9. ToSet(s) \cap ToSet(t) = {} /\ ToSet(s) \in SUBSET Edge /\ ToSet(t) \in SUBSET Edge
    BY <1>3, <1>4, <1>5, <1>6
  <1>10. c \in Seq(Edge) /\ NoDuplicate(c) /\ ToSet(c) = ToSet(s) \cup ToSet(t)
    <2>1. c \in Seq(Edge)
      BY <1>3, <1>4, ConcatProperties
    <2>2. QED
      BY <1>3, <1>4, <1>9, <2>1, OnceConcat
  <1>11. ASSUME NEW x \in Node
         PROVE  /\ Degree(ToSet(c), x) = Degree(ToSet(s), x) + Degree(ToSet(t), x)
                /\ Degree(ToSet(s), x) \in Nat /\ Degree(ToSet(t), x) \in Nat
                /\ Degree(ToSet(c), x) <= AskedCap[x]
    <2>1. Degree(ToSet(c), x) = Degree(ToSet(s), x) + Degree(ToSet(t), x)
      BY <1>9, <1>10, DegreeUnion
    <2>2. Degree(ToSet(s), x) \in Nat /\ Degree(ToSet(t), x) \in Nat
      BY <1>9, DegreeFacts
    <2>3. /\ Degree(ToSet(t), x) <= in_ub[x]
          /\ r_ub[x] \in Nat /\ in_ub[x] \in Nat /\ Degree(G, x) \in Nat
          /\ in_ub[x] = IF r_ub[x] <= Degree(G, x) THEN r_ub[x] ELSE Degree(G, x)
          /\ r_ub[x] <= asked_ub[x] - Degree(ToSet(s), x)
          /\ AskedCap[x] = asked_ub[x] /\ asked_ub[x] \in Nat
      BY <1>4, <1>6, <1>7, <1>8
    <2>4. Degree(ToSet(t), x) <= asked_ub[x] - Degree(ToSet(s), x)
      BY <2>2, <2>3
    <2>5. Degree(ToSet(s), x) + Degree(ToSet(t), x) <= asked_ub[x]
      BY <2>2, <2>3, <2>4
    <2>6. QED
      BY <2>1, <2>2, <2>3, <2>5
  <1>12. IsBMatching(ToSet(c), AskedE, AskedCap)
    <2>1. ToSet(c) \subseteq AskedE
      BY <1>3, <1>4, <1>10
    <2>2. QED
      BY <1>11, <2>1 DEF IsBMatching
  <1>13. /\ ListWeight(c, AskedWgt) = ListWeight(s, AskedWgt) + bmatch_wgt
         /\ ListWeight(s, AskedWgt) \in Nat
    BY <1>3, <1>4, ListWeightConcat, WeighedList
  <1>14. /\ \A e \in Usable(asked_ijw, asked_ub) : AskedW(e) > 0
         /\ BestWeight(AskedE, AskedWgt, AskedCap) <= 2 * ListWeight(c, AskedWgt)
    <2> DEFINE best == BestWeight(AskedE, AskedWgt, AskedCap)
    <2>1. best \in Nat
      BY <1>6, BestIsBest
    <2>2. CASE frames = <<>>
      <3>1. best <= 2 * bmatch_wgt
        BY <2>2, FirstIsHalf
      <3>2. r_ijw = asked_ijw /\ r_ub = asked_ub
        BY <1>1, <2>2 DEF GivenRest
      <3>3. \A e \in Usable(asked_ijw, asked_ub) : AskedW(e) > 0
        BY <1>4, <1>6, <3>2 DEF G
      <3> HIDE DEF best
      <3>4. best <= 2 * ListWeight(c, AskedWgt)
        BY <1>4, <1>13, <2>1, <3>1
      <3>5. QED
        BY <3>3, <3>4 DEF best
    <2>3. CASE frames # <<>>
      <3>1. /\ \A e \in Usable(asked_ijw, asked_ub) : AskedW(e) > 0
            /\ best <= 2 * ListWeight(s, AskedWgt)
        BY <1>1, <1>3, <2>3 DEF ChosenKnown, Succeeding
      <3> HIDE DEF best
      <3>2. best <= 2 * ListWeight(c, AskedWgt)
        BY <1>4, <1>13, <2>1, <3>1
      <3>3. QED
        BY <3>1, <3>2 DEF best
    <2>4. QED
      BY <2>2, <2>3
  <1>15. QED
    BY <1>10, <1>11, <1>12, <1>14 DEF s, t

\* An edge that a level is not given, or may not use, is at a node whose bound
\* is used up.
LEMMA OutOfReach ==
  ASSUME DegUnit = 1, LevelTypes, FramesKnown, ChosenKnown, GivenRest, result.edges = <<>>,
         NEW e \in AskedE, e \notin ToSet(SoFar), e \notin Usable(r_ijw, r_ub)
  PROVE  \E x \in Node : IncidentTo(e, x) /\ asked_ub[x] = Degree(ToSet(SoFar), x)
                         /\ r_ub[x] = 0
  <1> DEFINE D(x) == Degree(ToSet(SoFar), x)
  <1>1. AskedE \in SUBSET Edge /\ ToSet(SoFar) \in SUBSET Edge
    BY AskedProblem, ChosenSoFar
  <1>2. \A x \in Node : r_ub[x] \in Nat /\ asked_ub[x] \in Nat
    BY DEF LevelTypes
  <1>3. \A x \in Node : D(x) \in Nat
    BY <1>1, DegreeFacts
  <1>4. \A x \in Node : r_ub[x] <= asked_ub[x] - D(x) /\ (r_ub[x] = asked_ub[x] - D(x) \/ r_ub[x] >= Degree(Rest, x))
    BY DEF GivenRest
  <1>5. Rest \in SUBSET Edge
    BY DEF Rest
  <1>6. CASE e \in Rest
    <2>1. PICK x \in Node : IncidentTo(e, x) /\ r_ub[x] = 0
      BY <1>6, LevelEdges
    <2>2. Degree(Rest, x) \in Nat /\ Degree(Rest, x) # 0
      BY <1>5, <1>6, <2>1, DegreeFacts
    <2> HIDE DEF D
    <2>3. asked_ub[x] = D(x)
      BY <1>2, <1>3, <1>4, <2>1, <2>2
    <2>4. QED
      BY <2>1, <2>3 DEF D
  <1>7. CASE e \notin Rest
    <2>1. PICK x \in Node : IncidentTo(e, x) /\ asked_ub[x] = D(x)
      BY <1>7 DEF GivenRest
    <2> HIDE DEF D
    <2>2. r_ub[x] = 0
      BY <1>2, <1>3, <1>4, <2>1
    <2>3. QED
      BY <2>1, <2>2 DEF D
  <1>8. QED
    BY <1>6, <1>7
-----------------------------------------------------------------------------
(****************************************************************************)
(* The steps.                                                                *)
(****************************************************************************)
\* The suspended levels and the level that is added to them.
LEMMA SoFarGrows ==
  ASSUME NEW fs \in Seq(Suspended), NEW f \in Suspended
  PROVE  EdgesAbove(Append(fs, f)) = EdgesAbove(fs) \o f.edges
  <1> DEFINE n == Len(fs)
             ss == [k \in DOMAIN fs |-> fs[k].edges]
             ff == Append(fs, f)
             tt == [k \in DOMAIN ff |-> ff[k].edges]
  <1>1. /\ DOMAIN fs = 1 .. n /\ n \in Nat
        /\ \A k \in 1 .. n : fs[k].edges \in Seq(Edge)
    <2>1. /\ DOMAIN fs = 1 .. n /\ n \in Nat
          /\ \A k \in 1 .. n : fs[k] \in Suspended
      BY LenProperties, ElementOfSeq
    <2>2. QED
      BY <2>1 DEF Suspended
  <1>2. /\ DOMAIN ff = 1 .. n + 1 /\ ff[n + 1] = f
        /\ \A k \in 1 .. n : ff[k] = fs[k]
    BY AppendProperties, LenProperties
  <1>3. ss \in Seq(Seq(Edge)) /\ Len(ss) = n
    <2>1. ss = [k \in 1 .. n |-> fs[k].edges]
      BY <1>1
    <2>2. \A k \in 1 .. n : ss[k] \in Seq(Edge)
      BY <1>1
    <2> HIDE DEF ss, n
    <2>3. ss \in Seq(Seq(Edge))
      BY <1>1, <2>1, <2>2, IsASeq
    <2>4. QED
      BY <1>1, <2>1, <2>3, LenProperties
  <1>4. tt = Append(ss, f.edges)
    <2> DEFINE uu == Append(ss, f.edges)
    <2>1. /\ DOMAIN uu = 1 .. n + 1 /\ uu[n + 1] = f.edges
          /\ \A k \in 1 .. n : uu[k] = ss[k]
          /\ uu = [k \in 1 .. n + 1 |-> uu[k]]
      <3> HIDE DEF n, ss
      <3>1. f.edges \in Seq(Edge)
        BY DEF Suspended
      <3>2. QED
        BY <1>3, <3>1, AppendProperties, LenProperties
    <2>2. \A k \in 1 .. n : ss[k] = fs[k].edges
      BY <1>1
    <2>3. tt = [k \in 1 .. n + 1 |-> ff[k].edges]
      BY <1>2
    <2> HIDE DEF uu, tt, ff, ss, n
    <2>4. \A k \in 1 .. n + 1 : k \in 1 .. n \/ k = n + 1
      BY <1>1
    <2>5. \A k \in 1 .. n + 1 : ff[k].edges = uu[k]
      BY <1>2, <2>1, <2>2, <2>4
    <2>6. QED
      BY <2>1, <2>3, <2>5 DEF uu
  <1>5. f.edges \in Seq(Edge)
    BY DEF Suspended
  <1>6. FlattenSeq(Append(ss, f.edges)) = FlattenSeq(ss) \o f.edges
    <2> HIDE DEF ss
    <2>1. QED
      BY <1>3, <1>5, FlattenAppend
  <1>7. QED
    BY <1>4, <1>6 DEF EdgesAbove

\* The level that calls the next one suspends what it has found.
LEMMA DescendFrames ==
  ASSUME DegUnit = 1, RecursionInv, Descend
  PROVE  /\ FramesKnown'
         /\ SoFar' = SoFar \o bmatch_edge_vec
         /\ frames' # <<>>
         /\ success = 1
  <1>1. level = "greedy" /\ stage = "returned" /\ success = 1 /\ frames' = Append(frames, LevelResult)
    BY DEF Descend, AddedEdges
  <1>2. FramesKnown
    BY DEF RecursionInv
  <1>3. /\ bmatch_edge_vec \in Seq(Edge) /\ bmatch_wgt \in Nat
        /\ bmatch_wgt = ListWeight(bmatch_edge_vec, AskedWgt)
    BY <1>1, LevelAnswer
  <1>4. /\ LevelResult \in Suspended /\ LevelResult.edges = bmatch_edge_vec
        /\ LevelResult.wgt = bmatch_wgt
    BY <1>1, <1>3 DEF LevelResult, Suspended
  <1>5. SoFar' = SoFar \o bmatch_edge_vec
    <2>1. SoFar' = EdgesAbove(frames')
      BY DEF SoFar
    <2>2. frames \in Seq(Suspended)
      BY <1>2 DEF FramesKnown
    <2>3. QED
      BY <1>1, <1>4, <2>1, <2>2, SoFarGrows DEF SoFar
  <1>6. frames \in Seq(Suspended)
    BY <1>2 DEF FramesKnown
  <1>7. /\ frames' \in Seq(Suspended) /\ frames' # <<>>
        /\ DOMAIN frames' = 1 .. Len(frames) + 1
        /\ frames'[Len(frames) + 1] = LevelResult
        /\ \A k \in 1 .. Len(frames) : frames'[k] = frames[k]
        /\ DOMAIN frames = 1 .. Len(frames) /\ Len(frames) \in Nat
    BY <1>1, <1>4, <1>6, AppendProperties, LenProperties
  <1>8. AskedWgt' = AskedWgt
    BY DEF Descend, AskedWgt, AskedE, AskedW, asked
  <1>9. \A k \in DOMAIN frames' : frames'[k].wgt = ListWeight(frames'[k].edges, AskedWgt)
    <2> TAKE k \in DOMAIN frames'
    <2>1. k \in 1 .. Len(frames) \/ k = Len(frames) + 1
      BY <1>7
    <2>2. CASE k \in 1 .. Len(frames)
      BY <1>2, <1>7, <2>2 DEF FramesKnown
    <2>3. CASE k = Len(frames) + 1
      BY <1>3, <1>4, <1>7, <2>3
    <2>4. QED
      BY <2>1, <2>2, <2>3
  <1>10. FramesKnown'
    BY <1>7, <1>8, <1>9 DEF FramesKnown
  <1>11. QED
    BY <1>1, <1>5, <1>7, <1>10

\* What was asked does not change.
LEMMA AskedStays ==
  ASSUME UNCHANGED asked
  PROVE  /\ AskedE' = AskedE /\ AskedWgt' = AskedWgt /\ AskedCap' = AskedCap
         /\ Usable(asked_ijw, asked_ub)' = Usable(asked_ijw, asked_ub)
         /\ asked_ijw' = asked_ijw /\ asked_lb' = asked_lb /\ asked_ub' = asked_ub
         /\ \A e : AskedW(e)' = AskedW(e)
  BY DEF asked, AskedE, AskedWgt, AskedCap, AskedW

\* The next level is given what the level has left.
LEMMA DescendGives ==
  ASSUME DegUnit = 1, RecursionInv, Descend
  PROVE  LET G == Usable(r_ijw, r_ub)
             M == ToSet(bmatch_edge_vec)
         IN  /\ r_ijw' \in Seq(Entry) /\ r_lb' \in [Node -> Int] /\ r_ub' \in [Node -> Nat]
             /\ Rest' = G \ M
             /\ \A e \in Rest' : Total(r_ijw', e) = Total(r_ijw, e)
             /\ ~ HasNegativeWeight(r_ijw')
             /\ \A x \in Node : /\ r_ub'[x] = in_ub[x] - Degree(M, x)
                                /\ r_lb'[x] <= r_ub'[x]
  <1> DEFINE G == Usable(r_ijw, r_ub)
             M == ToSet(bmatch_edge_vec)
             R == [e \in G \ M |-> Total(r_ijw, e)]
  <1>1. level = "greedy" /\ stage = "returned" /\ success = 1
    BY DEF Descend, AddedEdges
  <1>2. /\ LevelTypes /\ FramesKnown /\ ChosenKnown /\ GivenRest /\ GreedyGiven
        /\ result = NoResult
        /\ AAmat = WithoutZeroBound(ijw_2_svecvec_symm(r_ijw), r_ub)
    BY <1>1 DEF RecursionInv
  <1>3. result.edges = <<>>
    BY <1>2 DEF NoResult
  <1>4. /\ G \in SUBSET Edge
        /\ \A e \in G : Total(r_ijw, e) = AskedW(e)
    BY <1>2, <1>3, LevelEdges
  <1>5. /\ G \subseteq AskedE /\ M \subseteq G
        /\ bmatch_edge_vec \in Seq(Edge) /\ NoDuplicate(bmatch_edge_vec)
        /\ \A x \in Node : Degree(M, x) <= in_ub[x]
        /\ \A x \in Node : in_lb[x] <= in_ub[x]
    BY <1>1, LevelAnswer
  <1>6. r_ijw \in Seq(Entry) /\ r_ub \in [Node -> Nat]
    BY <1>2 DEF LevelTypes
  <1>7. r_ijw' = svecvec_2_ijw(R)
    BY <1>2, <1>6, ResidualIs DEF Descend
  <1>8. /\ G \ M \in SUBSET Edge
        /\ \A e \in G \ M : R[e] = Total(r_ijw, e) /\ R[e] \in Int /\ R[e] > 0
    <2>1. \A e \in AskedE : AskedW(e) > 0
      BY DEF AskedE
    <2>2. \A e \in G : Total(r_ijw, e) \in Int /\ Total(r_ijw, e) > 0
      BY <1>4, <1>5, <1>6, <2>1, TotalFacts
    <2>3. QED
      BY <1>4, <2>2
  <1>9. R \in [G \ M -> Int] /\ (\A e \in G \ M : R[e] # 0 /\ ~ (R[e] < 0))
    BY <1>8
  <1> HIDE DEF R, G, M
  <1>10. /\ r_ijw' \in Seq(Entry)
         /\ \A e \in Edge : Total(r_ijw', e) = IF e \in G \ M THEN R[e] ELSE 0
         /\ ~ HasNegativeWeight(r_ijw')
    BY <1>7, <1>8, <1>9, ListOfGraph
  <1>11. Rest' = {e \in Edge : Total(r_ijw', e) # 0}
    BY DEF Rest
  <1>12. Rest' = G \ M /\ \A e \in Rest' : Total(r_ijw', e) = Total(r_ijw, e)
    BY <1>8, <1>9, <1>10, <1>11
  <1>13. r_lb' = LessDegree(in_lb) /\ r_ub' = LessDegree(in_ub)
    BY DEF Descend
  <1>14. ASSUME NEW x \in Node
         PROVE  /\ r_ub'[x] = in_ub[x] - Degree(M, x) /\ r_ub'[x] \in Nat
                /\ r_lb'[x] = in_lb[x] - Degree(M, x) /\ r_lb'[x] \in Int
                /\ r_lb'[x] <= r_ub'[x]
    <2>1. Degree(M, x) = ListDegree(bmatch_edge_vec, x) /\ Degree(M, x) \in Nat
      <3>1. M \in SUBSET Edge
        BY <1>4, <1>5
      <3>2. QED
        BY <1>5, <3>1, OnceDegree, DegreeFacts DEF M
    <2>2. in_ub[x] \in Nat /\ in_lb[x] \in Nat /\ in_lb[x] <= in_ub[x] /\ Degree(M, x) <= in_ub[x]
      BY <1>2, <1>5, GivenBoundsAre
    <2>3. DegUnit * Degree(M, x) = Degree(M, x)
      BY <2>1
    <2>4. /\ r_ub'[x] = in_ub[x] - DegUnit * ListDegree(bmatch_edge_vec, x)
          /\ r_lb'[x] = in_lb[x] - DegUnit * ListDegree(bmatch_edge_vec, x)
      BY <1>13 DEF LessDegree
    <2>5. r_ub'[x] = in_ub[x] - Degree(M, x) /\ r_lb'[x] = in_lb[x] - Degree(M, x)
      BY <2>1, <2>3, <2>4
    <2>6. QED
      BY <2>1, <2>2, <2>5
  <1>15. r_ub' \in [Node -> Nat] /\ r_lb' \in [Node -> Int]
    <2>1. r_ub' = [x \in Node |-> r_ub'[x]] /\ r_lb' = [x \in Node |-> r_lb'[x]]
      BY <1>13 DEF LessDegree
    <2>2. QED
      BY <1>14, <2>1
  <1>16. QED
    BY <1>10, <1>12, <1>14, <1>15 DEF G, M

\* The recursion goes on with edges nobody has taken and capacity nobody has
\* used, and gives up only what is of no use.
LEMMA DescendStep ==
  ASSUME DegUnit = 1, RecursionInv, Descend
  PROVE  RecursionInv'
  <1> DEFINE G == Usable(r_ijw, r_ub)
             M == ToSet(bmatch_edge_vec)
             c == SoFar \o bmatch_edge_vec
  <1>1. level = "greedy" /\ stage = "returned" /\ success = 1 /\ level' = "enter"
    BY DEF Descend, AddedEdges
  <1>2. /\ LevelTypes /\ FramesKnown /\ ChosenKnown /\ GivenRest /\ GreedyGiven
        /\ result = NoResult
    BY <1>1 DEF RecursionInv
  <1>3. result.edges = <<>> /\ result.success = 0 /\ result' = result
    BY <1>2 DEF NoResult, Descend
  <1>4. FramesKnown' /\ SoFar' = c /\ frames' # <<>>
    BY DescendFrames
  <1>5. /\ AskedE' = AskedE /\ AskedWgt' = AskedWgt /\ AskedCap' = AskedCap
        /\ Usable(asked_ijw, asked_ub)' = Usable(asked_ijw, asked_ub)
        /\ asked_ijw' = asked_ijw /\ asked_lb' = asked_lb /\ asked_ub' = asked_ub
        /\ \A e : AskedW(e)' = AskedW(e)
    BY AskedStays DEF Descend
  <1>6. /\ c \in Seq(Edge) /\ NoDuplicate(c)
        /\ ToSet(c) = ToSet(SoFar) \cup M
        /\ IsBMatching(ToSet(c), AskedE, AskedCap)
        /\ \A x \in Node : /\ Degree(ToSet(c), x) = Degree(ToSet(SoFar), x) + Degree(M, x)
                           /\ Degree(ToSet(SoFar), x) \in Nat /\ Degree(M, x) \in Nat
        /\ \A e \in Usable(asked_ijw, asked_ub) : AskedW(e) > 0
        /\ BestWeight(AskedE, AskedWgt, AskedCap) <= 2 * ListWeight(c, AskedWgt)
    BY <1>1, LevelAdds
  <1>7. ChosenEdges' = c
    <2>1. ChosenEdges' = SoFar' \o result'.edges
      BY DEF ChosenEdges, SoFar, EdgesAbove
    <2>2. QED
      BY <1>3, <1>4, <1>6, <2>1, ConcatEmptySeq
  <1>8. ChosenKnown'
    BY <1>5, <1>6, <1>7 DEF ChosenKnown
  <1>9. /\ r_ijw' \in Seq(Entry) /\ r_lb' \in [Node -> Int] /\ r_ub' \in [Node -> Nat]
        /\ Rest' = G \ M
        /\ \A e \in Rest' : Total(r_ijw', e) = Total(r_ijw, e)
        /\ ~ HasNegativeWeight(r_ijw')
        /\ \A x \in Node : /\ r_ub'[x] = in_ub[x] - Degree(M, x)
                           /\ r_lb'[x] <= r_ub'[x]
    BY DescendGives
  <1>10. LevelTypes'
    BY <1>1, <1>2, <1>5, <1>9 DEF LevelTypes, Descend, svars, outputs
  <1>11. /\ G \in SUBSET Edge /\ G \subseteq Rest /\ G \cap ToSet(SoFar) = {}
         /\ \A e \in G : Total(r_ijw, e) = AskedW(e)
    BY <1>2, <1>3, LevelEdges
  <1>12. M \subseteq G /\ \A x \in Node : Degree(M, x) <= in_ub[x]
    BY <1>1, LevelAnswer
  <1>13. \A x \in Node :
           /\ Degree(G, x) \in Nat /\ r_ub[x] \in Nat /\ in_ub[x] \in Nat
           /\ in_ub[x] = IF r_ub[x] <= Degree(G, x) THEN r_ub[x] ELSE Degree(G, x)
    BY <1>2, GivenBoundsAre
  <1> HIDE DEF G, M, c
  <1>14. \A e \in Rest' : Total(r_ijw', e) = AskedW(e) /\ e \notin ToSet(c)
    BY <1>6, <1>9, <1>11
  <1>15. ASSUME NEW x \in Node
         PROVE  /\ r_ub'[x] <= asked_ub[x] - Degree(ToSet(c), x)
                /\ \/ r_ub'[x] = asked_ub[x] - Degree(ToSet(c), x)
                   \/ r_ub'[x] >= Degree(Rest', x)
    <2>1. /\ Degree(G, x) = Degree(G \ M, x) + Degree(M, x)
          /\ Degree(G \ M, x) \in Nat
      <3>1. G \ M \in SUBSET Edge /\ M \in SUBSET Edge /\ (G \ M) \cap M = {} /\ (G \ M) \cup M = G
        BY <1>11, <1>12
      <3> DEFINE H == G \ M
      <3> HIDE DEF H
      <3>2. H \in SUBSET Edge /\ M \in SUBSET Edge /\ H \cap M = {} /\ H \cup M = G
        BY <3>1 DEF H
      <3>3. Degree(H \cup M, x) = Degree(H, x) + Degree(M, x) /\ Degree(H, x) \in Nat
        BY <3>2, DegreeUnion, DegreeFacts
      <3>4. QED
        BY <3>2, <3>3 DEF H
    <2>2. Degree(Rest, x) >= Degree(G, x) /\ Degree(Rest, x) \in Nat
      <3>1. Rest \in SUBSET Edge
        BY DEF Rest
      <3>2. QED
        BY <1>11, <1>13, <3>1, DegreeFacts
    <2>3. /\ r_ub[x] <= asked_ub[x] - Degree(ToSet(SoFar), x)
          /\ \/ r_ub[x] = asked_ub[x] - Degree(ToSet(SoFar), x)
             \/ r_ub[x] >= Degree(Rest, x)
      BY <1>2 DEF GivenRest
    <2> DEFINE d == Degree(ToSet(SoFar), x)
               m == Degree(M, x)
               g == Degree(G, x)
               a == asked_ub[x]
    <2>4. d \in Nat /\ m \in Nat /\ g \in Nat /\ a \in Nat /\ Degree(ToSet(c), x) = d + m
      BY <1>2, <1>6, <1>13 DEF LevelTypes
    <2>5. /\ r_ub[x] \in Nat /\ in_ub[x] \in Nat
          /\ in_ub[x] = IF r_ub[x] <= g THEN r_ub[x] ELSE g
          /\ r_ub'[x] = in_ub[x] - m
      BY <1>9, <1>13
    <2>6. /\ r_ub[x] <= a - d
          /\ r_ub[x] = a - d \/ r_ub[x] >= g
      BY <2>2, <2>3, <2>4, <2>5
    <2>7. Degree(Rest', x) = g - m
      BY <1>9, <2>1, <2>4
    <2> HIDE DEF d, m, g, a
    <2>8. /\ r_ub'[x] <= a - (d + m)
          /\ r_ub'[x] = a - (d + m) \/ r_ub'[x] >= g - m
      BY <2>4, <2>5, <2>6
    <2>9. QED
      BY <2>4, <2>7, <2>8 DEF a
  <1>16. ASSUME NEW e \in AskedE, e \notin ToSet(c)
         PROVE  \/ e \in Rest'
                \/ \E x \in Node : IncidentTo(e, x) /\ asked_ub[x] = Degree(ToSet(c), x)
    <2>1. e \notin ToSet(SoFar) /\ e \notin M
      BY <1>6, <1>16
    <2>2. CASE e \in G
      BY <1>9, <2>1, <2>2
    <2>3. CASE e \notin G
      <3>1. PICK x \in Node : IncidentTo(e, x) /\ asked_ub[x] = Degree(ToSet(SoFar), x) /\ r_ub[x] = 0
        BY <1>2, <1>3, <2>1, <2>3, OutOfReach DEF G
      <3>2. in_ub[x] = 0
        BY <1>13, <3>1
      <3>3. Degree(M, x) = 0
        BY <1>6, <1>12, <3>2
      <3>4. asked_ub[x] = Degree(ToSet(c), x)
        <4>1. /\ Degree(ToSet(c), x) = Degree(ToSet(SoFar), x) + 0
              /\ Degree(ToSet(SoFar), x) \in Nat
          BY <1>6, <3>3
        <4> DEFINE d == Degree(ToSet(SoFar), x)
        <4>2. d + 0 = d
          <5>1. d \in Nat
            BY <4>1
          <5> HIDE DEF d
          <5>2. QED
            BY <5>1
        <4>3. QED
          BY <3>1, <4>1, <4>2
      <3>5. QED
        BY <3>1, <3>4
    <2>4. QED
      BY <2>2, <2>3
  <1>17. GivenRest'
    BY <1>4, <1>5, <1>9, <1>14, <1>15, <1>16 DEF GivenRest
  <1>18. QED
    BY <1>1, <1>2, <1>3, <1>4, <1>8, <1>10, <1>17 DEF RecursionInv, NoResult

\* Only the outermost level can have been rejected: the edges and the bounds a
\* level hands down give the next one no reason to.
LEMMA RejectedOutermost ==
  ASSUME DegUnit = 1, RecursionInv, level = "greedy", stage = "returned", success = 0
  PROVE  /\ bmatch_edge_vec = <<>> /\ bmatch_wgt = Unset /\ frames = <<>>
         /\ HasNegativeWeight(asked_ijw) \/ Crossed(asked_lb, asked_ub)
  <1>1. /\ LevelTypes /\ FramesKnown /\ ChosenKnown /\ GivenRest /\ GreedyGiven /\ CallInv
        /\ result = NoResult
    BY DEF RecursionInv
  <1>2. Rejection
    BY <1>1, AnswerShape
  <1> DEFINE G == Usable(r_ijw, r_ub)
  <1>3. /\ bmatch_edge_vec = <<>> /\ bmatch_wgt = Unset
        /\ HasNegativeWeight(in_ijw) \/ Crossed(in_lb, in_ub)
    BY <1>2 DEF Rejection
  <1>4. result.edges = <<>>
    BY <1>1 DEF NoResult
  <1>5. /\ G \in SUBSET Edge /\ \A e \in G : Total(r_ijw, e) = AskedW(e)
        /\ frames # <<>> => \A e \in G : AskedW(e) > 0
    BY <1>1, <1>4, LevelEdges
  <1>6. r_ijw \in Seq(Entry) /\ r_lb \in [Node -> Int] /\ r_ub \in [Node -> Int]
    BY <1>1 DEF LevelTypes
  <1>7. HasNegativeWeight(in_ijw) => frames = <<>> /\ HasNegativeWeight(r_ijw)
    <2> SUFFICES ASSUME HasNegativeWeight(in_ijw)
                 PROVE  frames = <<>> /\ HasNegativeWeight(r_ijw)
      OBVIOUS
    <2>1. PICK e \in G : Total(r_ijw, e) < 0
      BY <1>1 DEF GreedyGiven
    <2>2. Total(r_ijw, e) \in Int
      BY <1>6, TotalFacts
    <2>3. frames = <<>>
      BY <1>5, <2>1, <2>2
    <2>4. HasNegativeWeight(r_ijw)
      <3>1. Total(r_ijw, e) \notin Nat
        BY <2>1, <2>2
      <3>2. QED
        BY <1>6, <3>1, TotalFacts
    <2>5. QED
      BY <2>3, <2>4
  <1>8. Crossed(in_lb, in_ub) => frames = <<>> /\ Crossed(r_lb, r_ub)
    <2> SUFFICES ASSUME Crossed(in_lb, in_ub)
                 PROVE  frames = <<>> /\ Crossed(r_lb, r_ub)
      OBVIOUS
    <2>1. \E x \in Node : Clamp(r_lb, G)[x] > Clamp(r_ub, G)[x]
      BY <1>1 DEF GreedyGiven, Crossed
    <2>2. Crossed(r_lb, r_ub)
      BY <1>5, <1>6, <2>1, CrossedBefore
    <2>3. PICK x \in Node : r_lb[x] > r_ub[x]
      BY <2>2 DEF Crossed
    <2>4. r_lb[x] \in Int /\ r_ub[x] \in Int
      BY <1>6
    <2>5. frames = <<>>
      BY <1>1, <2>3, <2>4 DEF GivenRest
    <2>6. QED
      BY <2>2, <2>5
  <1>9. frames = <<>> => r_ijw = asked_ijw /\ r_lb = asked_lb /\ r_ub = asked_ub
    BY <1>1 DEF GivenRest
  <1>10. QED
    BY <1>3, <1>7, <1>8, <1>9

\* A level that adds nothing returns what the greedy solver returned; only the
\* outermost one can have been rejected.
LEMMA BottomResult ==
  ASSUME DegUnit = 1, RecursionInv, Bottom
  PROVE  \/ /\ success = 1 /\ bmatch_edge_vec = <<>> /\ bmatch_wgt = 0
            /\ ListWeight(<<>>, AskedWgt) = 0
         \/ /\ success = 0 /\ bmatch_edge_vec = <<>> /\ bmatch_wgt = Unset /\ frames = <<>>
            /\ HasNegativeWeight(asked_ijw) \/ Crossed(asked_lb, asked_ub)
  <1>1. level = "greedy" /\ stage = "returned" /\ ~ AddedEdges
    BY DEF Bottom
  <1>2. /\ LevelTypes /\ FramesKnown /\ ChosenKnown /\ GivenRest /\ GreedyGiven /\ CallInv
        /\ result = NoResult
    BY <1>1 DEF RecursionInv
  <1>3. success \in {0, 1} /\ (success = 0 => Rejection)
    BY <1>1, <1>2, AnswerShape
  <1>4. CASE success = 1
    <2>1. bmatch_edge_vec \in Seq(Edge) /\ bmatch_wgt = ListWeight(bmatch_edge_vec, AskedWgt)
      BY <1>1, <1>4, LevelAnswer
    <2>2. ~ (Len(bmatch_edge_vec) > 0)
      BY <1>1, <1>4 DEF AddedEdges
    <2>3. bmatch_edge_vec = <<>>
      BY <2>1, <2>2, EmptySeq, LenProperties
    <2>4. QED
      BY <1>4, <2>1, <2>3, ListWeightEmpty
  <1>5. CASE success = 0
    BY <1>1, <1>5, RejectedOutermost
  <1>6. QED
    BY <1>3, <1>4, <1>5

\* When the greedy solver finds nothing, no edge that was asked fits any more.
LEMMA NothingFits ==
  ASSUME DegUnit = 1, RecursionInv, level = "greedy", stage = "returned", success = 1,
         bmatch_wgt = 0
  PROVE  IsMaximal(ToSet(SoFar), AskedE, AskedCap)
  <1> DEFINE G == Usable(r_ijw, r_ub)
             w == UsableGraph(r_ijw, r_ub)
             B == ToSet(SoFar)
  <1>1. /\ LevelTypes /\ FramesKnown /\ ChosenKnown /\ GivenRest /\ GreedyGiven
        /\ result = NoResult
    BY DEF RecursionInv
  <1>2. result.edges = <<>>
    BY <1>1 DEF NoResult
  <1>3. /\ AskedE \in SUBSET Edge
        /\ \A x \in Node : AskedCap[x] = asked_ub[x] /\ asked_ub[x] \in Nat
    BY <1>1, AskedProblem
  <1>4. B \in SUBSET Edge
    BY <1>1, <1>2, <1>3, ChosenSoFar
  <1> SUFFICES ASSUME NEW e \in AskedE \ B, IsBMatching(B \cup {e}, AskedE, AskedCap)
               PROVE  FALSE
    BY DEF IsMaximal
  <1>5. ASSUME NEW x \in Node
        PROVE  /\ Degree(B, x) \in Nat /\ Degree({e}, x) \in Nat
               /\ Degree(B, x) + Degree({e}, x) <= asked_ub[x]
               /\ IncidentTo(e, x) => Degree({e}, x) # 0
    <2>1. {e} \in SUBSET Edge /\ B \cap {e} = {}
      BY <1>3
    <2>2. Degree(B \cup {e}, x) = Degree(B, x) + Degree({e}, x)
      <3> DEFINE F == {e}
      <3> HIDE DEF F, B
      <3>1. F \in SUBSET Edge /\ B \cap F = {}
        BY <2>1 DEF F
      <3>2. Degree(B \cup F, x) = Degree(B, x) + Degree(F, x)
        BY <1>4, <3>1, DegreeUnion
      <3>3. QED
        BY <3>2 DEF F
    <2>3. Degree(B, x) \in Nat /\ Degree({e}, x) \in Nat
      BY <1>4, <2>1, DegreeFacts
    <2>4. Degree(B \cup {e}, x) <= asked_ub[x]
      BY <1>3 DEF IsBMatching
    <2>5. IncidentTo(e, x) => Degree({e}, x) # 0
      BY <2>1, DegreeFacts
    <2>6. QED
      BY <2>2, <2>3, <2>4, <2>5
  <1>6. CASE e \notin G
    <2>1. PICK x \in Node : IncidentTo(e, x) /\ asked_ub[x] = Degree(B, x)
      BY <1>1, <1>2, <1>6, OutOfReach
    <2>2. QED
      BY <1>5, <2>1
  <1>7. CASE e \in G
    <2>1. /\ G \in SUBSET Edge /\ G \subseteq Rest
          /\ \A f \in G : Total(r_ijw, f) = AskedW(f)
      BY <1>1, <1>2, LevelEdges
    <2>2. G \subseteq AskedE /\ BestWeight(G, w, in_ub) <= 2 * bmatch_wgt
      BY LevelAnswer
    <2>3. /\ in_ub \in [Node -> Nat]
          /\ \A x \in Node :
               /\ Degree(G, x) \in Nat /\ r_ub[x] \in Nat /\ in_ub[x] \in Nat
               /\ in_ub[x] = IF r_ub[x] <= Degree(G, x) THEN r_ub[x] ELSE Degree(G, x)
      BY <1>1, GivenBoundsAre
    <2>4. \A f \in G : w[f] \in Nat /\ w[f] > 0
      <3> TAKE f \in G
      <3>1. w[f] = AskedW(f) /\ f \in AskedE /\ f \in Edge
        BY <2>1, <2>2 DEF UsableGraph
      <3>2. AskedW(f) > 0 /\ AskedW(f) \in Int
        BY <1>1, <3>1, AskedProblem
      <3>3. QED
        BY <3>1, <3>2
    <2>5. ASSUME NEW x \in Node
          PROVE  Degree({e}, x) <= in_ub[x]
      <3>1. Degree({e}, x) <= Degree(G, x) /\ Degree({e}, x) <= Degree(Rest, x) /\ Degree(Rest, x) \in Nat
        <4>1. Rest \in SUBSET Edge /\ {e} \in SUBSET G /\ {e} \in SUBSET Rest
          BY <1>7, <2>1 DEF Rest
        <4>2. QED
          BY <2>1, <4>1, DegreeFacts
      <3>2. r_ub[x] = asked_ub[x] - Degree(B, x) \/ r_ub[x] >= Degree(Rest, x)
        BY <1>1 DEF GivenRest
      <3>3. /\ Degree(B, x) \in Nat /\ Degree({e}, x) \in Nat /\ asked_ub[x] \in Nat
            /\ Degree(B, x) + Degree({e}, x) <= asked_ub[x]
        BY <1>3, <1>5
      <3>4. /\ Degree(G, x) \in Nat /\ r_ub[x] \in Nat
            /\ in_ub[x] = IF r_ub[x] <= Degree(G, x) THEN r_ub[x] ELSE Degree(G, x)
        BY <2>3
      <3> DEFINE d == Degree(B, x)
                 f == Degree({e}, x)
                 g == Degree(G, x)
                 h == Degree(Rest, x)
                 a == asked_ub[x]
                 r == r_ub[x]
      <3>5. /\ d \in Nat /\ f \in Nat /\ g \in Nat /\ h \in Nat /\ a \in Nat /\ r \in Nat
            /\ f <= g /\ f <= h /\ d + f <= a /\ (r = a - d \/ r >= h)
            /\ in_ub[x] = IF r <= g THEN r ELSE g
        BY <3>1, <3>2, <3>3, <3>4
      <3> HIDE DEF d, f, g, h, a, r
      <3>6. f <= in_ub[x]
        BY <3>5
      <3>7. QED
        BY <3>6 DEF f
    <2> HIDE DEF G, w
    <2>6. IsBMatching({e}, G, in_ub)
      BY <1>7, <2>5 DEF IsBMatching
    <2>7. Weight({e}, w) <= BestWeight(G, w, in_ub) /\ BestWeight(G, w, in_ub) \in Nat
      <3>1. {e} \in SUBSET G
        BY <1>7
      <3>2. QED
        BY <2>1, <2>3, <2>4, <2>6, <3>1, BestIsBest
    <2>8. Weight({e}, w) = w[e]
      <3>1. w[e] \in Int
        BY <1>7, <2>4
      <3>2. QED
        BY <3>1, SumOne, WeightIsSum
    <2>9. w[e] \in Nat /\ w[e] > 0
      BY <1>7, <2>4
    <2>10. BestWeight(G, w, in_ub) <= 0
      BY <2>2
    <2> DEFINE b == BestWeight(G, w, in_ub)
    <2>11. w[e] <= b /\ b \in Nat /\ b <= 0
      BY <2>7, <2>8, <2>10
    <2> HIDE DEF b
    <2>12. QED
      BY <2>9, <2>11
  <1>8. QED
    BY <1>6, <1>7

\* The deepest level returns.
LEMMA BottomStep ==
  ASSUME DegUnit = 1, RecursionInv, Bottom
  PROVE  RecursionInv' /\ ChosenEdges' = ChosenEdges
  <1>1. level = "greedy" /\ stage = "returned" /\ level' = "unwind" /\ frames' = frames
    BY DEF Bottom
  <1>2. /\ LevelTypes /\ FramesKnown /\ ChosenKnown /\ GivenRest /\ GreedyGiven
        /\ result = NoResult
    BY <1>1 DEF RecursionInv
  <1>3. result.edges = <<>> /\ result.success = 0
    BY <1>2 DEF NoResult
  <1>4. /\ ChosenEdges = SoFar /\ SoFar \in Seq(Edge) /\ NoDuplicate(SoFar)
    BY <1>2, <1>3, ChosenSoFar
  <1>5. /\ AskedE' = AskedE /\ AskedWgt' = AskedWgt /\ AskedCap' = AskedCap
        /\ Usable(asked_ijw, asked_ub)' = Usable(asked_ijw, asked_ub)
        /\ asked_ijw' = asked_ijw /\ asked_lb' = asked_lb /\ asked_ub' = asked_ub
        /\ \A e : AskedW(e)' = AskedW(e)
    BY AskedStays DEF Bottom
  <1>6. /\ result'.success = success /\ result'.edges = bmatch_edge_vec /\ result'.wgt = bmatch_wgt
    BY DEF Bottom, LevelResult
  <1>7. bmatch_edge_vec = <<>>
    BY BottomResult
  <1>8. ChosenEdges' = SoFar
    <2>1. ChosenEdges' = SoFar \o <<>>
      BY <1>1, <1>6, <1>7 DEF ChosenEdges, SoFar, EdgesAbove
    <2>2. QED
      BY <1>4, <2>1, ConcatEmptySeq
  <1>9. LevelTypes'
    BY <1>1, <1>2, <1>5 DEF LevelTypes, Bottom, svars, outputs, rargs
  <1>10. FramesKnown'
    BY <1>1, <1>2, <1>5 DEF FramesKnown
  <1>11. result' \in Outcome
    <2>1. result' = [success |-> success, edges |-> <<>>, wgt |-> bmatch_wgt]
      BY <1>7 DEF Bottom, LevelResult
    <2>2. success \in {0, 1} /\ bmatch_wgt \in Nat \cup {Unset} /\ <<>> \in Seq(Edge)
      BY <1>2, BottomResult DEF LevelTypes
    <2>3. QED
      BY <2>1, <2>2 DEF Outcome
  <1>12. CASE success = 1
    <2>1. bmatch_wgt = 0 /\ ListWeight(<<>>, AskedWgt) = 0
      BY <1>12, BottomResult
    <2>2. IsMaximal(ToSet(SoFar), AskedE, AskedCap)
      BY <1>1, <1>12, <2>1, NothingFits
    <2>3. SoFar \o bmatch_edge_vec = SoFar
      BY <1>4, <1>7, ConcatEmptySeq
    <2>4. /\ \A e \in Usable(asked_ijw, asked_ub) : AskedW(e) > 0
          /\ BestWeight(AskedE, AskedWgt, AskedCap) <= 2 * ListWeight(SoFar, AskedWgt)
      BY <1>1, <1>12, <2>3, LevelAdds
    <2>5. ChosenKnown'
      BY <1>2, <1>4, <1>5, <1>8, <2>4 DEF ChosenKnown
    <2>6. <<>> \in Seq(Edge) /\ 0 \in Nat
      OBVIOUS
    <2>7. ResultKnown'
      BY <1>5, <1>6, <1>7, <1>8, <1>12, <1>11, <2>1, <2>2, <2>6 DEF ResultKnown
    <2>8. QED
      BY <1>1, <1>4, <1>8, <1>9, <1>10, <2>5, <2>7 DEF RecursionInv
  <1>13. CASE success = 0
    <2>1. bmatch_wgt = Unset /\ frames = <<>> /\ (HasNegativeWeight(asked_ijw) \/ Crossed(asked_lb, asked_ub))
      BY <1>13, BottomResult
    <2>2. ~ Succeeding'
      BY <1>1, <1>6, <1>13, <2>1 DEF Succeeding
    <2>3. ChosenKnown'
      BY <1>2, <1>4, <1>5, <1>8, <2>2 DEF ChosenKnown
    <2>4. ResultKnown'
      BY <1>1, <1>5, <1>6, <1>7, <1>13, <1>11, <2>1 DEF ResultKnown
    <2>5. QED
      BY <1>1, <1>4, <1>8, <1>9, <1>10, <2>3, <2>4 DEF RecursionInv
  <1>14. success = 1 \/ success = 0
    BY <1>2 DEF LevelTypes
  <1>15. QED
    BY <1>12, <1>13, <1>14

\* A list is its front and its last element.
LEMMA FrontAndLast ==
  ASSUME NEW T, NEW s \in Seq(T), s # <<>>
  PROVE  Front(s) \in Seq(T) /\ Last(s) \in T /\ s = Append(Front(s), Last(s))
  <1> DEFINE n == Len(s)
  <1>1. /\ n \in Nat /\ n # 0 /\ DOMAIN s = 1 .. n
        /\ \A k \in 1 .. n : s[k] \in T
    BY EmptySeq, LenProperties, ElementOfSeq
  <1>2. Front(s) = SubSeq(s, 1, n - 1) /\ Last(s) = s[n]
    BY DEF Front, Last
  <1>3. Last(s) \in T
    BY <1>1, <1>2
  <1> DEFINE f == Front(s)
  <1>4. f = [k \in 1 .. (n - 1) |-> s[k]]
    <2>1. SubSeq(s, 1, n - 1) = [k \in 1 .. ((1 + (n - 1)) - 1) |-> s[(1 + k) - 1]]
      BY <1>1
    <2>2. (1 + (n - 1)) - 1 = n - 1 /\ \A k \in 1 .. (n - 1) : (1 + k) - 1 = k
      BY <1>1
    <2>3. QED
      BY <1>2, <2>1, <2>2
  <1> HIDE DEF f
  <1>5. n - 1 \in Nat /\ \A k \in 1 .. (n - 1) : s[k] \in T
    BY <1>1
  <1>6. f \in Seq(T) /\ Len(f) = n - 1
    <2> DEFINE m == n - 1
    <2> HIDE DEF m
    <2>1. f = [k \in 1 .. m |-> s[k]] /\ m \in Nat /\ \A k \in 1 .. m : s[k] \in T
      BY <1>4, <1>5 DEF m
    <2>2. f \in Seq(T)
      BY <2>1, IsASeq
    <2>3. Len(f) = m
      BY <2>1, <2>2, LenProperties
    <2>4. QED
      BY <2>2, <2>3 DEF m
  <1> DEFINE t == Append(f, s[n])
  <1>7. /\ t \in Seq(T) /\ Len(t) = (n - 1) + 1
        /\ \A k \in 1 .. (n - 1) : t[k] = f[k]
        /\ t[(n - 1) + 1] = s[n]
    <2>1. s[n] \in T
      BY <1>1
    <2> DEFINE v == s[n]
    <2> HIDE DEF v, n
    <2>2. QED
      BY <1>6, <2>1, AppendProperties DEF v
  <1> HIDE DEF t
  <1>8. (n - 1) + 1 = n /\ \A k \in 1 .. n : k = n \/ k \in 1 .. (n - 1)
    <2> HIDE DEF n
    <2> QED
      BY <1>1
  <1>9. \A k \in 1 .. n : t[k] = s[k]
    <2> HIDE DEF n
    <2> QED
      BY <1>4, <1>7, <1>8
  <1>10. t = s
    <2>1. Len(t) = Len(s)
      BY <1>7, <1>8
    <2>2. QED
      BY <1>7, <1>9, <2>1, SeqEqual
  <1>11. QED
    BY <1>2, <1>3, <1>6, <1>10 DEF f, t

\* A level takes over what the levels below it have found.
LEMMA UnwindResult ==
  ASSUME DegUnit = 1, RecursionInv, Unwind
  PROVE  /\ frames' \in Seq(Suspended)
         /\ \A k \in DOMAIN frames' : k \in DOMAIN frames /\ frames'[k] = frames[k]
         /\ ChosenEdges' = ChosenEdges
         /\ result' \in Outcome
         /\ result'.success = 1 /\ result'.edges \in Seq(Edge) /\ result'.wgt \in Nat
         /\ result'.wgt = ListWeight(result'.edges, AskedWgt)
         /\ IsMaximal(ToSet(ChosenEdges), AskedE, AskedCap)
  <1> DEFINE fs == Front(frames)
             f == Last(frames)
             above == EdgesAbove(fs)
             a == f.edges
             b == result.edges
  <1>1. level = "unwind" /\ frames # <<>> /\ frames' = fs /\ result' = Merge(f, result)
    BY DEF Unwind
  <1>2. LevelTypes /\ FramesKnown /\ ChosenKnown /\ ResultKnown
    BY <1>1 DEF RecursionInv
  <1>3. /\ result.success = 1 /\ b \in Seq(Edge) /\ result.wgt \in Nat
        /\ result.wgt = ListWeight(b, AskedWgt)
        /\ IsMaximal(ToSet(ChosenEdges), AskedE, AskedCap)
    BY <1>1, <1>2 DEF ResultKnown
  <1>4. frames \in Seq(Suspended)
    BY <1>2 DEF FramesKnown
  <1>5. fs \in Seq(Suspended) /\ f \in Suspended /\ frames = Append(fs, f)
    BY <1>1, <1>4, FrontAndLast
  <1>6. f.success = 1 /\ a \in Seq(Edge) /\ f.wgt \in Nat
    BY <1>5 DEF Suspended
  <1>7. f.wgt = ListWeight(a, AskedWgt)
    <2>1. Len(frames) \in DOMAIN frames
      BY <1>1, <1>4, EmptySeq, LenProperties
    <2>2. f = frames[Len(frames)]
      BY DEF Last
    <2>3. QED
      BY <1>2, <2>1, <2>2 DEF FramesKnown
  <1> HIDE DEF fs, f
  <1>8. above \in Seq(Edge) /\ EdgesAbove(frames) = above \o a
    BY <1>5, EdgesAboveType, SoFarGrows
  <1>9. /\ result'.success = 1 /\ result'.edges = a \o b /\ result'.wgt = f.wgt + result.wgt
    <2>1. CASE Len(b) > 0
      <3>1. result' = [f EXCEPT !.edges = @ \o b, !.wgt = @ + result.wgt]
        BY <1>1, <1>3, <2>1 DEF Merge
      <3>2. QED
        BY <1>5, <1>6, <3>1 DEF Suspended
    <2>2. CASE ~ (Len(b) > 0)
      <3>1. b = <<>>
        BY <1>3, <2>2, EmptySeq, LenProperties
      <3>2. result' = f
        BY <1>1, <2>2 DEF Merge
      <3>3. result.wgt = 0
        BY <1>3, <3>1, ListWeightEmpty
      <3>4. a \o b = a
        BY <1>6, <3>1, ConcatEmptySeq
      <3>5. f.wgt + 0 = f.wgt
        <4> DEFINE v == f.wgt
        <4>1. v \in Nat
          BY <1>6
        <4> HIDE DEF v
        <4>2. v + 0 = v
          BY <4>1
        <4>3. QED
          BY <4>2 DEF v
      <3>6. QED
        BY <1>6, <3>2, <3>3, <3>4, <3>5
    <2>3. QED
      BY <2>1, <2>2
  <1>10. ChosenEdges = (above \o a) \o b /\ ChosenEdges' = above \o (a \o b)
    <2>1. ChosenEdges = EdgesAbove(frames) \o b
      BY DEF ChosenEdges, EdgesAbove
    <2>2. ChosenEdges' = EdgesAbove(frames') \o result'.edges
      BY DEF ChosenEdges, EdgesAbove
    <2>3. QED
      BY <1>1, <1>8, <1>9, <2>1, <2>2
  <1> HIDE DEF above, a, b
  <1>11. (above \o a) \o b = above \o (a \o b)
    <2>1. above \in Seq(Edge) /\ a \in Seq(Edge) /\ b \in Seq(Edge)
      BY <1>3, <1>6, <1>8
    <2>2. \A x, y, z \in Seq(Edge) : (x \o y) \o z = x \o (y \o z)
      BY ConcatAssociative
    <2>3. QED
      BY <2>1, <2>2
  <1>12. Weighed(a, AskedWgt) /\ Weighed(b, AskedWgt)
    <2>1. above \o a \in Seq(Edge)
      BY <1>6, <1>8, ConcatProperties
    <2>2. ToSet(ChosenEdges) = (ToSet(above) \cup ToSet(a)) \cup ToSet(b)
      BY <1>3, <1>6, <1>8, <1>10, <2>1, OnceConcat
    <2>3. ToSet(ChosenEdges) \subseteq AskedE
      BY <1>2 DEF ChosenKnown, IsBMatching
    <2>4. ToSet(a) \subseteq AskedE /\ ToSet(b) \subseteq AskedE
      BY <2>2, <2>3
    <2>5. (\A k \in DOMAIN a : a[k] \in AskedE) /\ (\A k \in DOMAIN b : b[k] \in AskedE)
      BY <2>4 DEF ToSet
    <2>6. \A e \in AskedE : AskedWgt[e] \in Nat
      BY <1>2, AskedProblem
    <2>7. QED
      BY <1>3, <1>6, <2>5, <2>6 DEF Weighed
  <1>13. ListWeight(a \o b, AskedWgt) = f.wgt + result.wgt
    BY <1>3, <1>7, <1>12, ListWeightConcat DEF a, b
  <1>14. a \o b \in Seq(Edge)
    BY <1>3, <1>6, ConcatProperties
  <1>15. f.wgt + result.wgt \in Nat
    BY <1>13, <1>12, ListWeightConcat, WeighedList
  <1>16. \A k \in DOMAIN fs : k \in DOMAIN frames /\ fs[k] = frames[k]
    BY <1>5, AppendProperties, LenProperties
  <1>17. result' \in Outcome
    <2>1. result' = f \/ result' = [f EXCEPT !.edges = a \o b, !.wgt = f.wgt + result.wgt]
      BY <1>1 DEF Merge, a, b
    <2>2. f = [success |-> 1, edges |-> a, wgt |-> f.wgt]
      BY <1>5 DEF Suspended, a
    <2>3. CASE result' = f
      BY <1>6, <2>2, <2>3 DEF Outcome
    <2>4. CASE result' = [f EXCEPT !.edges = a \o b, !.wgt = f.wgt + result.wgt]
      <3>1. result' = [success |-> 1, edges |-> a \o b, wgt |-> f.wgt + result.wgt]
        <4> DEFINE v == f.wgt
                   y == a \o b
                   z == f.wgt + result.wgt
        <4>1. f = [success |-> 1, edges |-> a, wgt |-> v] /\ result' = [f EXCEPT !.edges = y, !.wgt = z]
          BY <2>2, <2>4
        <4> HIDE DEF v, y, z
        <4>2. result' = [success |-> 1, edges |-> y, wgt |-> z]
          BY <4>1
        <4>3. QED
          BY <4>2 DEF y, z
      <3>2. QED
        BY <1>14, <1>15, <3>1 DEF Outcome
    <2>5. QED
      BY <2>1, <2>3, <2>4
  <1>18. QED
    BY <1>1, <1>3, <1>5, <1>9, <1>10, <1>11, <1>13, <1>14, <1>15, <1>16, <1>17

\* Which keeps all that has been chosen.
LEMMA UnwindStep ==
  ASSUME DegUnit = 1, RecursionInv, Unwind
  PROVE  RecursionInv'
  <1>1. /\ level = "unwind" /\ level' = "unwind" /\ frames # <<>>
        /\ LevelTypes /\ FramesKnown /\ ChosenKnown /\ ResultKnown
    BY DEF RecursionInv, Unwind
  <1>2. /\ frames' \in Seq(Suspended)
        /\ \A k \in DOMAIN frames' : k \in DOMAIN frames /\ frames'[k] = frames[k]
        /\ ChosenEdges' = ChosenEdges
        /\ result' \in Outcome
        /\ result'.success = 1 /\ result'.edges \in Seq(Edge) /\ result'.wgt \in Nat
        /\ result'.wgt = ListWeight(result'.edges, AskedWgt)
        /\ IsMaximal(ToSet(ChosenEdges), AskedE, AskedCap)
    BY UnwindResult
  <1>3. /\ AskedE' = AskedE /\ AskedWgt' = AskedWgt /\ AskedCap' = AskedCap
        /\ Usable(asked_ijw, asked_ub)' = Usable(asked_ijw, asked_ub)
        /\ asked_ijw' = asked_ijw /\ asked_lb' = asked_lb /\ asked_ub' = asked_ub
        /\ \A e : AskedW(e)' = AskedW(e)
    BY AskedStays DEF Unwind
  <1>4. LevelTypes'
    BY <1>1, <1>3 DEF LevelTypes, Unwind, svars, outputs, rargs
  <1>5. FramesKnown'
    BY <1>1, <1>2, <1>3 DEF FramesKnown
  <1>6. ChosenKnown'
    BY <1>1, <1>2, <1>3 DEF ChosenKnown, Succeeding
  <1>7. ResultKnown'
    BY <1>2, <1>3 DEF ResultKnown
  <1>8. QED
    BY <1>1, <1>4, <1>5, <1>6, <1>7 DEF RecursionInv

\* The invariant holds of the outermost call.
LEMMA RecursionStarts ==
  ASSUME IntegralBounds, RInit
  PROVE  RecursionInv
  <1>0. DegUnit = 1
    BY DEF IntegralBounds
  <1>1. /\ r_ijw = asked_ijw /\ r_lb = asked_lb /\ r_ub = asked_ub
        /\ asked_ijw \in Seq(Entry) /\ asked_lb \in [Node -> Int] /\ asked_ub \in [Node -> Nat]
    BY CallAssumption DEF IntegralBounds, RInit, Entry
  <1>2. /\ frames = <<>> /\ level = "enter" /\ stage = "idle" /\ success = 0
        /\ result = NoResult /\ result.edges = <<>> /\ result.success = 0
    BY DEF RInit, NoResult
  <1>3. LevelTypes
    BY <1>1, <1>2 DEF LevelTypes
  <1>4. FramesKnown
    BY <1>2 DEF FramesKnown
  <1>5. SoFar = <<>> /\ ChosenEdges = <<>>
    <2>1. [k \in DOMAIN frames |-> frames[k].edges] = <<>>
      BY <1>2
    <2>2. FlattenSeq(<<>>) = <<>>
      BY DEF FlattenSeq
    <2>3. <<>> \o <<>> = <<>>
      OBVIOUS
    <2>4. QED
      BY <1>2, <2>1, <2>2, <2>3 DEF SoFar, EdgesAbove, ChosenEdges
  <1>6. ToSet(<<>>) = {} /\ NoDuplicate(<<>>) /\ <<>> \in Seq(Edge)
    BY DEF ToSet, NoDuplicate
  <1>7. \A x \in Node : Degree({}, x) = 0 /\ asked_ub[x] \in Nat /\ AskedCap[x] = asked_ub[x]
    BY <1>0, <1>3, DegreeFacts, AskedProblem
  <1>8. ChosenKnown
    <2>1. IsBMatching({}, AskedE, AskedCap)
      BY <1>7 DEF IsBMatching
    <2>2. ~ Succeeding
      BY <1>2 DEF Succeeding
    <2>3. QED
      BY <1>5, <1>6, <2>1, <2>2 DEF ChosenKnown
  <1>9. GivenRest
    <2>1. \A e \in Edge : AskedW(e) = Total(r_ijw, e)
      BY <1>0, <1>1, <1>3, AskedProblem
    <2>2. \A e \in AskedE : e \in Rest
      <3>1. \A e \in AskedE : e \in Edge /\ AskedW(e) > 0 /\ AskedW(e) \in Int
        BY <1>0, <1>3, AskedProblem
      <3>2. QED
        BY <2>1, <3>1 DEF Rest
    <2>3. \A x \in Node : /\ r_ub[x] <= asked_ub[x] - Degree(ToSet(SoFar), x)
                          /\ r_ub[x] = asked_ub[x] - Degree(ToSet(SoFar), x)
      <3> TAKE x \in Node
      <3>1. Degree(ToSet(SoFar), x) = 0 /\ asked_ub[x] \in Nat /\ r_ub[x] = asked_ub[x]
        BY <1>1, <1>5, <1>6, <1>7
      <3>2. QED
        BY <3>1
    <2>4. \A e \in Rest : Total(r_ijw, e) = AskedW(e) /\ e \notin ToSet(SoFar)
      BY <1>5, <1>6, <2>1 DEF Rest
    <2>5. QED
      BY <1>1, <1>2, <2>2, <2>3, <2>4 DEF GivenRest
  <1>10. QED
    BY <1>2, <1>3, <1>4, <1>8, <1>9 DEF RecursionInv

\* What a step that adds no edges and leaves no level keeps.
LEMMA Kept ==
  ASSUME UNCHANGED <<frames, result, asked>>
  PROVE  /\ FramesKnown => FramesKnown'
         /\ ChosenKnown => ChosenKnown'
         /\ ResultKnown => ResultKnown'
         /\ ChosenEdges' = ChosenEdges
         /\ GivenRest /\ UNCHANGED rargs => GivenRest'
  <1>1. /\ AskedE' = AskedE /\ AskedWgt' = AskedWgt /\ AskedCap' = AskedCap
        /\ Usable(asked_ijw, asked_ub)' = Usable(asked_ijw, asked_ub)
        /\ asked_ijw' = asked_ijw /\ asked_lb' = asked_lb /\ asked_ub' = asked_ub
        /\ \A e : AskedW(e)' = AskedW(e)
    BY AskedStays
  <1>2. ChosenEdges' = ChosenEdges /\ SoFar' = SoFar
    BY DEF ChosenEdges, SoFar, EdgesAbove
  <1>3. FramesKnown => FramesKnown'
    BY <1>1 DEF FramesKnown
  <1>4. ChosenKnown => ChosenKnown'
    BY <1>1, <1>2 DEF ChosenKnown, Succeeding
  <1>5. ResultKnown => ResultKnown'
    BY <1>1, <1>2 DEF ResultKnown
  <1>6. ASSUME GivenRest, UNCHANGED rargs
        PROVE  GivenRest'
    <2>1. r_ijw' = r_ijw /\ r_lb' = r_lb /\ r_ub' = r_ub
      BY <1>6 DEF rargs
    <2>2. Rest' = Rest
      BY <2>1 DEF Rest
    <2>3. QED
      BY <1>1, <1>2, <1>6, <2>1, <2>2 DEF GivenRest
  <1>7. QED
    BY <1>2, <1>3, <1>4, <1>5, <1>6

\* A level is entered.
LEMMA EnterStep ==
  ASSUME DegUnit = 1, RecursionInv, Enter
  PROVE  RecursionInv'
  <1>1. /\ level = "enter" /\ level' = "prepared"
        /\ AAmat' = WithoutZeroBound(ijw_2_svecvec_symm(r_ijw), r_ub)
        /\ UNCHANGED <<svars, rargs, frames, result, asked>>
    BY DEF Enter
  <1>2. LevelTypes /\ FramesKnown /\ ChosenKnown /\ GivenRest /\ result = NoResult
    BY <1>1 DEF RecursionInv
  <1>3. FramesKnown' /\ ChosenKnown' /\ GivenRest'
    BY <1>1, <1>2, Kept
  <1>4. LevelTypes'
    BY <1>1, <1>2 DEF LevelTypes, svars, outputs, rargs, asked
  <1>5. r_ijw' = r_ijw /\ r_ub' = r_ub /\ result' = result
    BY <1>1 DEF rargs
  <1>6. QED
    BY <1>1, <1>2, <1>3, <1>4, <1>5 DEF RecursionInv, NoResult

\* The greedy solver is called with the usable part of what the level is given.
LEMMA CallGreedyStep ==
  ASSUME DegUnit = 1, RecursionInv, CallGreedy
  PROVE  RecursionInv'
  <1> DEFINE G == Usable(r_ijw, r_ub)
             w == UsableGraph(r_ijw, r_ub)
  <1>1. /\ level = "prepared" /\ level' = "greedy" /\ stage' = "called"
        /\ bmatch_edge_vec' = <<>> /\ bmatch_wgt' = Unset /\ success' = success
        /\ UNCHANGED <<rargs, AAmat, frames, result, asked>>
    BY DEF CallGreedy
  <1>2. /\ LevelTypes /\ FramesKnown /\ ChosenKnown /\ GivenRest /\ result = NoResult
        /\ AAmat = WithoutZeroBound(ijw_2_svecvec_symm(r_ijw), r_ub)
    BY <1>1 DEF RecursionInv
  <1>3. FramesKnown' /\ ChosenKnown' /\ GivenRest'
    BY <1>1, <1>2, Kept
  <1>4. LevelTypes'
    BY <1>1, <1>2 DEF LevelTypes, rargs, asked
  <1>5. /\ r_ijw' = r_ijw /\ r_lb' = r_lb /\ r_ub' = r_ub /\ AAmat' = AAmat /\ result' = result
        /\ r_ijw \in Seq(Entry) /\ r_ub \in [Node -> Nat] /\ r_ub \in [Node -> Int] /\ r_lb \in [Node -> Int]
    BY <1>1, <1>2 DEF rargs, LevelTypes
  <1>6. UpperEdges(AAmat) = w
    BY <1>2, <1>5, ProblemIsUsable DEF Problem
  <1>7. in_ijw' = svecvec_2_ijw(w) /\ in_lb' = Clamp(r_lb, DOMAIN w) /\ in_ub' = Clamp(r_ub, DOMAIN w)
    BY <1>6 DEF CallGreedy
  <1>8. /\ G \in SUBSET Edge /\ DOMAIN w = G
        /\ \A e \in G : w[e] = Total(r_ijw, e) /\ w[e] # 0 /\ w[e] \in Int
    BY <1>5, UsableFacts, TotalFacts
  <1>9. w \in [G -> Int]
    <2>1. w = [e \in G |-> w[e]]
      BY DEF UsableGraph
    <2> HIDE DEF w, G
    <2>2. QED
      BY <1>8, <2>1
  <1> HIDE DEF w, G
  <1>10. /\ in_ijw' \in Seq(Entry)
         /\ \A e \in Edge : Total(in_ijw', e) = IF e \in G THEN w[e] ELSE 0
         /\ HasNegativeWeight(in_ijw') => \E e \in G : w[e] < 0
    BY SMTT(30), <1>7, <1>8, <1>9, ListOfGraph
  <1>11. GreedyGiven'
    <2>1. /\ \A e \in Edge : Total(in_ijw', e) = IF e \in G THEN Total(r_ijw, e) ELSE 0
          /\ HasNegativeWeight(in_ijw') => \E e \in G : Total(r_ijw, e) < 0
      BY <1>8, <1>10
    <2>2. in_lb' = Clamp(r_lb, G) /\ in_ub' = Clamp(r_ub, G)
      BY <1>7, <1>8
    <2>3. G = Usable(r_ijw', r_ub')
      BY <1>5 DEF G
    <2>4. QED
      BY <1>5, <2>1, <2>2, <2>3 DEF GreedyGiven
  <1>12. in_lb' \in [Node -> Int] /\ in_ub' \in [Node -> Nat]
    <2>1. \A x \in Node : Clamp(r_lb, G)[x] \in Nat /\ Clamp(r_ub, G)[x] \in Nat
      BY <1>5, <1>8, ClampIs
    <2>2. /\ Clamp(r_lb, G) = [x \in Node |-> Clamp(r_lb, G)[x]]
          /\ Clamp(r_ub, G) = [x \in Node |-> Clamp(r_ub, G)[x]]
      BY DEF Clamp
    <2>3. Clamp(r_lb, G) \in [Node -> Int] /\ Clamp(r_ub, G) \in [Node -> Nat]
      BY <2>1, <2>2
    <2>4. QED
      BY <1>7, <1>8, <2>3
  <1>13. CallInv'
    BY <1>1, <1>2, <1>10, <1>12 DEF CallInv, LevelTypes
  <1>14. QED
    BY <1>1, <1>2, <1>3, <1>4, <1>5, <1>11, <1>13 DEF RecursionInv, NoResult

\* The call does what BmatchSolverProofs says.
LEMMA GreedyCallStep ==
  ASSUME DegUnit = 1, RecursionInv, GreedyCall
  PROVE  RecursionInv'
  <1>1. level = "greedy" /\ level' = "greedy" /\ Call /\ UNCHANGED <<rvars, asked>>
    BY DEF GreedyCall, rvars
  <1>2. /\ LevelTypes /\ FramesKnown /\ ChosenKnown /\ GivenRest /\ result = NoResult
        /\ AAmat = WithoutZeroBound(ijw_2_svecvec_symm(r_ijw), r_ub)
        /\ GreedyGiven /\ CallInv
    BY <1>1 DEF RecursionInv
  <1>3. CallInv'
    <2>1. [Next]_svars
      BY <1>1 DEF Next
    <2>2. QED
      BY <1>2, <2>1, CallInvStep
  <1>4. in_ijw' = in_ijw /\ in_lb' = in_lb /\ in_ub' = in_ub
    BY <1>1 DEF Call, RejectWeights, RemoveEdges, RejectBounds, InitSolver, Solve, Return, Reject, args
  <1>5. UNCHANGED <<frames, result, asked>> /\ UNCHANGED rargs /\ AAmat' = AAmat
    BY <1>1 DEF rvars
  <1>6. FramesKnown' /\ ChosenKnown' /\ GivenRest'
    BY <1>2, <1>5, Kept
  <1>7. r_ijw' = r_ijw /\ r_lb' = r_lb /\ r_ub' = r_ub /\ result' = result
    BY <1>5 DEF rargs
  <1>8. GreedyGiven'
    BY <1>2, <1>4, <1>7 DEF GreedyGiven
  <1>9. stage' \in {"called", "pruned", "solving", "returned"} /\ success' \in {0, 1}
    BY <1>3 DEF CallInv, Rejection, CallAnswer
  <1>10. LevelTypes'
    BY <1>1, <1>2, <1>5, <1>7, <1>9 DEF LevelTypes, asked
  <1>11. QED
    BY <1>1, <1>2, <1>3, <1>5, <1>6, <1>7, <1>8, <1>10 DEF RecursionInv, NoResult

\* The outermost level returns.
LEMMA LeaveStep ==
  ASSUME DegUnit = 1, RecursionInv, Leave
  PROVE  RecursionInv'
  <1>1. /\ level = "unwind" /\ level' = "finished" /\ frames = <<>> /\ frames' = <<>>
        /\ UNCHANGED <<svars, rargs, AAmat, frames, result, asked>>
    BY DEF Leave
  <1>2. LevelTypes /\ FramesKnown /\ ChosenKnown /\ ResultKnown
    BY <1>1 DEF RecursionInv
  <1>3. FramesKnown' /\ ChosenKnown' /\ ResultKnown'
    BY <1>1, <1>2, Kept
  <1>4. LevelTypes'
    BY <1>1, <1>2 DEF LevelTypes, svars, outputs, rargs, asked
  <1>5. QED
    BY <1>1, <1>3, <1>4 DEF RecursionInv

\* Nothing happens.
LEMMA StutterStep ==
  ASSUME DegUnit = 1, RecursionInv, UNCHANGED <<allvars, asked>>
  PROVE  RecursionInv'
  <1>1. /\ UNCHANGED <<frames, result, asked>> /\ UNCHANGED rargs /\ UNCHANGED svars
        /\ level' = level /\ AAmat' = AAmat /\ UNCHANGED <<args, stage, outputs>>
    BY DEF allvars, rvars, svars
  <1>2. /\ FramesKnown' /\ ChosenKnown'
        /\ level \in {"enter", "prepared", "greedy"} => GivenRest'
        /\ level \in {"unwind", "finished"} => ResultKnown'
    BY <1>1, Kept DEF RecursionInv
  <1>3. r_ijw' = r_ijw /\ r_lb' = r_lb /\ r_ub' = r_ub /\ result' = result /\ frames' = frames
    BY <1>1 DEF rargs
  <1>4. LevelTypes'
    BY <1>1, <1>3 DEF RecursionInv, LevelTypes, outputs, asked
  <1>5. level = "greedy" => GreedyGiven'
    BY <1>1, <1>3 DEF RecursionInv, GreedyGiven, args
  <1>6. level = "greedy" => CallInv'
    <2>1. [Next]_svars
      BY <1>1
    <2>2. QED
      BY <2>1, CallInvStep DEF RecursionInv
  <1>7. QED
    BY <1>1, <1>2, <1>3, <1>4, <1>5, <1>6 DEF RecursionInv, NoResult

\* Every step of the recursion preserves the invariant,
LEMMA RecursionStep ==
  ASSUME DegUnit = 1, RecursionInv, [RNext]_<<allvars, asked>>
  PROVE  RecursionInv'
  <1>1. CASE Enter
    BY <1>1, EnterStep
  <1>2. CASE CallGreedy
    BY <1>2, CallGreedyStep
  <1>3. CASE GreedyCall
    BY <1>3, GreedyCallStep
  <1>4. CASE Descend
    BY <1>4, DescendStep
  <1>5. CASE Bottom
    BY <1>5, BottomStep
  <1>6. CASE Unwind
    BY <1>6, UnwindStep
  <1>7. CASE Leave
    BY <1>7, LeaveStep
  <1>8. CASE UNCHANGED <<allvars, asked>>
    BY <1>8, StutterStep
  <1>9. QED
    BY <1>1, <1>2, <1>3, <1>4, <1>5, <1>6, <1>7, <1>8 DEF RNext, Recursion, Finished

\* which therefore holds at every level.
LEMMA RecursionInvHolds ==
  ASSUME IntegralBounds
  PROVE  RSpec => []RecursionInv
  <1>1. DegUnit = 1
    BY DEF IntegralBounds
  <1>2. RInit => RecursionInv
    BY RecursionStarts
  <1>3. RecursionInv /\ [RNext]_<<allvars, asked>> => RecursionInv'
    BY <1>1, RecursionStep
  <1>4. QED
    BY <1>2, <1>3, PTL DEF RSpec
-----------------------------------------------------------------------------
(****************************************************************************)
(* What the outermost caller gets.                                           *)
(****************************************************************************)
\* The recursion keeps to its types.
THEOREM RecursionTypeCorrect ==
  ASSUME IntegralBounds
  PROVE  RSpec => []RTypeOK
  <1>1. RecursionInv => RTypeOK
    <2> SUFFICES ASSUME RecursionInv PROVE RTypeOK
      OBVIOUS
    <2>1. LevelTypes /\ FramesKnown
      BY DEF RecursionInv
    <2>2. result \in [success : {0, 1}, edges : Seq(Edge), wgt : Nat \cup {Unset}]
      <3>1. NoResult \in [success : {0, 1}, edges : Seq(Edge), wgt : Nat \cup {Unset}]
        BY DEF NoResult
      <3>2. result = NoResult \/ ResultKnown
        BY DEF RecursionInv, LevelTypes
      <3>3. QED
        BY <3>1, <3>2 DEF ResultKnown, Outcome
    <2>3. r_ub \in [Node -> Int]
      BY <2>1 DEF LevelTypes
    <2>4. QED
      BY <2>1, <2>2, <2>3 DEF RTypeOK, LevelTypes, FramesKnown, Suspended, Entry
  <1>2. QED
    BY <1>1, RecursionInvHolds, PTL

\* However deep the recursion goes, the levels together choose distinct edges
\* of the outermost graph and respect the outermost bounds.
THEOREM LevelsShare ==
  ASSUME IntegralBounds
  PROVE  RSpec => []LevelsShareTheBounds
  <1>1. RecursionInv => LevelsShareTheBounds
    BY DEF RecursionInv, ChosenKnown, LevelsShareTheBounds
  <1>2. QED
    BY <1>1, RecursionInvHolds, PTL

\* A level below the outermost one is never rejected.
THEOREM RejectionIsOutermost ==
  ASSUME IntegralBounds
  PROVE  RSpec => []OnlyOutermostRejects
  <1> USE DEF IntegralBounds
  <1>1. RecursionInv => OnlyOutermostRejects
    <2> SUFFICES ASSUME RecursionInv, frames # <<>>, level = "greedy", stage = "returned"
                 PROVE  success = 1
      BY DEF OnlyOutermostRejects
    <2>1. success # 0
      BY RejectedOutermost
    <2>2. QED
      BY <2>1 DEF RecursionInv, LevelTypes
  <1>2. QED
    BY <1>1, RecursionInvHolds, PTL

\* What the outermost level returns.
LEMMA FinalResult ==
  ASSUME DegUnit = 1, RecursionInv, level = "finished"
  PROVE  /\ LevelTypes /\ result \in Outcome
         /\ ChosenEdges = result.edges
         /\ NoDuplicate(result.edges)
         /\ IsBMatching(ToSet(result.edges), AskedE, AskedCap)
         /\ result.success = 0 =>
              /\ result.edges = <<>> /\ result.wgt = Unset
              /\ HasNegativeWeight(asked_ijw) \/ Crossed(asked_lb, asked_ub)
         /\ result.success = 1 =>
              /\ result.wgt = ListWeight(result.edges, AskedWgt)
              /\ IsMaximal(ToSet(result.edges), AskedE, AskedCap)
              /\ \A e \in Usable(asked_ijw, asked_ub) : AskedW(e) > 0
              /\ BestWeight(AskedE, AskedWgt, AskedCap) <= 2 * ListWeight(result.edges, AskedWgt)
  <1>1. LevelTypes /\ ChosenKnown /\ ResultKnown /\ frames = <<>>
    BY DEF RecursionInv
  <1>2. result \in Outcome /\ result.edges \in Seq(Edge)
    BY <1>1 DEF ResultKnown, Outcome
  <1>3. ChosenEdges = result.edges
    <2>1. [k \in DOMAIN frames |-> frames[k].edges] = <<>>
      BY <1>1
    <2>2. FlattenSeq(<<>>) = <<>>
      BY DEF FlattenSeq
    <2>3. <<>> \o result.edges = result.edges
      BY <1>2, ConcatEmptySeq
    <2>4. QED
      BY <2>1, <2>2, <2>3 DEF ChosenEdges
  <1>4. QED
    BY <1>1, <1>2, <1>3 DEF ChosenKnown, ResultKnown, Succeeding

\* When the recursion ends nothing is left to add: every edge outside the
\* merged matching would break a bound of one of its ends.
THEOREM MergedMatchingIsMaximal ==
  ASSUME IntegralBounds
  PROVE  RSpec => []MergedIsMaximal
  <1> USE DEF IntegralBounds
  <1>1. RecursionInv => MergedIsMaximal
    BY FinalResult DEF MergedIsMaximal
  <1>2. QED
    BY <1>1, RecursionInvHolds, PTL

\* The merged weight is the sum of the caller's weights over the merged edges.
THEOREM MergedWeightIsReported ==
  ASSUME IntegralBounds
  PROVE  RSpec => []MergedWeight
  <1> USE DEF IntegralBounds
  <1>1. RecursionInv => MergedWeight
    <2> SUFFICES ASSUME RecursionInv, level = "finished", result.success = 1
                 PROVE  result.wgt = SumFunction([k \in DOMAIN result.edges |-> AskedW(result.edges[k])])
      BY DEF MergedWeight
    <2> DEFINE s == result.edges
    <2>1. result.wgt = ListWeight(s, AskedWgt) /\ ToSet(s) \subseteq AskedE
      BY FinalResult DEF IsBMatching
    <2>2. \A k \in DOMAIN s : AskedWgt[s[k]] = AskedW(s[k])
      BY <2>1 DEF ToSet, AskedWgt
    <2>3. [k \in DOMAIN s |-> AskedWgt[s[k]]] = [k \in DOMAIN s |-> AskedW(s[k])]
      BY <2>2
    <2>4. QED
      BY <2>1, <2>3 DEF ListWeight
  <1>2. QED
    BY <1>1, RecursionInvHolds, PTL

\* The outermost call keeps the contract the front ends rely on.
THEOREM RecursionContractIsKept ==
  ASSUME IntegralBounds
  PROVE  RSpec => []RecursionKeepsContract
  <1> USE DEF IntegralBounds
  <1>1. RecursionInv => RecursionKeepsContract
    <2> DEFINE s == result.edges
               B == ToSet(s)
               r == [success |-> result.success, edges |-> B, wgt |-> result.wgt, gptr |-> "none"]
    <2> SUFFICES ASSUME RecursionInv, level = "finished"
                 PROVE  Contract(4, NumNode, asked_ijw, asked_lb, asked_ub, r)
      BY DEF RecursionKeepsContract
    <2>1. r.success = result.success /\ r.edges = B /\ r.wgt = result.wgt /\ r.gptr = "none"
      OBVIOUS
    <2> HIDE DEF r
    <2>2. LevelTypes /\ (result.success = 0 \/ result.success = 1)
      BY FinalResult DEF Outcome
    <2>3. CASE result.success = 0
      <3>1. s = <<>> /\ result.wgt = Unset /\ (HasNegativeWeight(asked_ijw) \/ Crossed(asked_lb, asked_ub))
        BY <2>3, FinalResult
      <3>2. Rejected(r)
        BY <2>1, <2>3, <3>1 DEF Rejected, ToSet
      <3>3. GreedyContract(4, asked_ijw, asked_lb, asked_ub, r)
        BY <2>1, <3>1, <3>2 DEF GreedyContract
      <3>4. QED
        BY <3>3 DEF Contract
    <2>4. CASE result.success = 1
      <3>1. /\ result.wgt = ListWeight(s, AskedWgt)
            /\ s \in Seq(Edge) /\ NoDuplicate(s)
            /\ IsBMatching(B, AskedE, AskedCap)
            /\ \A e \in Usable(asked_ijw, asked_ub) : AskedW(e) > 0
        BY <2>4, FinalResult DEF Outcome
      <3>2. /\ \A e \in Edge : AskedW(e) = Total(asked_ijw, e)
            /\ AskedE \in SUBSET Edge
            /\ \A e \in AskedE : /\ AskedWgt[e] = AskedW(e) /\ AskedW(e) > 0
                                 /\ AskedWgt[e] \in Nat
            /\ \A x \in Node : AskedCap[x] = asked_ub[x] /\ asked_ub[x] \in Nat
        BY <2>2, AskedProblem
      <3>3. B \in SUBSET Edge /\ B \subseteq AskedE /\ \A x \in Node : Degree(B, x) <= asked_ub[x]
        BY <3>1, <3>2 DEF IsBMatching
      <3>4. asked_ijw \in Seq(Entry) /\ asked_ub \in [Node -> Nat]
        BY <2>2 DEF LevelTypes
      <3> HIDE DEF s, B
      <3>5. B \subseteq Usable(asked_ijw, asked_ub)
        <4>1. \A e \in B : Total(asked_ijw, e) # 0
          BY <3>2, <3>3
        <4>2. IsBMatching(B, Usable(asked_ijw, asked_ub), Clamp(asked_ub, Usable(asked_ijw, asked_ub)))
          BY <3>3, <3>4, <4>1, NothingIsLost
        <4>3. QED
          BY <4>2 DEF IsBMatching
      <3>6. IsBMatching(B, Usable(asked_ijw, asked_ub), asked_ub)
        BY <3>3, <3>5 DEF IsBMatching
      <3>7. \A e \in Usable(asked_ijw, asked_ub) : Total(asked_ijw, e) > 0
        BY <3>1, <3>2 DEF Usable
      <3>8. result.wgt = WeightIn(asked_ijw, B)
        <4> DEFINE g == [e \in B |-> Total(asked_ijw, e)]
        <4>1. \A k \in DOMAIN s : s[k] \in AskedE
          BY <3>3 DEF ToSet, B
        <4>2. Weighed(s, AskedWgt)
          BY <3>1, <3>2, <4>1 DEF Weighed
        <4>3. Weight(B, AskedWgt) = ListWeight(s, AskedWgt)
          BY <3>1, <4>2, OnceWeight DEF B
        <4>4. WeightIn(asked_ijw, B) = SumFunctionOnSet(g, B)
          BY DEF WeightIn, SumFunction
        <4>5. IsFiniteSet(B) /\ \A e \in B : g[e] = AskedWgt[e]
          BY <3>2, <3>3, EdgesFinite
        <4> HIDE DEF g
        <4>6. SumFunctionOnSet(g, B) = SumFunctionOnSet(AskedWgt, B)
          BY <4>5, SumSame
        <4>7. QED
          BY <3>1, <4>3, <4>4, <4>6, WeightIsSum
      <3>9. GreedyContract(4, asked_ijw, asked_lb, asked_ub, r)
        <4>1. 4 # 3
          OBVIOUS
        <4>2. QED
          BY <2>1, <2>4, <3>6, <3>7, <3>8, <4>1 DEF GreedyContract
      <3>10. QED
        BY <3>9 DEF Contract
    <2>5. QED
      BY <2>2, <2>3, <2>4
  <1>2. QED
    BY <1>1, RecursionInvHolds, PTL
-----------------------------------------------------------------------------
(****************************************************************************)
(* The recursion implements the abstract solver.                             *)
(****************************************************************************)
\* The b-matching problem of the abstract solver is that of this module.
LEMMA OutermostProblem ==
  /\ Outermost!Edge = Edge
  /\ \A B, E, b : Outermost!IsBMatching(B, E, b) <=> IsBMatching(B, E, b)
  /\ \A B, w : Outermost!Weight(B, w) = Weight(B, w)
  /\ \A E, w, b : Outermost!BestWeight(E, w, b) = BestWeight(E, w, b)
  <1>1. \A B, w : Outermost!Weight(B, w) = Weight(B, w)
    BY DEF Outermost!Weight, Weight, Outermost!SumFunctionOnSet, SumFunctionOnSet,
           Outermost!FoldFunctionOnSet, FoldFunctionOnSet, Outermost!MapThenFoldSet, MapThenFoldSet
  <1>2. \A S : Outermost!Cardinality(S) = Cardinality(S)
    BY Zenon DEF Outermost!Cardinality, Cardinality
  <1>3. \A B, E, b : Outermost!IsBMatching(B, E, b) <=> IsBMatching(B, E, b)
    BY <1>2 DEF Outermost!IsBMatching, IsBMatching, Outermost!Degree, Degree, Outermost!Node, Node
  <1>4. \A S : Outermost!Max(S) = Max(S)
    BY DEF Outermost!Max, Max
  <1>5. \A E, w, b : Outermost!BestWeight(E, w, b) = BestWeight(E, w, b)
    BY <1>1, <1>3, <1>4 DEF Outermost!BestWeight, BestWeight
  <1>6. Outermost!Edge = Edge
    BY DEF Outermost!Edge, Outermost!Node, Edge, Node
  <1>7. QED
    BY <1>1, <1>3, <1>5, <1>6

\* Calling the next level adds the edges of this one to the matching.
LEMMA DescendGrows ==
  ASSUME DegUnit = 1, RecursionInv, RecursionInv', Descend
  PROVE  Outermost!Grow
  <1>1. /\ level = "greedy" /\ stage = "returned" /\ success = 1 /\ level' = "enter"
        /\ UNCHANGED <<result, asked>>
    BY DEF Descend, AddedEdges
  <1>2. LevelTypes /\ FramesKnown /\ ChosenKnown /\ result = NoResult /\ ChosenKnown'
    BY <1>1 DEF RecursionInv
  <1>3. AskedE' = AskedE /\ AskedWgt' = AskedWgt /\ AskedCap' = AskedCap
    BY <1>1, AskedStays
  <1>4. ChosenEdges = SoFar \o result.edges /\ ChosenEdges' = SoFar' \o result'.edges
    BY DEF ChosenEdges, SoFar, EdgesAbove
  <1>5. result.edges = <<>> /\ result.success = 0
    BY <1>2 DEF NoResult
  <1>6. ChosenEdges = SoFar
    BY <1>2, <1>5, ChosenSoFar
  <1>7. /\ SoFar \o bmatch_edge_vec \in Seq(Edge)
        /\ ToSet(SoFar \o bmatch_edge_vec) = ToSet(SoFar) \cup ToSet(bmatch_edge_vec)
    BY <1>1, LevelAdds
  <1>8. ChosenEdges' = SoFar \o bmatch_edge_vec
    <2>1. SoFar' = SoFar \o bmatch_edge_vec
      BY DescendFrames
    <2>2. ChosenEdges' = (SoFar \o bmatch_edge_vec) \o <<>>
      BY <1>1, <1>4, <1>5, <2>1
    <2>3. QED
      BY <1>7, <2>2, ConcatEmptySeq
  <1>9. ToSet(ChosenEdges) \subseteq ToSet(ChosenEdges)'
    BY <1>6, <1>7, <1>8
  <1>10. IsBMatching(ToSet(ChosenEdges)', AskedE, AskedCap)
    BY <1>2, <1>3 DEF ChosenKnown
  <1>11. Outermost!IsBMatching(ToSet(ChosenEdges)', DOMAIN AskedWgt, AskedCap)
    BY <1>10, OutermostProblem DEF AskedWgt
  <1>12. QED
    BY <1>1, <1>3, <1>9, <1>11 DEF Outermost!Grow

\* The recursion ends with half of the best weight, or with a rejection.
LEMMA LeaveStops ==
  ASSUME DegUnit = 1, RecursionInv, Leave
  PROVE  Outermost!Stop \/ UNCHANGED Outermost!vars
  <1>1. level = "unwind" /\ level' = "finished" /\ UNCHANGED <<frames, result, asked>>
    BY DEF Leave
  <1>2. LevelTypes /\ ChosenKnown
    BY <1>1 DEF RecursionInv
  <1>3. AskedE' = AskedE /\ AskedWgt' = AskedWgt /\ AskedCap' = AskedCap /\ ChosenEdges' = ChosenEdges
    BY <1>1, AskedStays, Kept
  <1>4. ToSet(ChosenEdges)' = ToSet(ChosenEdges) /\ result' = result
    BY <1>1, <1>3
  <1>5. CASE result.success = 1
    <2> DEFINE s == ChosenEdges
    <2>1. /\ s \in Seq(Edge) /\ NoDuplicate(s) /\ ToSet(s) \subseteq AskedE
          /\ BestWeight(AskedE, AskedWgt, AskedCap) <= 2 * ListWeight(s, AskedWgt)
      BY <1>2, <1>5 DEF ChosenKnown, Succeeding, IsBMatching
    <2>2. Weighed(s, AskedWgt)
      <3> HIDE DEF s
      <3>1. \A e \in AskedE : AskedWgt[e] \in Nat
        BY <1>2, AskedProblem
      <3>2. QED
        BY <2>1, <3>1 DEF Weighed, ToSet
    <2>3. Weight(ToSet(s), AskedWgt) = ListWeight(s, AskedWgt) /\ ListWeight(s, AskedWgt) \in Nat
      BY <2>1, <2>2, OnceWeight, WeighedList
    <2>4. BestWeight(AskedE, AskedWgt, AskedCap) \in Nat
      BY <1>2, AskedProblem, BestIsBest
    <2>5. DOMAIN AskedWgt = AskedE
      BY DEF AskedWgt
    <2>6. Outermost!HalfOfBest
      BY <2>1, <2>3, <2>4, <2>5, OutermostProblem DEF Outermost!HalfOfBest
    <2>7. QED
      BY <1>1, <1>3, <1>4, <1>5, <2>6 DEF Outermost!Stop
  <1>6. CASE result.success # 1
    BY <1>1, <1>3, <1>4, <1>6 DEF Outermost!vars
  <1>7. QED
    BY <1>5, <1>6

\* No other step changes what has been chosen.
LEMMA OtherStepsStutter ==
  ASSUME DegUnit = 1, RecursionInv,
         Enter \/ CallGreedy \/ GreedyCall \/ Bottom \/ Unwind \/ UNCHANGED <<allvars, asked>>
  PROVE  UNCHANGED Outermost!vars
  <1>1. UNCHANGED asked /\ (level = "finished") = (level' = "finished")
    BY DEF Enter, CallGreedy, GreedyCall, Bottom, Unwind, allvars, rvars, rargs
  <1>2. ChosenEdges' = ChosenEdges
    <2>1. CASE Enter \/ CallGreedy \/ GreedyCall \/ UNCHANGED <<allvars, asked>>
      <3>1. UNCHANGED <<frames, result, asked>>
        BY <2>1 DEF Enter, CallGreedy, GreedyCall, allvars, rvars
      <3>2. QED
        BY <3>1, Kept
    <2>2. CASE Bottom
      BY <2>2, BottomStep
    <2>3. CASE Unwind
      BY <2>3, UnwindResult
    <2>4. QED
      BY <2>1, <2>2, <2>3
  <1>3. AskedWgt' = AskedWgt /\ AskedCap' = AskedCap
    BY <1>1, AskedStays
  <1>4. (level = "finished" /\ result.success = 1)' = (level = "finished" /\ result.success = 1)
    BY <1>1 DEF Enter, CallGreedy, GreedyCall, Bottom, Unwind, allvars, rvars
  <1>5. ToSet(ChosenEdges)' = ToSet(ChosenEdges)
    BY <1>2
  <1>6. QED
    BY <1>3, <1>4, <1>5 DEF Outermost!vars

\* Every step at every level is a step of the abstract solver for the problem
\* of the outermost call, or changes nothing it knows of.
THEOREM RecursionRefines ==
  ASSUME IntegralBounds
  PROVE  RSpec => ImplementsApproxSolver
  <1>1. DegUnit = 1
    BY DEF IntegralBounds
  <1>2. RInit => Outermost!Init
    <2> SUFFICES ASSUME RInit PROVE Outermost!Init
      OBVIOUS
    <2>1. RecursionInv /\ level = "enter" /\ frames = <<>> /\ result.edges = <<>>
      BY RecursionStarts DEF RInit, NoResult
    <2>2. DOMAIN AskedWgt \subseteq Outermost!Edge
      BY OutermostProblem DEF AskedWgt, AskedE
    <2>3. ToSet(ChosenEdges) = {}
      <3>1. [k \in DOMAIN frames |-> frames[k].edges] = <<>>
        BY <2>1
      <3>2. FlattenSeq(<<>>) = <<>> /\ <<>> \o <<>> = <<>> /\ ToSet(<<>>) = {}
        BY DEF FlattenSeq, ToSet
      <3>3. QED
        BY <2>1, <3>1, <3>2 DEF ChosenEdges
    <2>4. QED
      BY <2>1, <2>2, <2>3 DEF Outermost!Init
  <1>3. ASSUME RecursionInv, RecursionInv', [RNext]_<<allvars, asked>>
        PROVE  [Outermost!Next]_(Outermost!vars)
    <2>1. CASE Descend
      BY <1>1, <1>3, <2>1, DescendGrows DEF Outermost!Next
    <2>2. CASE Leave
      BY <1>1, <1>3, <2>2, LeaveStops DEF Outermost!Next
    <2>3. CASE Enter \/ CallGreedy \/ GreedyCall \/ Bottom \/ Unwind \/ UNCHANGED <<allvars, asked>>
      BY <1>1, <1>3, <2>3, OtherStepsStutter
    <2>4. QED
      BY <1>3, <2>1, <2>2, <2>3 DEF RNext, Recursion, Finished
  <1>4. QED
    BY <1>2, <1>3, RecursionInvHolds, PTL DEF RSpec, Outermost!Spec, ImplementsApproxSolver
=============================================================================
