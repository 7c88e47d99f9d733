--------------------------- MODULE BeliefPropProofs ---------------------------
(****************************************************************************)
(* Theorems about a call of BeliefPropBmatch, for every number of nodes, edge *)
(* list and bounds, whatever the unwritten cells hold and however the ties    *)
(* fall: the loop is counted, and the answer is one the callers can rely on.  *)
(****************************************************************************)
EXTENDS BeliefProp, IjwProofs

-----------------------------------------------------------------------------
(****************************************************************************)
(* The invariant.  The choices of a round are kept for the answer, which is  *)
(* taken from the last round: there must have been one.                      *)
(****************************************************************************)
AgreedCap == NodeCap(NumNode, in_ijw, in_ub)

ArgumentsKnown ==
  /\ in_ijw \in Seq(Entry)
  /\ AgreedCap \in 1 .. NumNode - 1

\* The pairs that a choice of partners stands for.
PairsOf(p) == {q \in Pair : q[2] \in p[q[1]]}

LoopKnown ==
  /\ ~ HasNegativeWeight(in_ijw)
  /\ node_cap = AgreedCap
  /\ iters > MAX_ITER => converged = 0
  /\ iters = 0 => converged = CONVERGENCE_INSURANCE
  /\ iters > 0 => P \in PartnerChoices

AnswerKnown ==
  \/ HasNegativeWeight(in_ijw) /\ bmatch_edges = {} /\ bmatch_wgt = Unset
  \/ /\ ~ HasNegativeWeight(in_ijw)
     /\ \E p \in [Node -> kSubset(AgreedCap, Node)] : bmatch_edges = PairsOf(p)
     /\ bmatch_wgt = WeightIn(in_ijw, bmatch_edges)

BeliefInv ==
  /\ ArgumentsKnown
  /\ phase \in {"called", "iterate", "returned"}
  /\ node_cap \in {0, AgreedCap}
  /\ converged \in 0 .. CONVERGENCE_INSURANCE
  /\ iters \in 0 .. MAX_ITER + 1
  /\ success = 0
  /\ phase # "returned" => bmatch_edges = {} /\ bmatch_wgt = Unset
  /\ phase = "iterate" => LoopKnown
  /\ phase = "returned" => AnswerKnown

LEMMA BeliefInvInit == Init => BeliefInv
  <1> SUFFICES ASSUME Init PROVE BeliefInv
    OBVIOUS
  <1>1. in_ijw \in Seq(Entry)
    <2>1. PICK s \in EdgeLists : in_ijw = ijw_add_upper_tri_transpose(s, TRUE)
      BY DEF Init
    <2>2. s \in Seq(Entry)
      BY BeliefAssumption DEF Entry
    <2>3. QED
      BY <2>1, <2>2, SymmUpper
  <1>2. AgreedCap \in 1 .. NumNode - 1
    BY DEF Init, ExpectsCapacity, AgreedCap
  <1>3. QED
    BY <1>1, <1>2, BeliefAssumption DEF Init, BeliefInv, ArgumentsKnown

LEMMA RejectWeightsKeeps == BeliefInv /\ RejectWeights => BeliefInv'
  BY DEF BeliefInv, RejectWeights, ArgumentsKnown, AgreedCap, AnswerKnown, args, state, outputs

LEMMA PrepareKeeps == BeliefInv /\ Prepare => BeliefInv'
  <1> SUFFICES ASSUME BeliefInv, Prepare PROVE BeliefInv'
    OBVIOUS
  <1>1. /\ phase = "called" /\ ~ HasNegativeWeight(in_ijw) /\ phase' = "iterate"
        /\ node_cap' = AgreedCap /\ converged' = CONVERGENCE_INSURANCE /\ iters' = 0
        /\ UNCHANGED <<in_ijw, in_ub, bmatch_edges, bmatch_wgt, success>>
    BY DEF Prepare, args, outputs, AgreedCap
  <1>2. AgreedCap' = AgreedCap
    BY <1>1 DEF AgreedCap
  <1>3. MAX_ITER \in Nat \ {0} /\ CONVERGENCE_INSURANCE \in Nat \ {0}
    BY BeliefAssumption
  <1>4. LoopKnown'
    BY <1>1, <1>2, <1>3 DEF LoopKnown
  <1>5. QED
    BY <1>1, <1>2, <1>3, <1>4 DEF BeliefInv, ArgumentsKnown

\* A round is only made below the limit, so it exceeds it by one at most.
LEMMA IterateKeeps == BeliefInv /\ Iterate => BeliefInv'
  <1> SUFFICES ASSUME BeliefInv, Iterate PROVE BeliefInv'
    OBVIOUS
  <1>1. /\ phase = "iterate" /\ converged > 0 /\ phase' = "iterate"
        /\ iters' = iters + 1
        /\ UNCHANGED <<in_ijw, in_ub, node_cap, bmatch_edges, bmatch_wgt, success>>
        /\ converged' = IF iters' > MAX_ITER THEN 0
                        ELSE IF permCheck(P') THEN converged - 1 ELSE converged
    BY DEF Iterate, Round, args, outputs
  <1>2. P' \in PartnerChoices
    BY DEF Iterate, Round
  <1>3. PartnerChoices' = PartnerChoices /\ AgreedCap' = AgreedCap
    BY <1>1 DEF PartnerChoices, AgreedCap
  <1>4. /\ MAX_ITER \in Nat /\ CONVERGENCE_INSURANCE \in Nat
        /\ converged \in 0 .. CONVERGENCE_INSURANCE /\ iters \in 0 .. MAX_ITER + 1
        /\ iters > MAX_ITER => converged = 0
    BY <1>1, BeliefAssumption DEF BeliefInv, LoopKnown
  <1>5. /\ iters \in 0 .. MAX_ITER
        /\ iters' \in 1 .. MAX_ITER + 1
        /\ converged' \in 0 .. CONVERGENCE_INSURANCE
        /\ iters' > MAX_ITER => converged' = 0
    BY <1>1, <1>4
  <1>6. LoopKnown'
    BY <1>1, <1>2, <1>3, <1>5 DEF LoopKnown, BeliefInv
  <1>7. QED
    BY <1>1, <1>3, <1>4, <1>5, <1>6 DEF BeliefInv, ArgumentsKnown

\* The insurance is positive, so the loop has been left after a round.
LEMMA ReturnKeeps == BeliefInv /\ Return => BeliefInv'
  <1> SUFFICES ASSUME BeliefInv, Return PROVE BeliefInv'
    OBVIOUS
  <1>1. /\ phase = "iterate" /\ converged = 0 /\ phase' = "returned"
        /\ bmatch_edges' = PairsOf(P)
        /\ bmatch_wgt' = WeightIn(in_ijw, bmatch_edges')
        /\ UNCHANGED <<in_ijw, in_ub, node_cap, converged, iters, success>>
    BY DEF Return, PairsOf, args, state
  <1>2. P \in [Node -> kSubset(AgreedCap, Node)] /\ ~ HasNegativeWeight(in_ijw)
    <2>1. iters > 0
      BY <1>1, BeliefAssumption DEF BeliefInv, LoopKnown
    <2>2. QED
      BY <1>1, <2>1 DEF BeliefInv, LoopKnown, PartnerChoices
  <1>3. AgreedCap' = AgreedCap
    BY <1>1 DEF AgreedCap
  <1>4. AnswerKnown'
    BY <1>1, <1>2, <1>3 DEF AnswerKnown
  <1>5. QED
    BY <1>1, <1>3, <1>4 DEF BeliefInv, ArgumentsKnown

LEMMA BeliefInvHolds == Spec => []BeliefInv
  <1>1. BeliefInv /\ UNCHANGED vars => BeliefInv'
    BY DEF BeliefInv, ArgumentsKnown, AgreedCap, LoopKnown, AnswerKnown, PartnerChoices,
           vars, args, state, outputs
  <1>2. BeliefInv /\ [Next]_vars => BeliefInv'
    BY <1>1, RejectWeightsKeeps, PrepareKeeps, IterateKeeps, ReturnKeeps
       DEF Next, Call, Returned
  <1>3. QED
    BY <1>2, BeliefInvInit, PTL DEF Spec
-----------------------------------------------------------------------------
(****************************************************************************)
(* What the caller gets.                                                     *)
(****************************************************************************)
LEMMA WeightInType ==
  ASSUME NEW s \in Seq(Entry), NEW B \in SUBSET Pair
  PROVE  WeightIn(s, B) \in Int
  <1> DEFINE g == [e \in B |-> Total(s, e)]
  <1>1. IsFiniteSet(B)
    BY CellsFinite DEF Cell, Pair
  <1>2. \A e \in B : g[e] \in Int
    BY TotalFacts
  <1>3. WeightIn(s, B) = SumFunctionOnSet(g, B)
    BY DEF WeightIn, SumFunction
  <1> HIDE DEF g
  <1>4. QED
    BY <1>1, <1>2, <1>3, SumType

\* Every node has as many pairs as it has chosen partners.
LEMMA PairsOfNode ==
  ASSUME NEW c \in Nat, NEW p \in [Node -> kSubset(c, Node)], NEW x \in Node
  PROVE  Cardinality({e \in PairsOf(p) : e[1] = x}) = c
  <1> DEFINE S == p[x]
             T == {e \in PairsOf(p) : e[1] = x}
             f == [y \in S |-> <<x, y>>]
  <1>1. S \in SUBSET Node /\ Cardinality(S) = c
    BY DEF kSubset
  <1>2. IsFiniteSet(S)
    BY <1>1, NodeFinite, FS_Subset
  <1>3. \A e : e \in T <=> \E y \in S : e = <<x, y>>
    BY <1>1 DEF PairsOf, Pair
  <1> HIDE DEF S, T
  <1>4. f \in [S -> T] /\ \A a, b \in S : f[a] = f[b] => a = b
    BY <1>3
  <1>5. \A t \in T : \E s \in S : f[s] = t
    BY <1>3
  <1> HIDE DEF f
  <1>6. Cardinality(T) = Cardinality(S)
    BY <1>2, <1>4, <1>5, SameCardinality
  <1>7. QED
    BY <1>1, <1>6 DEF T

\* The types, and the bound on the count of rounds: it is never more than one
\* above the limit.  That the loop "while (converged > 0)" is left needs more than
\* this theorem: that every round raises the count is the definition of Round,
\* and that a round can always be taken is checked by TLC, as freedom of deadlock.
THEOREM BeliefTypeCorrect == Spec => []BTypeOK
  <1>1. BeliefInv => BTypeOK
    <2> SUFFICES ASSUME BeliefInv PROVE BTypeOK
      OBVIOUS
    <2>1. AgreedCap \in 1 .. NumNode - 1 /\ NumNode \in Nat
      BY NumNodeAssumption DEF BeliefInv, ArgumentsKnown
    <2>2. node_cap \in 0 .. NumNode - 1
      BY <2>1 DEF BeliefInv
    <2>3. bmatch_edges \subseteq Pair
      BY DEF BeliefInv, AnswerKnown, PairsOf
    <2>4. bmatch_wgt \in Int
      BY <2>3, WeightInType DEF BeliefInv, AnswerKnown, ArgumentsKnown, Unset
    <2>5. QED
      BY <2>2, <2>3, <2>4 DEF BTypeOK, BeliefInv
  <1>2. QED
    BY <1>1, BeliefInvHolds, PTL

\* The contract of method 5: never success, nothing written beside a rejection,
\* and otherwise node_cap partners for every node with the weight of them all,
\* also when the limit of rounds ended the search.
THEOREM BeliefContractIsKept == Spec => []BeliefKeepsContract
  <1>1. BeliefInv => BeliefKeepsContract
    <2> SUFFICES ASSUME BeliefInv, phase = "returned" PROVE BeliefKeepsContract
      BY DEF BeliefKeepsContract
    <2> DEFINE r == [success |-> success, edges |-> bmatch_edges, wgt |-> bmatch_wgt, gptr |-> "none"]
    <2>1. /\ r.success = 0 /\ r.edges = bmatch_edges /\ r.wgt = bmatch_wgt /\ r.gptr = "none"
          /\ AnswerKnown
      BY DEF BeliefInv
    <2> HIDE DEF r
    <2>2. BeliefContract(NumNode, in_ijw, in_ub, r)
      <3>1. CASE HasNegativeWeight(in_ijw)
        BY <2>1, <3>1 DEF AnswerKnown, BeliefContract, Rejected
      <3>2. CASE ~ HasNegativeWeight(in_ijw)
        <4>1. PICK p \in [Node -> kSubset(AgreedCap, Node)] : bmatch_edges = PairsOf(p)
          BY <2>1, <3>2 DEF AnswerKnown
        <4>2. AgreedCap \in Nat /\ Node = 0 .. NumNode - 1
          BY DEF BeliefInv, ArgumentsKnown, Node
        <4>3. \A x \in 0 .. NumNode - 1 : Cardinality({e \in r.edges : e[1] = x}) = AgreedCap
          BY <2>1, <4>1, <4>2, PairsOfNode
        <4>4. r.edges \subseteq (0 .. NumNode - 1) \X (0 .. NumNode - 1)
          BY <2>1, <4>1, <4>2 DEF PairsOf, Pair
        <4>5. r.wgt = WeightIn(in_ijw, r.edges)
          BY <2>1, <3>2 DEF AnswerKnown
        <4>6. QED
          BY <2>1, <3>2, <4>3, <4>4, <4>5 DEF BeliefContract, AgreedCap
      <3>3. QED
        BY <3>1, <3>2
    <2>3. Contract(5, NumNode, in_ijw, in_ub, in_ub, r)
      BY <2>2 DEF Contract
    <2>4. QED
      BY <2>3 DEF BeliefKeepsContract, r
  <1>2. QED
    BY <1>1, BeliefInvHolds, PTL
=============================================================================
