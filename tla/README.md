# Verification of the B-matching toolbox

The toolbox (`src/`) solves the b-matching problem: given an undirected graph
with edge weights `W` and degree bounds `l_i <= u_i`, choose edges `Y` of
maximum (or minimum) weight such that `l_i <= sum_j Y_ij <= u_i`; a self-loop
counts twice at its node. This directory holds TLA+ models of its solvers,
of its command line tool and of its Matlab functions, the TLC configurations that
check them and TLAPS proofs about the solvers, about what calls hand on to each other,
and about the way of a problem through the front ends to the solver and of the answer back.

## 1. The system

Everything runs in one thread of one process: the command line tool (or the
Matlab function) reads a graph and bounds, creates one solver, calls
`solve_bmatching_problem` once and writes the answer. Nothing is persisted,
nothing times out and no message is lost. What makes the code hard is state
that is kept twice, loops whose end depends on such state, numbers that are
clamped, truncated and scaled, and *calls nested in calls* that each normalise
the same arguments again.

| component | state | operations | interacts with |
|---|---|---|---|
| `GreedyApproxBmatch` (`greedyapprox.cpp`, method 3) | `Amat` (remaining graph, both directions), `Wmat`, `deg_vec`, `bcap_vec`, `M_walk`, `B_match` | `init`, `solve`, `solution` | called by `BmatchSolver` through virtual functions |
| `BmatchSolver` (`BmatchSolver.cpp`) | local copies of the edge list and the bounds, `AAmat`, `WWmat` | `solve_bmatching_problem` | the template method: checks, prunes, clamps, then `init`, `solve`, `solution` of the subclass |
| `RecursiveGreedyApproxBmatch` (`greedyapprox.cpp`, method 4) | the same locals, once per level of the recursion | `solve_bmatching_problem` | calls the greedy solver's `solve_bmatching_problem`, then itself on what is left |
| `GoblinExactBmatch` (`goblinexact.cpp`, method 2) | the library's graph, `LB_TCap_vec`, `UB_TCap_vec` | the same four | scales weights to integer costs, calls `BmatchSolver`, whose virtual functions call the Goblin library |
| `ComplementaryGoblinExactBmatch` (method 1, the default) | `AAmat`, two copies of the bounds | `solve_bmatching_problem` | complements the bounds, calls method 2, complements the answer |
| `Vector.cpp` | none | conversions between edge lists (`ijw`) and sparse matrices, filters | used by all |
| `BeliefPropBmatch` (`beliefprop.cpp`, method 5) | messages and beliefs of `2n` nodes | `solve_bmatching_problem`, `solve`, `updateMessages`, `permCheck` | called by `main` with the full matrix |
| `AbstractBmatchSolver` (`AbstractBmatchSolver.hpp`) | the solver object of a caller, with its `gptr` | construct, `solve_bmatching_problem`, delete | between the solvers and the two front ends |
| `Parameter.hpp` | the option fields `PP` | `init`, once for a string of defaults and once for the command line | called by `main` |
| `bmatch.cpp` | edge list, bounds, number of nodes, exit status | `main`, `read_degrees`, `init_const_degrees` | reads files or the standard input, creates one solver, prints |
| `bmatch_matrix.m`, `bmatch_ijw.m`, `bmatch_ijw_mex.cpp` | the arguments and the results, counted from 1 outside and from 0 inside | one function each, each calling the next | the mex function creates one solver |
| Goblin headers | | | third party, used by methods 1 and 2 |
| `test.cpp` | | | an older copy of the tool that returns before any solver (line 295) |

What makes each component correct:

* greedy: the hand-kept degrees agree with the graph, capacity is never charged
  below zero, no edge is used twice, the bounds hold, `solve` returns, and the
  answer weighs at least half of the best one ("greedy 1/2 approximation",
  `src/README:47`);
* template: the answer is a b-matching of the graph *as the caller gave it*, its
  weight is `sum_{i<=j} Wij Yij`, half of the best weight is reached for the
  caller's problem, a rejection has a reason;
* recursion: the levels share one budget of capacity, no deeper level is
  rejected, the merged matching is maximal and its weight is the sum, it ends;
* conversions: normalising twice is normalising once, weights are preserved;
* exact solvers: the answer is optimal for the bounds asked for;
* belief propagation: the message passing ends, and when the choices agree they are
  the best perfect b-matching of the bipartite relaxation, made of edges of the graph;
* front ends: a problem written down in any offered format is the problem the solver
  gets, a solver, which checks neither, is never called without a pair of bounds for
  every node or with an index beyond the last node, nor with one before the first node
  unless the list that was typed or passed has one, the matching found is the one the
  user reads off, and success and failure can be told apart from outside.

## 2. Modules

| module | models | how |
|---|---|---|
| `BMatching` | the problem | constant-level: degree, b-matching, weight, best weight |
| `ApproxSolver` | what the approximate solvers promise | abstract: the matching grows within the bounds; stopping needs half of the best weight |
| `GreedyApprox` | `GreedyApproxBmatch` | one action per pass between two loop heads of `solve()` |
| `Ijw` | conversions of `Vector.cpp` | operators on sequences of `<<i, j, w>>` and functions from positions |
| `BmatchSolver` | `BmatchSolver.cpp` with the greedy solver inside | `INSTANCE GreedyApprox`; `Solve` is its next-state relation |
| `RecursiveGreedy` | method 4 | extends `BmatchSolver`; `frames` is the call stack; `INSTANCE ApproxSolver` |
| `GoblinExact` | methods 1 and 2 | extends `BmatchSolver`, replacing its solver by an exact one |
| `BeliefProp` | method 5 | one action per round of message passing, in the domain of logarithms |
| `SolverContract` | what the five methods may answer | constant-level: `Contract`, method by method |
| `SolverInterface` | a solver object and its life | `solve_bmatching_problem` is any answer that `Contract` allows |
| `Parameter` | `Parameter.hpp` | one action per word of the command line |
| `BmatchTool` | `bmatch.cpp` and the reading of matrices in `Vector.cpp` | extends `SolverInterface` and `Parameter`; one action per phase of `main` |
| `MatlabInterface` | the two `.m` files and the mex function | extends `SolverInterface`; one action per function, one for the way back |
| `Formats` | what may be typed or passed to mean a problem | constant-level, from the help texts and comments: formats of the graph, shapes of the bounds, options |
| `FrontEnds` | tool and Matlab side by side | extends both and `Formats`; a session together with the problem its user meant |
| `...Proofs` | | lemmas, and the theorems about the module they are named after (section 5) |
| `MC...` | | the sets of edges, lists and sessions for TLC |

`GreedyApprox`: `PickNode`/`Finish` are the search of lines 234-249 (`u` is left
at `num_node` at the end), `WalkStop`/`WalkStep` one pass of the walk (lines
259-414: charge the visit, cut a self-loop that can no longer be paid, stop or
leave by the heaviest edge, remove it, and at an exhausted node remove all
others), `AppendHalf` the split of the walk (425-457). `Init` is `init()` on the
inputs `BmatchSolver` produces (`IsClamped`); that it produces no others is
`SolverGetsCleanInput` of the run `SolverCalls`, and the theorem `InputIsClean`.

`BmatchSolver`: `RejectWeights` (38-44), `RemoveEdges` (46-61), `RejectBounds`
(74-86), `InitSolver` (the clamped bounds and `init()`), `Solve`, `Return`
(`solution()`, the filters and the weight).

`RecursiveGreedy`: `Enter` and `CallGreedy` prepare a level, `GreedyCall` is any
step of the nested `BmatchSolver`, `Descend` computes residual graph and bounds
and recurses, `Bottom`/`Unwind`/`Leave` return. A new solver object is made for
every level in the code; here every call starts from `InitSolver`.

`GoblinExact`: `ComplementBounds`, `ScaleWeights`, then `SolverCall` (the actions
of `BmatchSolver` with `InitGoblin`, `MinCMatchingFound`, `MinCMatchingFailed`,
`ReturnGoblin` in place of the greedy ones), `Reweigh`, `Complement`. The library
is external: where a b-matching meets the bounds it selects some cheapest one,
otherwise it fails and any arcs may be selected, which is what the code that
reads the arcs afterwards has to cope with.

`BeliefProp`: `RejectWeights` (49-55), `Prepare` (the capacity, the matrix `W`, the
initial messages), `Iterate` (386-406: all of beta, then all of alpha, the choices
of alpha, `permCheck`, the iteration limit), `Return` (the last choices and their
weight, 98-115). `Messages`, `AreBeliefs` and `permCheck` are the parts of
`updateMessages` and the check; the search for the `b+1` largest entries (188-213)
is the operator `KthLargest`.

### Composition by contract

The front ends with the detailed solvers inside would be out of TLC's reach, and would
say little of the front ends. They are composed with `SolverContract` instead, and
each detailed solver is checked against the same contract: `GreedyKeepsContract`
(method 3), `RecursionKeepsContract` (4), `ExactKeepsContract` (1 and 2) and
`BeliefKeepsContract` (5) say that whatever a call returns, writes or leaves behind,
failures included, is allowed by `Contract`. The contract is weaker than what the
solvers do (it says nothing of optimality) and so admits more behaviours of the front
ends. It records what a caller has to cope with: methods 1 and 2 weigh what they answer
also when they fail, method 1 answers the complement of nothing when method 2 rejects,
method 5 never reports success, and a rejected call leaves `gptr` as the constructor
left it.

`SolverInterface`: `NewSolver` (the constructors, and "use full matrix" for method 5),
`solve_bmatching_problem`, `ReadBeyondVectors` (a capacity of method 5 equal to 0 or to
the number of nodes: the selection of beliefs reads outside its vectors, and either
answers or crashes), `DeleteUnset` (the destructor of methods 1 and 2 deletes a pointer
nobody has set) and `DeleteSolver`.

`BmatchTool`: `Options` (the actions `PrintHelp`, `SetOption`, `SkipOption` and
`EndOptions` of `Parameter`, first over the string of defaults), `ExitHelp`,
`ReadWeights`, `ConstantBounds` or `ReadBounds` (`read_degrees` with its shapes in the
order in which they are tried), `ChooseMethod` or `RefuseMethod`, the call, and
`WriteMatching` with `exit(~success)`. The graph and the bounds may both come from the
standard input; what `read_mn_matrix` leaves there is then what the next reads.

`MatlabInterface`: `bmatch_matrix` (the shapes of the bounds, `find(triu(W))`),
`bmatch_ijw_mex` (indices from 0, the size checks) and `Return` (indices from 1, the
matrix and its degrees, the weight).

`Formats` says nothing of how anything is read: `Writes(s, p)` relates a session to the
problem it writes down, for problems of any size, so that the sessions of the run
(`MCFrontEnds`) are samples of one definition and the theorems speak of all of them.
`SessionAssumption` of `FrontEnds` requires it of every session that means a problem,
and TLC evaluates it on the run. Where a format is ambiguous the relation leaves it out,
and says so (see the end of section 3).

### Abstractions

* The front ends read numbers, not text: a file is a sequence of lines, a line a
  sequence of integers, a blank line is empty. How a number is written, spaces, the
  limit of 100000000 lines and the verbosity are left out.

* Weights are integers and are only added and compared, so rounding of double
  sums is not modelled. Degree bounds are doubles `b/DegUnit`; `DegUnit = 1` makes
  them integral, `DegUnit = 2` allows halves.
* The scaled weight of method 2 is the exact quotient `w * INT_MAX / sum`; the
  rounding of the double quotient is below the rounding to float that follows it
  and is modelled, in a machine with `IntBits` for an int and `MantissaBits` for a
  float. A float beyond `INT_MAX` becomes `INT_MIN` or `INT_MAX`.
* Belief propagation multiplies and divides exponentials of the weights; the model
  adds and subtracts the weights themselves, which is the same order of entries in
  exact arithmetic. Choices between equal entries are left open, as the rounding of
  the program decides them. Overflow of the exponentials is not modelled.
* The cells of `W` that the program never writes hold any value of `Junk`. The runs
  take 0, what fresh memory usually holds; a value below -9999, which would cut the
  link, is not modelled. In `BeliefProp` the capacity is in `1..NumNode-1`: "expecting
  b<n" (`beliefprop.cpp:30`, `src/README:100`); other capacities are
  `ReadBeyondVectors` in `SolverInterface`.
* Output (`print`, messages), verbosity and memory management are left out.
* An unread output parameter holds `Unset`.

## 3. Runs

All pass runs check deadlock: every call returns, and then only stutters.

| run | bounds | question |
|---|---|---|
| `Greedy` | every graph of 3 nodes with loops and every loop-free graph of 4 nodes, weights {1,2}, bounds 0..4 (316101 states) | bookkeeping, bounds, the charging argument and half approximation, refinement of `ApproxSolver`, termination |
| `SolverCalls` | 2 nodes, lists of up to 3 entries at any position, weights -1..2, LB in {0,2}, UB in {0,1,3} | the whole call, against the caller's problem and against the contract |
| `Recursion` | 3 nodes, the triangle and a loop with all subgraphs, weights {1,2} (1 for the loop), two lists with negative entries, LB in {0,2}, UB in {1,3} | sharing of capacity, rejection in the recursion, maximality, weight, contract, refinement, termination |
| `ExactSolvers` | 3 nodes, triangle and a loop, weights {1,2}, three lists with negative ones and four with weights near each other, bounds 0..2, 10-bit int, 7-bit float | optimality up to rounding, contract, no rejection by complementing |
| `BeliefProp` | 3 nodes, the triangle and a loop with all subgraphs, weights {1,3}, a list with an edge listed twice and one with a negative weight, capacities {1,2}, 40 rounds, insurance 3 | agreement on the optimum, and in time; contract |
| `FrontEnds` | six graphs of 1 to 3 nodes, seven bounds, five methods, in every format of the graph and shape of the bounds; eight malformed inputs with ten malformed command lines; `NumNode` = 4, so that malformed input can name one node more (124369 states) | the problem meant, called, answered and reported |

Why these bounds are enough to see the interesting cases: three nodes with loops
have walks that visit a node twice, loops taken and loops cut, half-walks of both
parities and walks that end for want of capacity and for want of edges; four
nodes add cycles and several walks over the same node, and only there does the
charging argument meet a walk that crosses itself. Two distinct weights make
"heaviest" and "heavier half" matter, and equal ones exercise the ties. Three
entries are the fewest with a duplicate, an entry below the diagonal and a further
edge at once. A bound above the largest possible degree exercises the clamping. The front
ends treat every node alike, apart from the shapes of the bounds, which coincide for one
and two nodes: graphs of one, two and three nodes are all there is to tell apart, with
an isolated last node, with loops and with a negative weight.

The properties that carry most: `ChargedToWalk` is the reason for the half
approximation, as an invariant of every intermediate state (the optimum of the
remaining graph and capacities never falls by more than the walk gains);
`VisitsPayForEdges` is the reason for the degree bound; `HalfOfWhatWasAsked` and
`AnswerIsBMatching` compare the answer with the caller's problem, computed
independently of the matrices of the solver; `LevelsShareTheBounds` holds the
recursion to the outermost bounds at every level. `OptimalUpToRounding` says that
the complement, the clamping and the scaling around the library lose no more than
the rounding of the costs can hide: an answer is worse than another solution by no
more than the floor and the float may have moved the costs of the edges in which the two
differ. In the lists of `NearLists` some
weights share a cost and others are rounded apart, so the best matching is really
missed there; where costs do not collide the property is optimality. Its condition
excludes calls in which a cost leaves the range of an int, the case of
the run `GoblinOverflow`. `FindsTheOptimum` and `ConvergesWhenUnique` speak of
belief propagation where one perfect b-matching is best; the least difference of
two matchings is 1 there, 40 rounds (of the program's 10000) are more than
any of these graphs needs, and an insurance of 3 (of 20) is harder to be right with.
In exact arithmetic the message "Reached maximum iterations without converging",
which `src/README:104` reports to be frequent, is a matter of ties only, on the graphs of the run. `NormalFormIsStable` compares one
normalisation of an edge list with two, as the nested calls apply it.

Of `FrontEnds`: `SolvesWhatWasMeant` compares the arguments of the solver with the
problem that the session's files and words write down, so a shape read as
another, a stale remainder of the standard input or an option taken for a value shows;
`SolverCallIsWellFormed` is what a solver takes for granted of its arguments and does not
check. The number of bounds and the upper end of the indices are claimed after malformed
input too. The lower end is claimed when the list that was typed or passed names no
node before the first (`CountsFromFirst`), as in every session of the run; a list
that does name one goes through unchecked (section 7). `AnswerReachesTheUser` follows
the matching back through both counts, the transposes and the dense matrix; `OutcomeIsReported` compares the exit status or the
returned weight with what happened. It holds with the uninitialised `gptr` because only
calls that are not well posed meet it.

### Disagreements between the code and what is said about it

Each is a run that TLC finds violated, on one property that states the quoted text.

| run | what |
|---|---|
| `CrossedLowerBounds` | "The lower bounds are ignored by methods 3-5" (`src/README:91`): a lower bound above the upper one makes methods 3 and 4 fail |
| `FractionalBounds` | an upper bound of 0.5 lets a node have one edge: `int()` gives capacity 0, the visit makes it -1 |
| `GoblinCrossed` | "if LB>UB, then UB is set to LB" (`goblinexact.cpp:290`): the repaired bounds are computed and not passed on |
| `GoblinUpperBounds` | method 1 returns success with an upper bound exceeded, when edges removed at a node with complementary bound zero lower the degree of its neighbour, and the complementary lower bound with it |
| `GoblinOverflow` | method 1 on a single edge: the cost is `int(float(INT_MAX))`, and the edge is taken away |
| `AbsentEdges` | "Edges with zero-weight (Wij==0) are not allowed to partake in the matching" (`src/README:79`): method 5 links nodes without an edge, through cells of `W` it never writes, and prefers such a link to meeting the bounds with edges |

Seen on the way, without a run of their own:

* method 2 divides the weights by their sum before they are checked, so a list whose
  sum is negative passes the check of `src/README:79` with its signs flipped (a step of
  `ExactSolvers`);
* `ijw_2_svecvec_symm` ("create symmetric sparse matrix", `Vector.cpp:220`) leaves an
  entry given below the diagonal on one side only, which the upper triangle taken
  afterwards hides;
* repeated entries are added together by methods 1 to 4, as `bmatch_ijw.m:8` and
  `Vector.cpp` say; method 5 links the nodes at the weight listed last
  (`beliefprop.cpp:315`) and weighs the answer with the sum;
* "a negative weight indicates a failure" (`bmatch_matrix.m:44`) is true of methods 3
  and 4 only: methods 1 and 2 weigh what they answer also when they fail, and method 5
  halves the weight, -1 included, and fails always;
* the tool exits with 254 after a success and 255 after a failure, never with 0, and with 1
  for help, an unknown method and missing nodes;
* a pair of constant bounds (`bmatch.cpp:88`) is one only for graphs of more than two
  nodes, as the shapes of one bound per node are tried first; `bmatch_matrix.m` reads
  two nodes' pairs in an Nx2 matrix as 2xN. `Formats` leaves these ambiguous forms out (`ToolShapes`, `MatlabShapes`);
* `-l` without `-u` is ignored, although a negative `-u` only says where the bounds are
  read from;
* a weight matrix that cannot be read is a graph without edges, and the tool goes on with it.

## 4. Fairness

The specifications of methods 1 to 4 ask for weak fairness of their whole next-state
relation (without the final stutter) and nothing else: the program is a sequential
function without waiting, so it takes its next step. No property depends on the
fairness of a single action. `ApproxSolver` has no fairness: nothing is said of its
progress. Nor has `BeliefProp`: its loop is counted, `BTypeOK` bounds the count and
no state is a deadlock, which is its termination without a liveness check. `FrontEnds`
has no loop: every phase leads to a later one, parsing consumes words, and `Ended` is the
only step that stutters, so the absence of a deadlock says that every session ends.

## 5. Proofs

Everything in this section is proved for every number of nodes, every graph or edge list,
and all bounds and weights the hypotheses admit. The modules build on each other:

| module | proves |
|---|---|
| `BMatchingProofs` | sums over finite sets; degrees, weights and lists of edges |
| `GreedyApproxProofs` | method 3: bookkeeping and bounds, no edge twice, the half approximation, the refinement of `ApproxSolver` |
| `IjwProofs` | the conversions between edge lists and matrices |
| `BmatchSolverProofs` | a whole call of method 3, in the caller's terms |
| `RecursiveGreedyProofs` | method 4 over all levels, and its refinement of `ApproxSolver` |
| `GoblinExactProofs` | methods 1 and 2, up to the optimum |
| `BeliefPropProofs` | method 5: its types, its counted loop, its contract |
| `FrontEndsProofs` | the tool and the Matlab functions: what they call a solver with, that it is what was meant, what the user reads off, how the end is reported, the types |

### Sums and recursion without induction

The library's induction theorems take an operator and no installed prover instantiates
those. Two devices stand in. `SmallestBad` and `LeastBad` give, of a set of numbers that is
not empty, a least one: a claim about all finite sets or all places of a list is proved for
the smallest counterexample. And the folds of the community modules, on which
`SumFunctionOnSet` rests, are expanded to their `CHOOSE` of a recursive function, whose
existence (`FoldExists`) is proved the same way. So `SumRemove`, `SumUnion`, `SumImage` and
the rest hold of the operators TLC evaluates and of no copy of them. In `IjwProofs`,
`SelectionExists` does this for `Selected`, and `CountOff` counts a finite strict order
off, which is what `svecvec_2_ijw` does with its `CHOOSE` by cardinality.

### The greedy solver

Hypotheses: `NumNodeAssumption`, `InputAssumption` and `Init`.

* `TypeCorrect`, `SelfCheckHolds`, `VisitsHaveCapacity`: `TypeOK`,
  `DegreesMatchGraph` and `EdgesNeedCapacity` are invariants. None is inductive
  alone. `GraphInv` adds `RemainingInInput` (the remaining edges are input edges):
  the walk leaves by a neighbour that exists because the degree is that of the
  row, the neighbour has capacity because it keeps an edge, and the degree stays
  that of the row because both directions of an edge go together. `AtVisit`
  describes the node at a visit, with its loop cut or not; `WalkStepDegrees` is
  the case analysis of a step (loop or not, exhausted or not).
* `VisitsPay`, `BoundsRespected`: `GraphInv /\ VisitsPayForEdges` is inductive
  (`DegreeInv`). In a walk every visit of a node is followed by an edge out of it
  and preceded by an edge into it; each *half* of the walk has at most one of the
  two, the visit pays for that one, and the node at the head of the walk owes one
  unit until its visit. `DegreeBound` follows because capacity is never negative.
* `OnlyConsumesHolds`: the action property, from the same invariant.
* `EdgesAreUsedOnce`, with the strengthening `OnceInv`: `GraphInv`, and the matching and
  the walk hold input edges only. A step of the walk takes an edge that is in `Amat` and
  not after it (`WalkStepTakesEdge`); what has been used is not in `Amat`; so the edge is
  new.
* `ChosenIsBMatching`: the set of the chosen edges is a b-matching of the input graph,
  at every moment. `DegreeBound` counts occurrences in a list; without repetitions
  (`OnceDegree`) these are the degrees of the set.
* `WalkIsCharged`, `HalfReached`: `ChargedToWalk` and `HalfApproximation`. `HalfInv` is
  `OnceInv` with the charge (the best of the input is at most twice the weight of what is
  chosen, that of the walk, and the best of what remains) and `Unstartable` (at the end no
  walk can start). Of an optimal b-matching of what remains a visit takes away at most one
  edge, the one the walk leaves by or another at the same node, and none of these weighs
  more than the edge the walk leaves by (`WalkStepLoses`, `WalkStopLoses`); the heavier half
  of the walk is worth half of it (`HeavyHalfWeighs`).
* `GreedyRefines`: `Spec => ImplementsApproxSolver`, without a further hypothesis.
  `AppendHalf` is the abstract `Grow`, `Finish` the abstract `Stop`, whose guard is
  `HalfApproximation`, all else a stutter.

### A whole call

`BmatchSolverProofs` takes the theorems about the solver from an instance `GP` of their
module, with every subset of `Edge`, every positive weight and every natural bound as
inputs; the lemmas `Same...` say that the definitions of that instance are those of the
solver inside `BmatchSolver`. The invariant `CallInv` says what each stage knows: after
`RemoveEdges` the graph is the usable part of the caller's list (`Usable`: weight not zero,
both bounds positive), in the solver the bounds are clamped to its degrees and the
invariants of the solver hold, and after the return the answer is a list of usable edges
without repetitions, within the clamped bounds, of the reported weight and at least half of
the best, or the call was rejected for a reason.

* `CallTypeCorrect`, `InputIsClean`: the solver inside always gets what it relies on.
  This discharges `InputAssumption` and `Init` of the theorems above.
* `AnswersAreBMatchings`, `AnswersWithinBounds`, `WeightIsReported`, `HalfOfAsked`,
  `ContractIsKept`: what the caller gets, in terms of what the caller gave.
  `HalfOfAsked` needs `NothingIsLost`: a b-matching of the caller's problem uses no edge
  at a node of bound zero and exceeds no degree, so removing and clamping lose none.
* `NormalisingIsStable`: a list in normal form (`InNormalForm`) and its transposed
  strict upper triangle repeat no position (`BothTriangles`), so every weight is that of
  one entry, and two sorted lists of the same entries are equal (`SortedUnique`). It asks
  nothing of the bounds.

The others assume `IntegralBounds`: `DegUnit = 1` and no upper bound negative. The first is
needed: with halves `AnswersWithinBounds` is what the run `FractionalBounds` refutes. The
second is what the documents offer; the test that removes edges asks whether the bound *is*
zero (`BmatchSolver.cpp:50`), so a negative one reaches the clamping instead. The lower
bounds are any integers. The run `SolverCalls` meets the hypothesis and checks these same
properties.

### The recursion

`RecursionInv` has a part for each thing a level has to know of the others: `FramesKnown`
(each suspended level holds edges and their weight), `ChosenKnown`
(what all levels have chosen together is without repetitions, within the outermost bounds,
and once the first level is done at least half of the best), `GivenRest` (the graph of a
level holds only edges nobody has taken, with the weights of the outermost call; its bounds
are at most what is left of the outermost ones; and an edge it does *not* hold is blocked by
a node whose bound is used up), `GreedyGiven` (the nested call gets the usable part of that,
and `CallInv` holds of it), `ResultKnown` (what is returned is maximal, or is the rejection
of the outermost arguments). Without the clause on missing edges nothing follows of
maximality; without the one on capacity handed down, nothing of rejection.

* `RecursionTypeCorrect`, `LevelsShare`, `RejectionIsOutermost`,
  `MergedMatchingIsMaximal`, `MergedWeightIsReported`, `RecursionContractIsKept`: the
  properties of the run `Recursion`.
* `RecursionRefines`: `Descend` is the abstract `Grow`, a `Leave` with success the abstract
  `Stop`, all else, and a rejection, a stutter.

### The exact solvers

`ExactInv` follows the problem through the calls: `PosedKnown` (method 2 gets the caller's
problem or its complement: the same edges, and for each node what may be left out),
`ScaledKnown` (the same edges with the same weights unless one was negative, and their
sum), `GraphKnown` and `LibraryKnown` (the library gets these edges, clamped bounds and the
costs), `CallOver` (the library's choice is the cheapest, or there was none to make, or
nothing was asked of it). It was checked by TLC on the whole run `ExactSolvers`
(1272931 states) before it was proved.

* `ExactTypeCorrect`, `ExactContractIsKept`: types, and the contract of methods 1 and 2.
* `ComplementsNeverCross`: after the complement and both clampings the bounds of every
  node are in order, so method 1 is never rejected for them.
* `OptimumUpToRounding`: the library's problem has a solution if the caller's has
  (`SolutionIsFeasible`: the solution itself, or the edges it leaves out), its choice is a
  solution of the caller's problem (`FeasibleIsSolution`), the cost of an edge is its
  weight scaled but for the floor and half a unit in the last place of a float
  (`CostIsClose`), and so the cheapest choice is the best but for these errors on the
  edges in which two solutions differ (`CheapIsClose`, by `SumsApart`; `LossIs` turns it
  round for the complement). `NumberFacts` and `UlpIs` derive what they need of
  `IntBits` and `MantissaBits` from the assumption on these constants.

The hypothesis is `IntegralBounds` again. That the costs stay within an int is a premise of
the property, as the run `GoblinOverflow` shows it must be.

### Belief propagation

The inputs are any lists with integral weights, the transpose added as the callers do,
any bounds whose capacity (`NodeCap`) is in `1..NumNode-1`, and any `Junk` that
`BeliefAssumption` admits. `BeliefInv` keeps the choices of a round for the answer: `Return` takes those of the
last round, so one must have been made (`LoopKnown`), which holds as the insurance is
positive at the start.

* `BeliefTypeCorrect`: the types, with the bound on the count of rounds. That the loop is
  left follows from it together with two facts outside the theorem: each pass raises the
  count, by the definition of `Round`, and a pass can always be taken, which TLC checks
  as freedom of deadlock.
* `BeliefContractIsKept`: the contract of method 5. An answer has as many partners for
  every node as the capacity says and the weight of these, also when the limit of rounds
  has ended the search.

With this every method keeps its clause of `SolverContract` by a theorem, and the
composition of the front ends with that contract does not rest on the bounds of the runs.

### The front ends

For any number of sessions with texts of any length and any rows, any words on the
command line, any matrix, list and shape of the bounds. The hypotheses are
`SessionAssumption`, which says that these consist of numbers and that a session which
means a problem writes it down in one of the formats of module `Formats`, and
`NumNodeAssumption`, a bound on the nodes that is free.

`CallIsWellFormed` needs the numbers only; it holds of malformed input as well, where the
lower end of the indices is subject to `CountsFromFirst`. `FrontInv`
says that what is read is
rectangular or dropped (`ReadBlock`), that every list has integral indices
(`WeightsListed`, `TriuListed`), that no index reaches the number of nodes from the moment
there is one (`NumIjwNodeSuffices` for the tool, `CountedFromZero` for the mex function,
`FullMatrixBelow` across the transpose that method 5 gets), and that there are as many
bounds as nodes once there are bounds (`BoundsCounted`, `ShapedBoundsSize`), which is where
`read_degrees` changes the number of nodes and the tool stops if it falls. `LowInv`,
inductive on top of `FrontInv`, is about the lower end. The tool's texts are as they were
typed until the weights are read, so the rows of a list are lines of a text
(`ReadBlock`); the elements of a matrix and what the filters leave of them count from the first node
(`ElementsListed`, `FilteredFrom`); and so does the list after 1 has been subtracted
(`CountedFromZero`) and after the transpose has been added (`FullMatrixFrom`).

The other theorems are about sessions that mean a problem. `MeantInv`, which is
inductive together with `FrontInv`, says where the problem is at every stage, in four parts: `SideKnown` (the options and the
method), `InputKnown` (what has yet to be read), `CallKnown` (the list and the bounds of
the call), `AnswerKnown` (what the solver promised, and at the end the claims themselves).

* `ProblemReachesTheSolver`: `SolvesWhatWasMeant`. After any number of words every
  option holds the last value it was given, or its default (`OptionsKnown`,
  `OptionsRead`). A block of text is read whole and what is typed behind it is left
  (`HeldIsRead`). A matrix that is read becomes a list of the edges, whatever its lower
  triangle holds (`DenseIsMeant`, `SparseIsMeant`; `TriuIsMeant` in Matlab). Each shape of the bounds
  meets the first test that fits it, and that one is the right one (`ToolShapesRead`,
  `MatlabShapesRead`), also where an isolated last node is missing from the list and
  `read_degrees` supplies it. `InputMeant` is the matrix of method 5, with its transpose.
* `MatchingReachesTheUser`: `AnswerReachesTheUser`. What each clause of `Contract` means for the
  problem that was meant is `SolverAnswers`, with `CapacityExpected`: a
  well-posed problem meets no capacity of method 5 outside the expected ones. From there
  the matching goes through the dense matrix (`MatrixWritten`, `EitherRead`), the list
  (`ListFolded`) and the degrees (`DegOutRead`) to `ReadOffReaches`.
* `OutcomeCanBeTold`: `OutcomeIsReported`. That a well-posed problem is never lost with
  an uninitialised `gptr` is `ExactUnset`: methods 1 and 2 leave it unset in rejected calls only.
* `MeantSessionsAreTyped`: `FTypeOK` while a problem is meant (`TypedInv`). The premise
  is needed: a list that means nothing may name any number as a node.

### Only model-checked

* Liveness (`Termination`, `Returns`, `RecursionEnds`): the prover has no rule for
  fairness and `ENABLED`.
* `FindsTheOptimum` and `ConvergesWhenUnique`. They hold of the graphs, the insurance and
  the number of rounds of the run `BeliefProp` and are no theorems in general: how many
  rounds the messages need grows with the weights and as the best matching comes closer
  to the second best, and nothing in the program relates its limits to that.
* `FTypeOK` for sessions that mean nothing: their lists may name any node, and only those of
  the run stay below `NumNode`.
* The properties of the runs that expect a violation: TLC refutes them.

No module declares a `RECURSIVE` operator.

## 6. Plan

Done: the solvers, the contract between them and their callers, the front ends, the
proofs of section 5. Left, in this order:

1. Belief propagation with values for infinity and NaN in the messages.
2. `NegatedWeightsGoblinExactBmatch`, should a method number ever select it.

## 7. Not modelled

* The Goblin library: third party, and only its headers are in the tree. They are about
  15000 of the lines of `src/`, against some 4500 of the toolbox's own; there is no code in
  them whose behaviour could be modelled, and the library is an external choice in
  `GoblinExact`.
* `NegatedWeightsGoblinExactBmatch` with `scale_weight` and `scale_weight2`: no method
  number selects it, and only unreachable code in `test.cpp` makes one.
* `test.cpp`: an older copy of the command line tool that returns at line 295 before it
  calls a solver. Only the target `leaktest` of the `Makefile` compiles it, and it does not
  compile, since it reads `PP.const_b`, which `Parameter` no longer has.
* Text: the splitting of lines into numbers, the formatting of output, the limit of
  lines, what `-verbose` prints.
* Fractional and negative bounds in the front ends: the contract speaks of integral
  bounds (for fractional ones see the run `FractionalBounds`); negative ones are
  converted and clamped like any other number, and no document offers them.
* Lists with an index below the first node, 0 for the tool and 1 in Matlab: a line
  `-1 0 1` of a sparse file, or a 0 in a list passed to `bmatch_ijw`. Nothing in the code
  checks for it and no document says what it gives. The list reaches the solver as it
  is, and the conversion then indexes its rows before the first (`Vector.cpp:215`). No
  session of the run has such a list; of such a session `SolverCallIsWellFormed` and its theorem say only that
  the bounds are as many as the nodes and that no index is beyond the last node.
* A Matlab call with a graph without edges, whose list has no largest index, and the
  checks of argument classes and counts, which `bmatch_ijw.m` always satisfies.
* Belief propagation: what a selection beyond its vectors reads when it does not crash,
  overflow of the exponentials (weights above 709) and the NaN that follow from it,
  the rounding of its products.
* Rounding of double sums.
* The comparison of sparse vectors (`SparseVec::neq_svec`, `Vector.cpp:50`, calls equal
  what it has not compared) and the templates of `Vector.hpp`: no solver uses them.
* The memory of the solvers beyond `gptr`: leaks of the capacity vectors change no answer.
