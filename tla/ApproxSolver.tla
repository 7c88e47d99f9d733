---------------------------- MODULE ApproxSolver ----------------------------
(****************************************************************************)
(* What the greedy solvers promise: a b-matching of the input grows by       *)
(* adding edges, never breaks a degree bound on the way, and the solver      *)
(* stops only when the b-matching weighs at least half of the best one.      *)
(****************************************************************************)
EXTENDS BMatching

VARIABLES
    wgt,        \* the edges of the graph and their weights
    ub,         \* degree bound of every node
    matching,   \* the edges chosen so far
    done

vars == <<wgt, ub, matching, done>>

HalfOfBest == 2 * Weight(matching, wgt) >= BestWeight(DOMAIN wgt, wgt, ub)

Init ==
    /\ DOMAIN wgt \subseteq Edge
    /\ matching = {}
    /\ done = FALSE

Grow ==
    /\ ~ done
    /\ matching \subseteq matching'
    /\ IsBMatching(matching', DOMAIN wgt, ub)
    /\ UNCHANGED <<wgt, ub, done>>

Stop ==
    /\ ~ done
    /\ HalfOfBest
    /\ done' = TRUE
    /\ UNCHANGED <<wgt, ub, matching>>

Next == Grow \/ Stop

Spec == Init /\ [][Next]_vars
=============================================================================
