--------------------------- MODULE SolverInterface ---------------------------
(****************************************************************************)
(* AbstractBmatchSolver as its two callers use it, the command line tool and *)
(* the mex function: a solver object is made for the method, called once and *)
(* deleted.  The call itself is any that SolverContract allows.              *)
(*                                                                           *)
(* num_node never exceeds NumNode; deg_bdd_vec is a sequence of pairs        *)
(* <<lower, upper>>, ijw_vec and bmatch_edge_vec sequences of triples.       *)
(****************************************************************************)
EXTENDS SolverContract

VARIABLES
    phase,      \* where the caller is
    num_node, deg_bdd_vec, ijw_vec,
    ALG,        \* the method of the solver object, 0 when there is none
    gptr,       \* its pointer to the library object
    success, bmatch_edge_vec, bmatch_wgt

problem == <<num_node, deg_bdd_vec, ijw_vec>>
answer == <<success, bmatch_edge_vec, bmatch_wgt>>
object == <<ALG, gptr>>
ivars == <<phase, problem, object, answer>>

InterfaceInit ==
    /\ num_node = 0 /\ deg_bdd_vec = <<>> /\ ijw_vec = <<>>
    /\ ALG = 0 /\ gptr = "none"
    /\ success = 0 /\ bmatch_edge_vec = <<>> /\ bmatch_wgt = Unset

Lower == [x \in Node |-> IF x < num_node THEN deg_bdd_vec[x + 1][1] ELSE 0]
Upper == [x \in Node |-> IF x < num_node THEN deg_bdd_vec[x + 1][2] ELSE 0]

\* "use full matrix"
SolverInput(m, s) == IF m = 5 THEN ijw_add_upper_tri_transpose(s, TRUE) ELSE s

\* The constructors leave gptr as it is: "unset".
NewSolver(m, s) ==
    /\ ALG' = m
    /\ gptr' = IF m \in {1, 2} THEN "unset" ELSE "none"
    /\ ijw_vec' = SolverInput(m, s)

\* The edges a call may answer with.
Partners(n, cap) == [0 .. n - 1 -> kSubset(cap, 0 .. n - 1)]
Candidates ==
    IF ALG = 5
    THEN {{}} \cup {{e \in Node \X Node : e[1] < num_node /\ e[2] \in p[e[1]]} :
                        p \in Partners(num_node, NodeCap(num_node, ijw_vec, Upper))}
    ELSE SUBSET Usable(ijw_vec, Upper)

Results ==
    {r \in [success : {0, 1}, edges : Candidates, wgt : {Unset} \cup {WeightIn(ijw_vec, B) : B \in Candidates},
            gptr : {gptr} \cup (IF ALG \in {1, 2} THEN {"made"} ELSE {})] :
        Contract(ALG, num_node, ijw_vec, Lower, Upper, r)}

solve_bmatching_problem ==
    /\ phase = "solve"
    /\ \E r \in Results :
          /\ success' = r.success
          /\ bmatch_edge_vec' = svecvec_2_ijw([e \in r.edges |-> 1])
          /\ bmatch_wgt' = IF r.wgt = Unset THEN bmatch_wgt ELSE r.wgt
          /\ gptr' = r.gptr
    /\ phase' = "delete"
    /\ UNCHANGED <<problem, ALG>>

\* With a capacity that method 5 does not expect its selection reads beyond
\* its vectors.
ReadBeyondVectors ==
    /\ phase = "solve"
    /\ ALG = 5
    /\ ~ HasNegativeWeight(ijw_vec)
    /\ num_node > 0
    /\ ~ ExpectsCapacity(num_node, ijw_vec, Upper)
    /\ phase' = "crashed"
    /\ UNCHANGED <<problem, object, answer>>

\* The destructor of methods 1 and 2 deletes gptr, which no call may have set.
DeleteUnset ==
    /\ phase = "delete"
    /\ gptr = "unset"
    /\ phase' = "crashed"
    /\ UNCHANGED <<problem, object, answer>>

DeleteSolver ==
    /\ phase = "delete"
    /\ phase' = "output"
    /\ ALG' = 0
    /\ gptr' = "none"
    /\ UNCHANGED <<problem, answer>>

CallSolver == solve_bmatching_problem \/ ReadBeyondVectors \/ DeleteUnset \/ DeleteSolver
=============================================================================
