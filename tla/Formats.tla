------------------------------- MODULE Formats -------------------------------
(****************************************************************************)
(* What may be typed or passed to mean a problem: the formats of the graph,  *)
(* the shapes of the bounds and the options, as the help of the tool, the    *)
(* comments of read_degrees (bmatch.cpp) and the help of the Matlab          *)
(* functions describe them.  Nothing here says how any of it is read.        *)
(*                                                                           *)
(* A problem p has p.n nodes, the weights p.w of its edges, the bounds p.lb  *)
(* and p.ub of every node, and the method it is to be solved with.           *)
(****************************************************************************)
EXTENDS SolverContract, Parameter

IsProblem(p) ==
    /\ p.n \in 1 .. NumNode /\ p.method \in 1 .. 5
    /\ \A e \in DOMAIN p.w : e \in Edge /\ e[2] < p.n /\ p.w[e] \in Int \ {0}
    /\ p.lb \in [Node -> Nat] /\ p.ub \in [Node -> Nat]

WeightOf(p, e) == IF e \in DOMAIN p.w THEN p.w[e] ELSE 0

\* The last node with an edge; a list does not speak of the nodes behind it.
LastIndex(p) == Max({-1} \cup {e[2] : e \in DOMAIN p.w})

-----------------------------------------------------------------------------
\* A square matrix, whose strict lower triangle means nothing.
GraphMatrix(m, p) ==
    /\ Len(m) = p.n
    /\ \A x \in 1 .. p.n :
          /\ Len(m[x]) = p.n
          /\ \A y \in x .. p.n : m[x][y] = WeightOf(p, <<x - 1, y - 1>>)

\* A list of the edges, from the smaller end to the larger.  An edge that is
\* listed several times has the sum of the weights, negative ones only when it
\* is negative ("if duplicate weights specified, they are added", Vector.cpp;
\* belief propagation takes the last).
GraphList(s, p) ==
    /\ s \in Seq(Node \X Node \X Int)
    /\ Positions(s) = DOMAIN p.w
    /\ \A e \in DOMAIN p.w : Total(s, e) = p.w[e]
    /\ \A k \in DOMAIN s : s[k][3] < 0 => p.w[<<s[k][1], s[k][2]>>] < 0
    /\ p.method = 5 => \A k, l \in DOMAIN s : s[k][1] = s[l][1] /\ s[k][2] = s[l][2] => k = l

-----------------------------------------------------------------------------
\* The shapes of the bounds, and the problems whose bounds they can express.
Uniform(p) == \A x \in Node : x < p.n => p.lb[x] = p.lb[0] /\ p.ub[x] = p.ub[0]
NoLower(p) == \A x \in Node : x < p.n => p.lb[x] = 0
Scalar(p) == IF Uniform(p) /\ NoLower(p) THEN {<< <<p.ub[0]>> >>} ELSE {}
Column(p) == IF NoLower(p) THEN {[x \in 1 .. p.n |-> <<p.ub[x - 1]>>]} ELSE {}
Row(p) == IF NoLower(p) THEN {<<[x \in 1 .. p.n |-> p.ub[x - 1]]>>} ELSE {}
TwoColumns(p) == {[x \in 1 .. p.n |-> <<p.lb[x - 1], p.ub[x - 1]>>]}
TwoRows(p) == {<<[x \in 1 .. p.n |-> p.lb[x - 1]], [x \in 1 .. p.n |-> p.ub[x - 1]]>>}
Pairs(p) == IF Uniform(p) THEN {<< <<p.lb[0], p.ub[0]>> >>, << <<p.lb[0]>>, <<p.ub[0]>> >>} ELSE {}

\* Two numbers are no pair of bounds for a graph of one or two nodes (a row or
\* column is tried first), nor bounds of two nodes for a list that has only one.
ToolShapes(p) ==
    Scalar(p) \cup Column(p) \cup TwoColumns(p)
    \cup (IF p.n = 2 /\ LastIndex(p) <= 0 THEN {} ELSE Row(p))
    \cup (IF LastIndex(p) >= 2 THEN Pairs(p) ELSE {})

\* Nx2 is read as 2xN when N is 2.
MatlabShapes(p) ==
    Scalar(p) \cup Column(p) \cup Row(p) \cup TwoRows(p) \cup (IF p.n = 2 THEN {} ELSE TwoColumns(p))

-----------------------------------------------------------------------------
\* Words that are options and their values, by turns, known or not.
OptionPairs(words) ==
    /\ Len(words) \in Nat /\ DOMAIN words = 1 .. Len(words) /\ Len(words) % 2 = 0
    /\ \A k \in DOMAIN words :
          /\ words[k][1] = "number" => words[k][2] \in Int
          /\ k % 2 = 1 => /\ Dashed(words[k]) /\ words[k][1] # "help"
                          /\ words[k][1] = "option" => words[k][2] \in DOMAIN Cleared

\* What the words ask for: the last value counts, the defaults are those of
\* the help text.
Defaulted ==
    [weights |-> NULL, degrees |-> NULL, output |-> NULL,
     const_u |-> -1, const_l |-> -1, sparse |-> 0, method |-> 1]
Places(words, f) == {k \in DOMAIN words : k % 2 = 1 /\ words[k][1] = "option" /\ words[k][2] = f}
Asked(words, f) ==
    IF Places(words, f) = {} THEN Defaulted[f] ELSE Value(f, words[Max(Places(words, f)) + 1])

\* A text that starts with the lines of a block, up to its end or a blank line.
Holds(text, block) ==
    \/ text = block
    \/ /\ Len(block) < Len(text)
       /\ SubSeq(text, 1, Len(block)) = block
       /\ text[Len(block) + 1] = <<>>
After(text, block) == SubSeq(text, Len(block) + 2, Len(text))

\* The graph in a file or typed in, the bounds by options, in a file or typed
\* in, behind the graph when both are.
ToolWrites(s, p) ==
    LET asked(f) == Asked(s.words, f)
        Found(option, typed, block) ==
            IF option = NULL THEN Holds(typed, block)
            ELSE option[2] \in DOMAIN s.files /\ Holds(s.files[option[2]], block)
        left == IF asked("weights") = NULL THEN After(s.text, s.graph) ELSE s.text
    IN  /\ OptionPairs(s.words)
        /\ asked("method") = p.method
        /\ Found(asked("weights"), s.text, s.graph)
        /\ IF asked("sparse") = 1 THEN GraphList(s.graph, p) ELSE GraphMatrix(s.graph, p)
        /\ \/ /\ asked("const_u") >= 0
              /\ \A x \in Node : x < p.n => p.lb[x] = Max({asked("const_l"), 0}) /\ p.ub[x] = asked("const_u")
           \/ /\ asked("const_u") < 0
              /\ s.shape \in ToolShapes(p)
              /\ Found(asked("degrees"), left, s.shape)

\* Matlab counts from 1.
FromOne(s) == [k \in DOMAIN s |-> <<s[k][1] + 1, s[k][2] + 1, s[k][3]>>]

\* The Matlab functions, for a graph with an edge.
MatlabWrites(s, p) ==
    /\ s.method = p.method
    /\ DOMAIN p.w # {}
    /\ \/ s.front = "bmatch_matrix" /\ GraphMatrix(s.mat, p) /\ s.bounds \in MatlabShapes(p)
       \/ /\ s.front = "bmatch_ijw" /\ s.mat = <<>> /\ s.bounds \in TwoRows(p)
          /\ GraphList(s.graph, p) /\ s.list = FromOne(s.graph)

Writes(s, p) == IF s.front = "tool" THEN ToolWrites(s, p) ELSE MatlabWrites(s, p)
=============================================================================
