----------------------------- MODULE MCFrontEnds -----------------------------
(* Small problems written down in every format and shape the documents of    *)
(* the tool and of the Matlab functions offer, and input that is malformed.  *)
EXTENDS FrontEnds

\* Graphs on at most three nodes: <<nodes, weights>>.
Weights(list) == [e \in {<<t[1], t[2]>> : t \in list} |-> (CHOOSE t \in list : <<t[1], t[2]>> = e)[3]]
Graphs ==
    { <<1, Weights({<<0, 0, 1>>})>>,
      <<2, Weights({<<0, 1, 2>>, <<1, 1, 1>>})>>,
      <<3, Weights({<<0, 1, 1>>, <<0, 2, 2>>, <<1, 2, 3>>})>>,
      <<3, Weights({<<0, 1, 1>>})>>,
      <<3, Weights({<<0, 1, 3>>, <<1, 1, 1>>, <<1, 2, 3>>, <<2, 2, 2>>})>>,
      <<3, Weights({<<0, 1, -1>>, <<0, 2, 2>>, <<2, 2, 1>>})>> }

\* Bounds of a node, the same everywhere or not, in order or crossed.
BoundPairs == {<<0, 1>>, <<0, 2>>, <<1, 2>>, <<2, 1>>}
EveryNode(p) == [x \in Node |-> p]
Mixed == {[x \in Node |-> <<0, IF x = 0 THEN 2 ELSE 1>>], [x \in Node |-> <<0, x>>],
          [x \in Node |-> <<IF x = 0 THEN 0 ELSE 1, 1>>]}
Bounds == {EveryNode(p) : p \in BoundPairs} \cup Mixed

Problems ==
    {[n |-> g[1], method |-> m, w |-> g[2],
      lb |-> [x \in Node |-> b[x][1]], ub |-> [x \in Node |-> b[x][2]]] :
        g \in Graphs, m \in 1 .. 5, b \in Bounds}

-----------------------------------------------------------------------------
\* The formats of the graph.
FullMatrix(p) ==
    [x \in 1 .. p.n |-> [y \in 1 .. p.n |->
        IF EdgeOf(x - 1, y - 1) \in DOMAIN p.w THEN p.w[EdgeOf(x - 1, y - 1)] ELSE 0]]
UpperMatrix(p) == [x \in 1 .. p.n |-> [y \in 1 .. p.n |-> IF x <= y THEN FullMatrix(p)[x][y] ELSE 0]]
EdgeList(p) == svecvec_2_ijw(p.w)
\* Every edge listed twice, with weights that add up.
SplitList(p) ==
    IF p.method = 5 THEN EdgeList(p)
    ELSE svecvec_2_ijw([e \in DOMAIN p.w |-> 1]) \o svecvec_2_ijw([e \in DOMAIN p.w |-> p.w[e] - 1])

Number(option, k) == << <<"option", option>>, <<"number", k>> >>
File(option, name) == << <<"option", option>>, <<"text", name>> >>
Blank == << <<>> >>

ToolSession(words, text, fs, p, g, b) ==
    [front |-> "tool", words |-> words, text |-> text, files |-> fs,
     mat |-> <<>>, bounds |-> <<>>, list |-> <<>>, method |-> 0, meant |-> p, graph |-> g, shape |-> b]

\* Options that change nothing: one that nobody knows, with its value, and a
\* method that a later one overrides.
Chaff == << <<"unknown">>, <<"number", 4>> >> \o Number("method", 7)

\* The graph in a file or typed in, the bounds by options, in a file or typed in.
ToolSessionsOf(p) ==
    LET chosen == Number("method", p.method)
        graphs == {<<<<>>, UpperMatrix(p)>>, <<Number("sparse", 1), EdgeList(p)>>}
        byOption ==
            IF ~ Uniform(p) THEN {}
            ELSE {Number("const_l", p.lb[0]) \o Number("const_u", p.ub[0])}
                 \cup IF NoLower(p) THEN {Number("const_u", p.ub[0])} ELSE {}
    IN  {ToolSession(Chaff \o c \o chosen, FullMatrix(p), <<>>, p, FullMatrix(p), <<>>) : c \in byOption}
        \cup {ToolSession(File("weights", "W") \o g[1] \o chosen \o c, <<>>, [f \in {"W"} |-> g[2]], p, g[2], <<>>) :
                g \in graphs, c \in byOption}
        \cup {ToolSession(chosen \o g[1], g[2] \o Blank \o b, <<>>, p, g[2], b) : g \in graphs, b \in ToolShapes(p)}
        \cup {ToolSession(File("degrees", "D") \o chosen \o Number("sparse", 1), SplitList(p),
                          [f \in {"D"} |-> b], p, SplitList(p), b) : b \in ToolShapes(p)}

\* The Matlab functions, for graphs with a positive weight.
MatlabSession(front, mat, b, g, p) ==
    [front |-> front, words |-> <<>>, text |-> <<>>, files |-> <<>>,
     mat |-> mat, bounds |-> b, list |-> FromOne(g), method |-> p.method, meant |-> p,
     graph |-> g, shape |-> b]

MatlabSessionsOf(p) ==
    {MatlabSession("bmatch_matrix", FullMatrix(p), b, <<>>, p) : b \in MatlabShapes(p)}
    \cup {MatlabSession("bmatch_ijw", <<>>, b, s, p) :
            b \in TwoRows(p), s \in {EdgeList(p), SplitList(p)}}

-----------------------------------------------------------------------------
\* What is malformed means nothing: ragged and rectangular matrices, lists that
\* are not three wide or reach below the diagonal, bounds of no known shape or
\* of too few nodes, missing files, options without a value, unknown methods.
Triangle == << <<0, 1, 1>>, <<1, 0, 1>>, <<1, 1, 0>> >>
BadTexts ==
    { <<>>, << <<0, 1, 1, 7>> >>, << <<0, 1, 1>>, <<1, 0>>, <<1, 1, 0>> >>, << <<0, 1, 1>>, <<1, 0, 1>> >>,
      << <<0, 1>>, <<1, 0>>, <<>>, <<1, 1, 1, 1>>, <<1, 1, 1, 1>> >>, Triangle \o Blank \o << <<1>>, <<2>> >>,
      Triangle \o Blank \o << <<1, 2, 1>>, <<1>> >>, << <<2, 1, 1>>, <<0, 1, 2>>, <<>>, <<1, 1>> >> }
BadWords ==
    { <<>>, Number("sparse", 1), Number("method", 3), Number("method", 0),
      << <<"option", "method">>, <<"text", "three">> >>,
      << <<"text", "W">> >> \o Number("method", 3), File("weights", "missing") \o Number("method", 4),
      << <<"help">> >>, Number("method", 3) \o << <<"option", "const_u">> >>,
      Number("const_u", 1) \o << <<"option", "method">>, <<"option", "method">>, <<"number", 3>> >> }

BadMatlab ==
    LET p == [NoProblem EXCEPT !.method = 3]
    IN  {[MatlabSession("bmatch_matrix", Triangle, b, <<>>, p) EXCEPT !.meant = NoProblem] :
            b \in {<< <<1, 1>> >>, << <<1, 1>>, <<1, 1>> >>}}
        \cup {[MatlabSession("bmatch_ijw", <<>>, b, << <<0, 2, 1>> >>, p) EXCEPT !.meant = NoProblem] :
            b \in {<< <<0, 0>>, <<1, 1>> >>, << <<0, 1>>, <<0, 1>>, <<0, 1>> >>}}
        \cup {[MatlabSession("bmatch_matrix", Triangle, << <<1>> >>, <<>>, p) EXCEPT
                 !.meant = NoProblem, !.method = 6]}

AllSessions ==
    UNION {ToolSessionsOf(p) \cup MatlabSessionsOf(p) : p \in Problems}
    \cup {ToolSession(w, t, <<>>, NoProblem, <<>>, <<>>) : w \in BadWords, t \in BadTexts}
    \cup BadMatlab
=============================================================================
