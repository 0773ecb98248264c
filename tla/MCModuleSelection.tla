------------------------- MODULE MCModuleSelection -------------------------
(* Four paths: the same module plain and compressed, a module in a          *)
(* directory named like the first, and another compressed one.             *)
EXTENDS ModuleSelection

MCPath == {"x.ko", "x.ko.xz", "x.ko/y.ko", "z.ko.gz"}
MCName == {"x", "y", "z"}
MCNameOf == [p \in MCPath |-> CASE p \in {"x.ko", "x.ko.xz"} -> "x" [] p = "x.ko/y.ko" -> "y"
                                [] OTHER -> "z"]
MCFormatOf == [p \in MCPath |-> CASE p = "x.ko.xz" -> "xz" [] p = "z.ko.gz" -> "gz" [] OTHER -> "ko"]
MCPlainOf == [p \in MCPath |-> CASE p = "x.ko.xz" -> "x.ko" [] p = "z.ko.gz" -> "z.ko" [] OTHER -> p]
MCParentsOf == [p \in MCPath \cup {"z.ko"} |-> IF p = "x.ko/y.ko" THEN {"x.ko"} ELSE {}]

Regular == [p \in MCPath |-> "regular"]
Distinct == [p \in MCPath |-> p]
Same == [p \in MCPath |-> IF p = "x.ko.xz" THEN "x.ko" ELSE p]
AllOptions == {"modules", "decompress", "xz", "gz"}

Line(p, deps) == [path |-> p, deps |-> deps]
Req(dep, builtin, nms, kind, payload, options) ==
    [trees |-> {"usr"}, dep |-> dep, builtin |-> builtin, names |-> nms, kind |-> kind, payload |-> payload,
     options |-> options]

DepLists == {<<>>} \cup {<<p>> : p \in MCPath} \cup {<<"x.ko.xz", "z.ko.gz">>, <<"z.ko.gz", "x.ko/y.ko">>}

\* Every index of up to three lines in one order of the tree with the compressed
\* module only, or with the plain and the compressed one.
Trees == {<<"x.ko.xz", "x.ko/y.ko", "z.ko.gz">>, <<"z.ko.gz", "x.ko", "x.ko.xz">>}

Graphs == UNION {{[i \in 1..n |-> Line(t[i], d[i])] : t \in Trees, d \in [1..n -> DepLists]} : n \in 0..3}

Indexed == {Req(g, <<>>, nms, Regular, Distinct, o) :
              g \in Graphs, nms \in {{"x"}, {"y", "z"}}, o \in {{"modules"}, AllOptions}}

Chain == <<Line("x.ko.xz", <<"z.ko.gz">>), Line("z.ko.gz", <<>>)>>
Pair == <<Line("z.ko.gz", <<"x.ko", "x.ko.xz">>), Line("x.ko", <<>>), Line("x.ko.xz", <<>>)>>

\* The refusals and the corners that the graphs do not reach.
Corners ==
    {Req(dep, b, nms, k, pl, o) :
       dep \in {Chain, Pair, <<Line("x.ko", <<"x.ko.xz", "x.ko.xz">>), Line("x.ko.xz", <<>>)>>,
                Chain \o Chain, Append(Chain, Line(BadPath, <<>>)),
                <<Line(BadPath, <<>>)>>, <<Line("z.ko.gz", <<BadPath>>)>>},
       b \in {<<>>, <<"x.ko">>, <<"x.ko/y.ko">>, <<"x.ko/y.ko", "x.ko/y.ko">>, <<BadPath>>},
       nms \in {{"x"}, {"z"}, {"y", "z"}},
       k \in {Regular} \cup {[Regular EXCEPT !["z.ko.gz"] = v] : v \in {"other", "huge"}},
       pl \in {Distinct, Same, [Distinct EXCEPT !["z.ko.gz"] = "corrupt"]},
       o \in {{}, {"modules"}, {"modules", "decompress", "xz"}, AllOptions}}

NoTrees == {[Req(Chain, <<>>, {"z"}, Regular, Distinct, AllOptions) EXCEPT !.trees = t] :
              t \in {{}, {"usr", "lib"}}}

MCRequest == Indexed \cup Corners \cup NoTrees
============================================================================
