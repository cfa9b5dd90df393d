--------------------------- MODULE MCConfigRender ---------------------------
(* Overrides of up to three of the keys a, a.x, a.b and a.b.d, or of c and  *)
(* one of them.  An integer above 2^53 is another one as float64, and       *)
(* floats are printed with an exponent.                                    *)
EXTENDS ConfigRender

MCFloat64 == [v \in Scalars |-> IF v = "2^53+1" THEN "2^53" ELSE v]
MCSprint ==
    [v \in Scalars |-> CASE v = "nil" -> "<nil>" [] v = "list" -> "[]"
                         [] v = "2^53" -> "9e+15" [] OTHER -> v]

Leaf(v) == (<<>> :> v)
Map1(n, t) == [p \in {<<>>} \cup {<<n>> \o q : q \in DOMAIN t} |->
                IF p = <<>> THEN "named" ELSE t[Tail(p)]]
Both(s, t) == [p \in DOMAIN s \cup DOMAIN t |-> IF p \in DOMAIN s THEN s[p] ELSE t[p]]

MCValues(key) ==
    CASE key = <<"a">> -> {Leaf("2^53"), Map1("e", Leaf("2^53")),
                           Map1("b", Map1("e", Leaf("2")))}
      [] key = <<"a", "b">> -> {Leaf("1"), Map1("e", Leaf("2")), Leaf("named")}
      [] key = <<"c">> -> {Leaf("2^53+1"), Leaf("list")}
      [] OTHER -> {Leaf("nil")}
MCKeys == {<<"a">>, <<"a", "x">>, <<"a", "b">>, <<"a", "b", "d">>, <<"c">>}
MCOverrides ==
    UNION {{f \in [K -> UNION {MCValues(k) : k \in K}] : \A k \in K : f[k] \in MCValues(k)} :
           K \in {S \in SUBSET MCKeys : Cardinality(S) <= IF <<"c">> \in S THEN 2 ELSE 3}}

MCTrees == {DeepCopyMap(t) : t \in {
    Map1("c", Leaf("2^53+1")),
    Both(Map1("a", Both(Map1("b", Leaf("0")), Map1("x", Leaf("list")))),
         Map1("c", Map1("80", Leaf("nil")))),
    Both(Map1("a", Map1("b", Both(Map1("d", Leaf("0")), Map1("e", Leaf("0"))))),
         Map1("c", Map1("port", Leaf("nil")))) }}
MCTexts == {<<>>, <<[key |-> <<"a", "b">>, val |-> "0"], [key |-> <<"c">>, val |-> "1"]>>,
            <<[key |-> <<"c">>, val |-> "0"], [key |-> <<"c">>, val |-> "2"]>>}
MCFileTags == {{}, {"linux", "gpu"}}
MCTargets == {{"gpu"}, {"*", "linux"}}
=============================================================================
