-------------------------- MODULE MCPackageEngine --------------------------
(* Every package of three plugins over two contracts; every package of two  *)
(* with explicit handles, doubled declarations and a third contract under   *)
(* the name of the first; releases of several packages.                     *)
EXTENDS PackageEngine

CONSTANTS a, b, a2

MCName == [c \in {a, b, a2} |-> IF c = b THEN "b" ELSE "a"]

Req(c, p, o) == [contract |-> c, provider |-> p, optional |-> o]
Needs(c) == <<Req(c, Unselected, FALSE)>>

Build(ids, phases, provides, requires) ==
    {[id |-> ids, phase |-> f, provides |-> p, requires |-> r,
      dir |-> "x", native |-> TRUE, policy |-> FALSE] :
        f \in [DOMAIN ids -> phases], p \in [DOMAIN ids -> provides],
        r \in [DOMAIN ids -> requires]}

Triples ==
    Build(<<1, 2, 3>>, Phase, {<<>>, <<a>>, <<b>>},
          {<<>>, Needs(a), Needs(b), <<Req(a, Unselected, TRUE)>>})
Pairs ==
    Build(<<1, 2>>, Phase, {<<>>, <<a>>, <<a, b>>, <<a, a>>, <<a2>>},
          {<<>>, Needs(a), <<Req(a, 1, FALSE)>>, <<Req(a, 2, TRUE)>>, <<Req(b, 3, TRUE)>>,
           <<Req(a, Unselected, TRUE), Req(b, Unselected, FALSE)>>, Needs(a) \o Needs(a)})
Twins == Build(<<1, 1>>, {"generate"}, {<<>>}, {<<>>})

\* A package whose second plugin, registered first, consumes the other's.
One(d, n, p) ==
    [id |-> <<1, 2>>, phase |-> <<"generate", "generate">>, provides |-> <<<<>>, <<a>>>>,
     requires |-> <<Needs(a), <<>>>>, dir |-> d, native |-> n, policy |-> p]
Empty(d) ==
    [id |-> <<>>, phase |-> <<>>, provides |-> <<>>, requires |-> <<>>,
     dir |-> d, native |-> TRUE, policy |-> FALSE]

Several ==
    {<<One(d, TRUE, FALSE), One(e, n, p)>> :
        d, e \in {"x", "x/s", "y"}, n, p \in BOOLEAN}
      \cup {<<One("x", FALSE, FALSE), One("x/s", TRUE, FALSE)>>,
            <<One("y", TRUE, FALSE), Empty("x")>>}

MCPackage == Triples \cup Pairs \cup Twins \cup UNION {Elements(ks) : ks \in Several}
MCRelease == {<<k1>> : k1 \in Triples \cup Pairs \cup Twins} \cup Several

MCOverlap == {<<d, d>> : d \in {"x", "x/s", "y"}} \cup {<<"x", "x/s">>, <<"x/s", "x">>}
\* s/f in x is f in x/s.
MCJoin(d, p) == IF d = "x" /\ p = "s/f" THEN <<"x/s", "f">> ELSE <<d, p>>
=============================================================================
