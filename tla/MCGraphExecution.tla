---------------------------- MODULE MCGraphExecution ----------------------------
(* Small instances of GraphExecution: diamonds, with or without a shortcut or a *)
(* second edge between two blocks, and chains with a disabled block.             *)
EXTENDS GraphExecution

MCBlocks == {"a", "b", "c", "d"}

Edge(s, h, t) == [source |-> s, handle |-> h, target |-> t]

Kinds(a, b, c) == [x \in MCBlocks |-> CASE x = "a" -> a [] x = "b" -> b [] x = "c" -> c
                                         [] OTHER -> "compute"]

Diamond(h1, h2, h3) ==
  <<Edge("a", h1, "b"), Edge("a", h2, "c"), Edge("b", h3, "d"), Edge("c", NoHandle, "d")>>

\* Between the edges of the diamond, a third edge that leaves a.
Extras == {<<>>, <<Edge("a", NoHandle, "d")>>, <<Edge("a", "error", "b")>>}

Diamonds ==
  {[blocks |-> l[1], kind |-> Kinds("compute", l[2], l[3]), enabled |-> MCBlocks,
    edges |-> x \o Diamond(h[1], h[2], h[3])] :
     l \in {<<<<"a", "b", "c", "d">>, "wait", "compute">>,
            <<<<"d", "c", "a", "b">>, "compute", "wait">>,
            <<<<"d", "c", "a", "b">>, "wait", "wait">>},
     h \in {NoHandle, "true", "error"} \X {"true", "success", "error"} \X {NoHandle, "true"},
     x \in Extras}

Chains ==
  {[blocks |-> <<"c", "a", "b", "d">>, kind |-> Kinds("trigger", "compute", k),
    enabled |-> MCBlocks \ off,
    edges |-> <<Edge("a", NoHandle, "b"), Edge("b", h, "c"), Edge("c", NoHandle, "d"),
                Edge("b", "true", "d"), Edge("b", i, "d")>>] :
     k \in {"compute", "wait"}, off \in {{}, {"c"}}, h \in {"false", DefaultHandle},
     i \in {"success", "error"}}

MCGraphs == Diamonds \cup Chains

MCOutputs == {Plain, [branch |-> "none", result |-> "true"], [branch |-> "success", result |-> "false"]}
===============================================================================
