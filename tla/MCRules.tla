------------------------------ MODULE MCRules ------------------------------
(* Rules on small instances: one pattern of each sort the engine tells apart, and of *)
(* the requests' rules those that open or close most.                                *)
EXTENDS Rules

CONSTANTS a, b, EndsInB

MCNames == {a, b}
A == {a}
B == {b}
Both == {a, b}

MCSpanned == <<Spanning>> :> Paths
MCFinds == (EndsInB :> {p \in Paths : Last(p) = b}) @@ (Broken :> {})

Rule(type, kind, pattern) == [type |-> type, kind |-> kind, pattern |-> pattern]
BothTypes(kind, patterns) ==
    {Rule(t, kind, p) : t \in {"include", "exclude"}, p \in patterns}

MCTexts ==
    {Rule("include", "glob", <<A, Deep, Both, B>>), Rule("exclude", "glob", <<Deep, A, Deep>>)}

MCOldTexts ==
    MCTexts \cup BothTypes("regex", {EndsInB, Broken})
        \cup BothTypes("glob", {<<Deep>>, <<A, Deep>>, <<A, B>>, <<A, Deep, Both, B>>,
                                <<Deep, A, Deep>>, <<Spanning>>})

\* What was served, and whether it was overtaken, is history.
MCView == <<rules, waiting, served.count>>
=============================================================================
