------------------------- MODULE MCCandidateReview -------------------------
(* Graphs of three nodes for CandidateReview: names that differ by a letter,  *)
(* by a word in front or behind, or by nothing, in the window or outside it.  *)
EXTENDS CandidateReview, TLC

CONSTANTS k1, k2, x, y

\* 0 is the blank; letters are numbers.
Names ==
    {<<>>,
     <<1, 1, 2, 1, 2>>,             \* one word
     <<1, 1, 2, 2, 2>>,             \* a typo in it
     <<1, 1, 2, 1, 2, 0, 3, 3>>,    \* a word behind
     <<3, 3, 0, 1, 1, 2, 1, 2>>,    \* and in front
     <<1, 3, 0, 1, 2>>,             \* two words
     <<2, 2, 1>>}

MCStopwords == {<<1, 3>>}

Third == <<1, 1, 2, 1, 3, 0, 3, 3>>

Properties == {<<>>, [p |-> x], [p |-> y], [p |-> x, q |-> y]}

Neighbours == {[n \in 1 .. 3 |-> {k1}], (1 :> {k1}) @@ (2 :> {k1, k2}) @@ (3 :> {})}

Graph(a, b, c, type, p, q, adj) ==
    [value |-> <<a, b, c>>, type |-> type, adj |-> adj,
     props |-> <<p, q, [p |-> x]>>]

OneType == <<x, x, x>>
TwoTypes == <<x, x, y>>

MCGraphs ==
    {Graph(a, b, c, type, p, q, adj) :
        a \in Names, b \in Names, c \in {Third, <<1, 1, 2, 1, 2>>}, type \in {OneType, TwoTypes},
        p \in Properties, q \in {[p |-> x]}, adj \in Neighbours}

Candidate(type, method) == [type |-> type, method |-> method]

MCOthers ==
    {Candidate("exact_rel_duplicate", "bidirectional_rel_duplicate"),
     Candidate("structural_anomaly", "orphan_node")}
=============================================================================
