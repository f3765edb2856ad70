--------------------------- MODULE MCCurationGraph ---------------------------
(* Graphs of four nodes for CurationGraph: two people and their two likes, an  *)
(* organisation among them; relationships forth, back and across.            *)
EXTENDS CurationGraph

CONSTANTS person, org, knows, works

MCNodes == 1 .. 4
MCNodeType == <<person, person, person, org>>
MCAlike == {{1, 2}, {2, 3}}
MCFlaws == [n \in MCNodes |-> IF n = 3 THEN {"qualifier_missing"} ELSE {}]
MCSchema == {<<knows, person, person>>, <<works, person, org>>}

Drawn(dks) == {Rel(dk, 1) : dk \in dks}

Scenario(nodes, dks, items, rounds, most, faults, stages, together) ==
    [graph |-> Graph(nodes, Drawn(dks)), writes |-> items, detections |-> rounds,
     packets |-> most, faults |-> faults, stages |-> stages, together |-> together]

All == {{1, 2, 3}}
Single == {{1}, {2}, {3}}

\* A node between two others, all alike, and an edge to each kind of neighbour.
Chain == {<<knows, 1, 2>>, <<works, 2, 4>>, <<knows, 3, 2>>}
\* Both directions after a merge, and an edge stored backwards.
Crossed == {<<knows, 1, 3>>, <<knows, 3, 2>>, <<works, 4, 2>>}
\* A relationship no type fits, and both directions from the start.
Twisted == {<<knows, 2, 4>>, <<knows, 2, 3>>, <<knows, 3, 2>>}
\* Two relationships no type fits, at the same node.
Stray == {<<knows, 2, 4>>, <<works, 1, 2>>}

\* One packet that may fail and be repeated; two detections in a row; two packets
\* of one detection; a job that writes in between; two copies of a relationship.
MCScenarios ==
    {Scenario(MCNodes, dks, <<>>, 1, 1, 1, All, FALSE) : dks \in {Chain, Crossed, Twisted}}
    \cup {Scenario(MCNodes, Chain, <<>>, 1, 1, 1, {{1}}, TRUE),
          Scenario(MCNodes, Stray, <<>>, 1, 1, 1, {{2}}, TRUE),
          Scenario(MCNodes, Crossed, <<>>, 2, 1, 0, {{1}}, TRUE),
          Scenario(MCNodes, Crossed, <<>>, 1, 2, 0, {{1}}, FALSE),
          Scenario(MCNodes, Chain, <<>>, 1, 2, 0, All, FALSE),
          Scenario(MCNodes, Chain, <<>>, 2, 1, 0, {{1}, {3}}, FALSE),
          Scenario(MCNodes, Twisted, <<>>, 1, 2, 0, {{2}}, FALSE),
          Scenario({1, 2}, {<<knows, 1, 2>>}, <<<<4>>, <<works, 4, 2>>, <<works, 1, 3>>>>,
                   1, 1, 1, All, FALSE),
          [Scenario({1, 3}, {<<knows, 1, 3>>}, <<>>, 1, 1, 0, All, FALSE)
              EXCEPT !.graph.rels = @ \cup {Rel(<<knows, 1, 3>>, 2)}]}
=============================================================================
