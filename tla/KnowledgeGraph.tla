--------------------------- MODULE KnowledgeGraph ---------------------------
(* The graph in Neo4j and the queries that change it: those of the           *)
(* extraction (graph/writer.py) and those of Agent-C (graph/safety.py), one   *)
(* transaction each.                                                         *)
(*                                                                           *)
(* A node is its dedupe key.  A relationship is its dedupe key, which spells  *)
(* out type, start and end, and a copy number: no query here creates a second *)
(* copy, but the graph has no constraint against one.                        *)
EXTENDS Naturals, Sequences, FiniteSets

Graph(nodes, rels) == [nodes |-> nodes, rels |-> rels]
Rel(dk, copy) == [dk |-> dk, copy |-> copy]

Type(dk) == dk[1]
Start(dk) == dk[2]
End(dk) == dk[3]
Ends(dk) == {Start(dk), End(dk)}

RelKeys(g) == {r.dk : r \in g.rels}

\* MERGE (n {_dedupe_key}): what the first write set stays.
MergeNode(g, n) == [g EXCEPT !.nodes = @ \cup {n}]

\* wrong: the ends are not asked for.
MergeRelAnyway(g, dk) ==
    IF dk \notin RelKeys(g) THEN [g EXCEPT !.rels = @ \cup {Rel(dk, 1)}] ELSE g

\* MATCH both ends, MERGE the relationship: nothing happens when an end is
\* missing or a relationship of that type is there.
MergeRel(g, dk) ==
    IF Ends(dk) \subseteq g.nodes /\ dk \notin RelKeys(g)
    THEN [g EXCEPT !.rels = @ \cup {Rel(dk, 1)}]
    ELSE g

\* DETACH DELETE: a node goes with its relationships.
DetachDelete(g, n) ==
    [nodes |-> g.nodes \ {n}, rels |-> {r \in g.rels : n \notin Ends(r.dk)}]

\* Every copy of a relationship goes.
DeleteRel(g, dk) == [g EXCEPT !.rels = {r \in @ : r.dk # dk}]

\* What Agent-C reads of an obsolete node o before it repoints: all but the
\* relationships with the survivor s.
OutRels(g, o, s) == {dk \in RelKeys(g) : Start(dk) = o /\ End(dk) # s}
InRels(g, o, s) == {dk \in RelKeys(g) : End(dk) = o /\ Start(dk) # s}

\* The dedupe key a relationship gets when it is repointed to s.
RepointOut(dk, s) == <<Type(dk), s, End(dk)>>
RepointIn(dk, s) == <<Type(dk), Start(dk), s>>

Orphans(g) == {n \in g.nodes : \A dk \in RelKeys(g) : n \notin Ends(dk)}
=============================================================================
