--------------------------- MODULE GraphDetectors ---------------------------
(* The detectors of curation candidates that look at the shape of the graph   *)
(* (services/curation/candidates.py); which nodes have names alike enough to  *)
(* be a probable duplicate is the matter of CurationRules and a constant      *)
(* here.  No I/O: the reader's snapshot is the graph g.                      *)
EXTENDS KnowledgeGraph

CONSTANTS
    NodeType,       \* the type of each node, which its dedupe key begins with
    Alike,          \* pairs of nodes the probable duplicate detector reports
    Flaws,          \* property defects of each node, which no step here repairs
    Schema,         \* allowed relationships: <<type, start type, end type>>
    Amended         \* and those a schema amendment has added

\* Elements a candidate refers to: sequences, of length 1 for a node and of
\* length 3 for a relationship.
NodeRef(n) == <<n>>
IsNodeRef(ref) == Len(ref) = 1

Candidate(method, rels, nodes) ==
    [method |-> method, rels |-> rels, nodes |-> nodes]

Refs(c) == c.rels \cup {NodeRef(n) : n \in c.nodes}

\* ExactRelDuplicateDetector, pass 1: one key, several relationships.
ExactRelDuplicates(rels) ==
    {Candidate("exact_rel_dedupe_key", {r.dk}, {}) :
        r \in {x \in rels : \E y \in rels : x.dk = y.dk /\ x # y}}

\* Pass 2: the same type in both directions, keys of pass 1 and loops left out.
BidirectionalDuplicates(rels) ==
    LET single == {r.dk : r \in rels} \ UNION {c.rels : c \in ExactRelDuplicates(rels)}
        back(dk) == <<Type(dk), End(dk), Start(dk)>>
    IN  {Candidate("bidirectional_rel_duplicate", {dk, back(dk)}, {}) :
            dk \in {d \in single : Start(d) # End(d) /\ back(d) \in single}}

ProbableDuplicates(g, focus) ==
    {Candidate("probable_duplicate", {}, p) :
        p \in {q \in Alike : q \subseteq g.nodes /\ q \cap focus # {}}}

\* CanonicalViolationDetector: stored backwards, or between the wrong types.
CanonicalViolations(rels, allowed) ==
    LET fits(dk) == <<Type(dk), NodeType[Start(dk)], NodeType[End(dk)]>> \in allowed
        inverse(dk) == <<Type(dk), NodeType[End(dk)], NodeType[Start(dk)]>> \in allowed
    IN  {Candidate(IF inverse(dk) THEN "canonical_inverse_violation"
                   ELSE "canonical_direction_violation", {dk}, Ends(dk)) :
            dk \in {r.dk : r \in {x \in rels : ~ fits(x.dk)}}}

OrphanNodes(g) == {Candidate("orphan_node", {}, {n}) : n \in Orphans(g)}

\* Missing provenance and missing qualifiers; degree outliers are not reported.
FlawedNodes(g) ==
    UNION {{Candidate(flaw, {}, {n}) : flaw \in Flaws[n]} : n \in g.nodes}

\* An orphan that is in a duplicate candidate of the same list is left out.
WithoutCoveredOrphans(cands) ==
    LET covered == UNION {c.nodes : c \in {d \in cands : d.method = "probable_duplicate"}}
    IN  {c \in cands : ~ (c.method = "orphan_node" /\ c.nodes \subseteq covered)}

\* POST /candidates/generate: the duplicates, the relationships, the structure.
Detect(g, stages) ==
    WithoutCoveredOrphans(
        (IF 1 \in stages
         THEN ExactRelDuplicates(g.rels) \cup BidirectionalDuplicates(g.rels)
                \cup ProbableDuplicates(g, g.nodes)
         ELSE {})
        \cup (IF 2 \in stages THEN CanonicalViolations(g.rels, Schema \cup Amended) ELSE {})
        \cup (IF 3 \in stages THEN OrphanNodes(g) \cup FlawedNodes(g) ELSE {}))

\* _touches_focus
Touching(g, focus) == {r \in g.rels : Ends(r.dk) \cap focus # {}}

\* run_scoped_detection as Agent-C calls it, without the amendments.
DetectScoped(g, focus) ==
    LET rels == Touching(g, focus)
    IN  WithoutCoveredOrphans(
            ExactRelDuplicates(rels) \cup BidirectionalDuplicates(rels)
            \cup ProbableDuplicates(g, focus)
            \cup CanonicalViolations(rels, Schema)
            \cup {c \in OrphanNodes(g) \cup FlawedNodes(g) : c.nodes \cap focus # {}})
=============================================================================
