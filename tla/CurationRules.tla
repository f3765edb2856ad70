--------------------------- MODULE CurationRules ---------------------------
(* The rules that make a decision about a pair of nodes out of how alike they *)
(* are: the detector of probable duplicates, the enrichment of its candidates *)
(* (dedup_pipeline.py), the structural recommendation (structural.py), the    *)
(* risk and the budget (orchestrator.py).  No state, no I/O.                  *)
EXTENDS TextSimilarity

CONSTANTS
    Window,         \* SORTED_WINDOW_SIZE
    MaxCluster      \* _MAX_CLUSTER_SIZE

(***************************************************************************)
(* ProbableDuplicateDetector.  Nodes are numbers in the order of their      *)
(* dedupe keys; value and type are functions of a node, adj gives the keys  *)
(* of its neighbours.                                                      *)
(***************************************************************************)
\* Python's order of two strings.
Less(s, t) ==
    \/ Len(s) < Len(t) /\ SubSeq(t, 1, Len(s)) = s
    \/ \E k \in 1 .. Min({Len(s), Len(t)}) :
          SubSeq(s, 1, k - 1) = SubSeq(t, 1, k - 1) /\ s[k] < t[k]

\* The position of a node in its type's list, sorted by value and key.
Rank(value, type, n) ==
    Cardinality({m \in DOMAIN value :
        /\ type[m] = type[n]
        /\ Less(value[m], value[n]) \/ (value[m] = value[n] /\ m < n)})

PairsOf(value, type) ==
    {p \in (DOMAIN value) \X (DOMAIN value) :
        /\ p[1] < p[2]
        /\ type[p[1]] = type[p[2]]
        /\ value[p[1]] # <<>> /\ value[p[2]] # <<>>}

\* Pass 1 compares a node with its neighbours in that list.
WindowPairs(value, type) ==
    {p \in PairsOf(value, type) :
        Rank(value, type, p[1]) - Rank(value, type, p[2]) \in 1 - Window .. Window - 1}

\* wrong: only the first word of a value is a bucket.
TokenPairsByFirst(value, type) ==
    {p \in PairsOf(value, type) :
        \E k \in 1 .. Min({Len(value[p[1]]), Len(value[p[2]])}) :
            /\ SubSeq(value[p[1]], 1, k) = SubSeq(value[p[2]], 1, k)
            /\ SubSeq(value[p[1]], 1, k) \in ContentTokens(value[p[1]])}

\* Pass 2 compares what shares a word.
TokenPairs(value, type) ==
    {p \in PairsOf(value, type) :
        ContentTokens(value[p[1]]) \cap ContentTokens(value[p[2]]) # {}}

\* A candidate with its collision_context.
Pair(value, adj, p, method) ==
    [type |-> "probable_duplicate", method |-> method, refs |-> {p[1], p[2]},
     values |-> {value[p[1]], value[p[2]]},
     jw |-> JaroWinkler(value[p[1]], value[p[2]]),
     tok |-> TokenOverlap(value[p[1]], value[p[2]]),
     cj |-> Jaccard(adj[p[1]], adj[p[2]])]

\* wrong: no word has to be shared in the lower band.
JWPassUngated(c) == c.jw >= 850

\* 0.90 with a word in two shared, 0.95 without.
JWPass(c) == c.jw >= 900 /\ (c.jw >= 950 \/ c.tok >= 500)

Similar(value, pairs, adj) ==
    {c \in {Pair(value, adj, p, "jaro_winkler") : p \in pairs} : JWPass(c)}

\* The fallback, for pairs the similarity did not pass and for pass 2.
Contained(value, pairs, adj) ==
    {Pair(value, adj, p, "token_containment") :
        p \in {q \in pairs : TokenContainment(value[q[1]], value[q[2]])}}

\* detect
Duplicates(value, type, adj) ==
    LET window == WindowPairs(value, type)
        similar == Similar(value, window, adj)
        rest == {p \in window : \A c \in similar : c.refs # {p[1], p[2]}}
    IN  similar \cup Contained(value, rest \cup (TokenPairs(value, type) \ window), adj)

\* detect_scoped has no second pass.
DuplicatesScoped(value, type, adj, focus) ==
    LET window == {p \in WindowPairs(value, type) : {p[1], p[2]} \cap focus # {}}
        similar == Similar(value, window, adj)
        rest == {p \in window : \A c \in similar : c.refs # {p[1], p[2]}}
    IN  similar \cup Contained(value, rest, adj)

(***************************************************************************)
(* DedupPipeline.  props gives each node its properties without those of    *)
(* the governance.                                                          *)
(***************************************************************************)
Overlap(p, q) ==
    IF DOMAIN p \cup DOMAIN q = {} THEN 0
    ELSE Thousandths(Cardinality({k \in DOMAIN p \cap DOMAIN q : p[k] = q[k]}),
                     Cardinality(DOMAIN p \cup DOMAIN q))

Conflicts(p, q) == {k \in DOMAIN p \cap DOMAIN q : p[k] # q[k]}

\* wrong: the weight of the neighbours is given away and kept.
CompositeTwice(c, po) == 65 * c.jw + 25 * c.tok + 15 * c.cj + 10 * po

\* In hundredths of a thousandth.  Without shared neighbours their weight goes
\* to the similarity.
CompositeScore(c, po) ==
    CASE c.method = "token_containment" -> 70000 + Min({15 * c.cj + 10 * po, 25000})
      [] c.method # "token_containment" /\ c.cj = 0 -> 65 * c.jw + 25 * c.tok + 10 * po
      [] OTHER -> 50 * c.jw + 25 * c.tok + 15 * c.cj + 10 * po

Band(score, conflicts) ==
    CASE score >= 80000 /\ conflicts = {} -> "high"
      [] score >= 60000 /\ (score < 80000 \/ conflicts # {}) -> "medium"
      [] OTHER -> "low"

\* What the pipeline adds to a candidate.
Scored(c, props) ==
    LET n == Min(c.refs)
        m == Max(c.refs)
        conflicts == Conflicts(props[n], props[m])
        score == CompositeScore(c, Overlap(props[n], props[m]))
    IN  [candidate |-> c, score |-> score, conflicts |-> conflicts,
         band |-> Band(score, conflicts)]

\* The nodes that pairs tie to node n.
Component(pairs, n) ==
    LET reach[k \in 0 .. Cardinality(pairs)] ==
            IF k = 0 THEN {n}
            ELSE reach[k - 1] \cup UNION {p \in pairs : p \cap reach[k - 1] # {}}
    IN  reach[Cardinality(pairs)]

\* wrong: only the pair with the conflict itself.
IncoherentPair(s, scored, type) == s.conflicts # {}

\* A cluster is incoherent when it is too large, of several types, or has a
\* conflict in one of its pairs.
Incoherent(s, scored, type) ==
    LET cluster == Component({r.candidate.refs : r \in scored}, Min(s.candidate.refs))
    IN  \/ Cardinality(cluster) > MaxCluster
        \/ Cardinality({type[n] : n \in cluster}) > 1
        \/ \E r \in scored : r.candidate.refs \subseteq cluster /\ r.conflicts # {}

\* DedupPipeline.run
Enriched(cands, props, type) ==
    LET scored == {Scored(c, props) : c \in cands}
    IN  {IF s.band = "high" /\ Incoherent(s, scored, type)
         THEN [s EXCEPT !.band = "medium"] ELSE s : s \in scored}

(***************************************************************************)
(* compute_structural_recommendation                                       *)
(***************************************************************************)
Suggest(action, confidence) == [action |-> action, confidence |-> confidence]

\* Whether the words of one value are among the words of the other.
NameContainment(values) ==
    \E s, t \in values : Tokens(s) # Tokens(t) /\ Tokens(s) \subseteq Tokens(t)

GeneralCase(c) ==
    CASE c.cj > 0 -> Suggest("merge", ((750 + Min({c.cj, 150}) + 5) \div 10) * 10)
      [] c.cj = 0 /\ c.tok >= 800 -> Suggest("merge", 650)
      [] OTHER -> Suggest("defer", 450)

BelowThreshold == Suggest("defer", 300)

\* The cases in the order in which the code tries them.
RecommendProbable(c) ==
    IF Cardinality(c.values) = 1 THEN Suggest("merge", Min({950, Max({c.jw, 900})}))
    ELSE IF c.method = "token_containment" THEN
        IF c.cj > 0 THEN Suggest("merge", 800) ELSE Suggest("defer", 550)
    ELSE IF c.jw >= 950 THEN Suggest("merge", IF c.cj > 0 THEN 900 ELSE 850)
    ELSE IF c.jw >= 900 /\ NameContainment(c.values) THEN
        IF c.cj > 0 THEN Suggest("merge", 800) ELSE Suggest("defer", 500)
    ELSE IF c.jw >= 900 THEN GeneralCase(c)
    ELSE BelowThreshold

Recommendation(c) ==
    CASE c.type = "exact_node_duplicate" -> Suggest("merge", 950)
      [] c.method = "bidirectional_rel_duplicate" -> Suggest("delete", 900)
      [] c.method = "exact_rel_dedupe_key" -> Suggest("merge", 950)
      [] c.type = "probable_duplicate" -> RecommendProbable(c)
      [] c.method = "canonical_inverse_violation" -> Suggest("normalize", 900)
      [] c.method = "canonical_direction_violation" -> Suggest("normalize", 500)
      [] c.method = "orphan_node" -> Suggest("delete", 700)
      [] c.method = "degree_outlier" -> Suggest("defer", 300)
      [] c.method = "missing_provenance" -> Suggest("normalize", 900)
      [] c.method = "qualifier_missing" -> Suggest("normalize", 800)
      [] OTHER -> Suggest("defer", 200)

(***************************************************************************)
(* Orchestrator                                                            *)
(***************************************************************************)
\* low, medium, high: 1, 2, 3.
TypeRisk(c) ==
    CASE c.type = "probable_duplicate" -> 3
      [] c.type = "structural_anomaly" -> 1
      [] OTHER -> 2

\* The worker gives no hint of a proposal class, so the type alone decides.
RiskClass(c) == TypeRisk(c)

\* 0.5, 1 and 1.5 times the base, cut to an integer.
Budget(c, base) == (base * RiskClass(c)) \div 2
=============================================================================
