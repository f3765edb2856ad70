-------------------------- MODULE CandidateReview --------------------------
(* The way of one candidate from its detection to the report a proposal is    *)
(* composed from: the rules of CurationRules applied to a graph, Agent-A's    *)
(* evidence, and the retrieval rounds of Agent-B, one action per await.  What *)
(* a model answers and what the vector store returns are choices.             *)
EXTENDS CurationRules, CandidateGroups

CONSTANTS
    Graphs,         \* graphs to look at: value, type, adj and props of nodes
    Others,         \* candidates of the other detectors
    Chunks,         \* chunks of the run
    BaseBudget,     \* agent_b.max_input_tokens
    MaxRounds,      \* max_retrieval_rounds
    RoundCost,      \* _PER_ROUND_TOKEN_COST
    None            \* a missing value

ASSUME ReviewAssumption ==
    /\ BaseBudget \in Nat /\ MaxRounds \in Nat \ {0} /\ RoundCost \in Nat \ {0}
    /\ Window \in Nat \ {0} /\ MaxCluster \in Nat \ {0}

\* Nodes are numbers, their values are texts, and neighbours and properties are
\* finitely many.
ASSUME GraphsAssumption ==
    /\ None \notin Graphs
    /\ \A g \in Graphs :
          /\ IsFiniteSet(DOMAIN g.value) /\ DOMAIN g.value \subseteq Nat
          /\ \A n \in DOMAIN g.value :
                /\ g.value[n] \in Seq(Range(g.value[n]))
                /\ IsFiniteSet(g.adj[n]) /\ IsFiniteSet(DOMAIN g.props[n])

VARIABLES
    graph,      \* the graph read, until a candidate of it is taken up
    found,      \* candidates of that graph with what the pipeline adds
    review,     \* the review of one candidate
    report      \* what Agent-P will be given

vars == <<graph, found, review, report>>

Classifications == {"supporting", "corroborating", "conflicting"}

\* An EvidenceReport: its items give chunks their classification.
Report(items, sufficient, exhausted) ==
    [items |-> items, sufficient |-> sufficient, exhausted |-> exhausted]

NoItems == [k \in {} |-> None]
NoReview == [pc |-> "idle", of |-> None, items |-> NoItems, attached |-> {},
             budget |-> 0, round |-> 1, searches |-> 0]

\* _estimate_sufficiency, in thousandths.
Baseline(c) ==
    IF c.type # "probable_duplicate" THEN 0
    ELSE (CASE c.jw >= 950 -> 500
            [] c.jw >= 900 /\ c.jw < 950 -> 400
            [] c.jw >= 850 /\ c.jw < 900 -> 300
            [] OTHER -> 0)
         + Min({c.cj, 200})
         + (IF c.tok >= 500 THEN 50 ELSE 0)

Weight(class) ==
    CASE class = "supporting" -> 300
      [] class = "corroborating" -> 150
      [] class = "conflicting" -> 100

Sufficiency(c, items) ==
    Min({1000, FoldFunction(LAMBDA class, sum : sum + Weight(class), Baseline(c), items)})

Enough(c, items) == Sufficiency(c, items) >= 600

\* POST /candidates/generate, as far as a pair of nodes goes.
Generate ==
    /\ found = {}
    /\ graph # None
    /\ found' = Enriched(Duplicates(graph.value, graph.type, graph.adj),
                         graph.props, graph.type)
    /\ found' # {}
    /\ UNCHANGED <<graph, review, report>>

\* The orchestrator's decision; from here on the graph is not read again.
Orchestrate ==
    /\ review.pc = "idle"
    /\ report = None
    /\ \E c \in {s.candidate : s \in found} \cup Others :
          review' = [NoReview EXCEPT !.pc = "evidence", !.of = c,
                                     !.budget = Budget(c, BaseBudget)]
    /\ graph' = None
    /\ found' = {}
    /\ UNCHANGED report

\* Agent-A: the model's report, or the fallback when there is none.  Only an
\* insufficient one goes on to Agent-B.
AssembleEvidence ==
    /\ review.pc = "evidence"
    /\ \/ \E S \in SUBSET Chunks : \E items \in [S -> Classifications], enough \in BOOLEAN :
             IF enough
             THEN report' = Report(items, TRUE, FALSE) /\ review' = NoReview
             ELSE /\ report' = report
                  /\ review' = [review EXCEPT !.pc = "ask", !.items = items, !.attached = S]
       \/ report' = report /\ review' = [review EXCEPT !.pc = "ask"]
    /\ UNCHANGED <<graph, found>>

\* wrong: a last round in which nothing was new is enough to be exhausted.
FinishedAfterLast(r, items) ==
    /\ report' = Report(items, Enough(r.of, items), DOMAIN items = DOMAIN r.items)
    /\ review' = NoReview

\* The updated report: exhausted when no round brought a new chunk.
Finished(r, items) ==
    /\ report' = Report(items, Enough(r.of, items), DOMAIN items = r.attached)
    /\ review' = NoReview

\* wrong: the budget is not looked at before a round.
MayAskAlways(r) == r.round <= MaxRounds

MayAsk(r) == r.round <= MaxRounds /\ r.budget > 0

\* Agent-B asks the model for a query.  No answer and an empty query end it.
AskQuery ==
    /\ review.pc = "ask"
    /\ \/ Finished(review, review.items)
       \/ /\ MayAsk(review)
          /\ review' = [review EXCEPT !.pc = "search", !.searches = @ + 1]
          /\ UNCHANGED report
    /\ UNCHANGED <<graph, found>>

\* The chunks the vector store returns that are not known yet, none when it
\* fails; they count as corroborating.
Search ==
    /\ review.pc = "search"
    /\ \E fresh \in SUBSET (Chunks \ DOMAIN review.items) :
          LET items == [k \in DOMAIN review.items \cup fresh |->
                            IF k \in fresh THEN "corroborating" ELSE review.items[k]]
          IN  IF (review.round = 1 /\ fresh = {}) \/ Enough(review.of, items)
              THEN Finished(review, items)
              ELSE /\ review' = [review EXCEPT !.pc = "ask", !.items = items,
                                               !.round = @ + 1,
                                               !.budget = Max({0, @ - RoundCost})]
                   /\ UNCHANGED report
    /\ UNCHANGED <<graph, found>>

Init ==
    /\ graph \in Graphs
    /\ found = {}
    /\ review = NoReview
    /\ report = None

Next == Generate \/ Orchestrate \/ AssembleEvidence \/ AskQuery \/ Search

Spec == Init /\ [][Next]_vars

(***************************************************************************)
(* Properties                                                              *)
(***************************************************************************)
Bands == {"high", "medium", "low"}

\* Certainty in thousandths, and the score it would have.
Certainty == 1000
FullScore == 100 * Certainty

\* Every variable has its type, and scores stay in their range.
TypeOK ==
    /\ \A s \in found : /\ s.candidate.jw \in 0 .. Certainty
                        /\ s.candidate.tok \in 0 .. Certainty
                        /\ s.candidate.cj \in 0 .. Certainty
                        /\ s.score \in 0 .. FullScore
                        /\ s.band \in Bands
    /\ review.pc \in {"idle", "evidence", "ask", "search"}
    /\ review.attached \subseteq DOMAIN review.items
    /\ DOMAIN review.items \subseteq Chunks
    /\ review.budget \in 0 .. 3 * BaseBudget
    /\ review.round \in 1 .. MaxRounds + 1
    /\ report = None \/ (report.sufficient \in BOOLEAN /\ report.exhausted \in BOOLEAN)

\* "This catches "Sophia van Dijk" and "Dr. Sophia van Dijk" which sort far
\* apart": every pair of a type in which the words of one name are among those
\* of the other is a candidate, however far apart it sorts, and no pair is one
\* twice.  The scoped detection raises no candidate the full one would not.
ContainmentFound ==
    found # {} =>
        /\ \A p \in PairsOf(graph.value, graph.type) :
              TokenContainment(graph.value[p[1]], graph.value[p[2]])
                  => \E s \in found : s.candidate.refs = {p[1], p[2]}
        /\ \A r, s \in found : r.candidate.refs = s.candidate.refs => r = s
        /\ \A n \in DOMAIN graph.value :
              DuplicatesScoped(graph.value, graph.type, graph.adj, {n})
                  \subseteq {s.candidate : s \in found}

Sureness(rec) == <<rec.action = "merge", rec.confidence>>

\* Another pair with the same names is at least as much alike.
AtLeastAsAlike(d, c) == d.jw >= c.jw /\ d.tok >= c.tok /\ d.cj >= c.cj

Grid(c) ==
    {[c EXCEPT !.jw = jw, !.tok = tok, !.cj = cj] :
        jw \in {850, 900, 930, 950, 1000}, tok \in {300, 500, 800, 1000},
        cj \in {0, 10, 50, 150, 500}}

\* A candidate of the detector never comes to the branch structural.py calls
\* "shouldn't happen", and being more alike never makes the recommendation
\* weaker: a merge stays a merge, with no less confidence.
RecommendationFits ==
    \A s \in found :
        /\ Recommendation(s.candidate) # BelowThreshold
        /\ \A d \in Grid(s.candidate) :
              JWPass(d) /\ AtLeastAsAlike(d, s.candidate) =>
                  LET was == Recommendation(s.candidate)
                      is == Recommendation(d)
                  IN  /\ was.action = "merge" => is.action = "merge"
                      /\ was.action = is.action => is.confidence >= was.confidence

\* The high band is for pairs a person may wave through: it holds no pair of a
\* cluster in which any two values contradict each other.
HighBandIsCoherent ==
    \A s \in found : s.band = "high" =>
        \A r \in found :
            Component({q.candidate.refs : q \in found}, Min(s.candidate.refs))
                    \cap r.candidate.refs # {}
                => r.conflicts = {}

RefsList ==
    LET cands == {s.candidate.refs : s \in found}
    IN  CHOOSE q \in [1 .. Cardinality(cands) -> cands] : Range(q) = cands

\* The batches /agents/run forms of the candidates hold each of them once, in
\* groups that are exactly the clusters the pipeline forms by another
\* union-find, and a node is in one batch only.
BatchesAreComponents ==
    found # {} =>
        \A max \in 1 .. 2 :
            LET refs == RefsList
                batches == BatchesOf(refs, max)
                touched(k) == UNION {refs[i] : i \in batches[k]}
            IN  /\ UNION Range(batches) = DOMAIN refs
                /\ \A j, k \in DOMAIN batches : j # k => touched(j) \cap touched(k) = {}
                /\ Groups(refs) =
                      {{i \in DOMAIN refs : refs[i] \subseteq Component(Range(refs), Min(refs[k]))} :
                          k \in DOMAIN refs}
                /\ \A k \in DOMAIN batches :
                      Cardinality(batches[k]) > max => batches[k] \in Groups(refs)

\* Agent-B pays for each search before the budget of its candidate is gone: the
\* last one may overdraw it by less than one round.
SearchesArePaid ==
    review.pc # "idle" =>
        /\ review.searches <= MaxRounds
        /\ (review.searches - 1) * RoundCost < Max({1, Budget(review.of, BaseBudget)})

\* A report says exhausted only when no round of Agent-B brought a chunk that
\* Agent-A had not attached, whichever round it was.
ExhaustedMeansNothingNew ==
    [][report' # report /\ review.pc \in {"ask", "search"} =>
          (report'.exhausted <=> DOMAIN report'.items = review.attached)]_vars

(***************************************************************************)
(* Inductive invariants                                                    *)
(***************************************************************************)
\* What carries the properties of candidates: they are those of the graph, and
\* that is still at hand.
FoundInv ==
    /\ graph # None => graph \in Graphs
    /\ found # {} =>
          /\ graph # None
          /\ found = Enriched(Duplicates(graph.value, graph.type, graph.adj),
                              graph.props, graph.type)

\* What carries SearchesArePaid: a round is counted when its search is over, its
\* cost is taken off then, and a search begins with some budget left.
RoundsInv ==
    /\ {"pc", "of", "items", "attached", "budget", "round", "searches"} \subseteq DOMAIN review
    /\ review.pc \in {"evidence", "ask"} =>
          /\ review.searches = review.round - 1
          /\ review.budget =
                Max({0, Budget(review.of, BaseBudget) - review.searches * RoundCost})
    /\ review.pc = "search" =>
          /\ review.searches = review.round /\ review.round <= MaxRounds
          /\ review.budget > 0
          /\ review.budget =
                Max({0, Budget(review.of, BaseBudget) - (review.searches - 1) * RoundCost})
=============================================================================
