------------------------ MODULE CurationGraphProofs ------------------------
(* Theorems about CurationGraph, for every set of nodes and of types of       *)
(* relationships, every schema, graph and sequence of detections, packets and *)
(* faults: the types, what a merge that fails and is repeated keeps, what the *)
(* detection after a merge finds, and what an applied packet has put right.   *)
EXTENDS CurationGraph, CandidateGroupsProofs

(***************************************************************************)
(* Elements and sequences of them                                          *)
(***************************************************************************)
LEMMA DKShape ==
    ASSUME NEW dk \in DKs
    PROVE  /\ dk = <<Type(dk), Start(dk), End(dk)>>
           /\ Type(dk) \in RelTypes /\ Start(dk) \in Nodes /\ End(dk) \in Nodes
           /\ ~ IsNodeRef(dk)
<1>1. PICK t \in RelTypes, a \in Nodes, b \in Nodes : dk = <<t, a, b>>
  BY DEF DKs
<1>2. Len(dk) = 3
  BY <1>1
<1>3. QED
  BY <1>1, <1>2 DEF Type, Start, End, IsNodeRef

LEMMA MakeDK ==
    ASSUME NEW t \in RelTypes, NEW a \in Nodes, NEW b \in Nodes
    PROVE  <<t, a, b>> \in DKs
BY DEF DKs

\* The key of a relationship is nobody's.
LEMMA Names ==
    ASSUME NEW e \in Elements
    PROVE  /\ Named(e) \in Nodes \cup {Nobody}
           /\ IsNodeRef(e) => Named(e) \in Nodes /\ e = NodeRef(Named(e))
           /\ ~ IsNodeRef(e) => Named(e) = Nobody /\ e \in DKs
<1>1. CASE e \in DKs
  BY <1>1, DKShape DEF Named
<1>2. CASE \E n \in Nodes : e = NodeRef(n)
  BY <1>2 DEF Named, NodeRef, IsNodeRef
<1>3. QED
  BY <1>1, <1>2 DEF Elements

LEMMA NodeRefIsElement ==
    ASSUME NEW n \in Nodes
    PROVE  NodeRef(n) \in Elements /\ IsNodeRef(NodeRef(n)) /\ Named(NodeRef(n)) = n
BY DEF Elements, NodeRef, IsNodeRef, Named

LEMMA DifferentNodes ==
    ASSUME NEW m, NEW n, NodeRef(m) = NodeRef(n)
    PROVE  m = n
BY DEF NodeRef

LEMMA NobodyIsNoNode == Nobody \notin Nodes /\ Nodes \subseteq Nat
BY GraphAssumption DEF Nobody

(***************************************************************************)
(* Finite sets                                                             *)
(***************************************************************************)
LEMMA FiniteDKs == IsFiniteSet(DKs)
<1> DEFINE f == [dk \in DKs |-> <<Type(dk), <<Start(dk), End(dk)>>>>]
           T == RelTypes \X (Nodes \X Nodes)
<1>1. IsFiniteSet(Nodes \X Nodes)
  BY GraphAssumption, FS_Product
<1>2. IsFiniteSet(T)
  BY <1>1, GraphAssumption, FS_Product
<1>3. f \in [DKs -> T]
  BY DKShape
<1>4. ASSUME NEW a \in DKs, NEW b \in DKs, f[a] = f[b] PROVE a = b
  BY <1>4, DKShape
<1>5. f \in Injection(DKs, T)
  BY <1>3, <1>4 DEF Injection, IsInjective
<1>6. QED
  BY <1>2, <1>5, FS_Injection

LEMMA FiniteMethods == IsFiniteSet(Methods)
<1> DEFINE A == {"exact_rel_dedupe_key", "bidirectional_rel_duplicate"}
           B == {"probable_duplicate", "canonical_inverse_violation"}
           C == {"canonical_direction_violation", "orphan_node"}
           D == {"missing_provenance_node", "qualifier_missing"}
<1>1. \A x, y : IsFiniteSet({x, y})
  <2>1. ASSUME NEW x, NEW y PROVE IsFiniteSet({x, y})
    <3>1. IsFiniteSet({x}) /\ IsFiniteSet({y})
      BY FS_Singleton
    <3>2. IsFiniteSet({x} \cup {y})
      BY <3>1, FS_Union
    <3>3. {x, y} = {x} \cup {y}
      OBVIOUS
    <3>4. QED
      BY <3>2, <3>3
  <2>2. QED
    BY <2>1
<1>2. IsFiniteSet(A) /\ IsFiniteSet(B) /\ IsFiniteSet(C) /\ IsFiniteSet(D)
  BY <1>1
<1> HIDE DEF A, B, C, D
<1>3. IsFiniteSet(A \cup B) /\ IsFiniteSet(C \cup D)
  BY <1>2, FS_Union
<1>4. IsFiniteSet((A \cup B) \cup (C \cup D))
  BY <1>3, FS_Union
<1>5. Methods = (A \cup B) \cup (C \cup D)
  BY DEF Methods, A, B, C, D
<1>6. QED
  BY <1>4, <1>5

LEMMA FiniteCandidates == IsFiniteSet(Candidates)
<1> DEFINE f == [c \in Candidates |-> <<c.method, <<c.rels, c.nodes>>>>]
           T == Methods \X ((SUBSET DKs) \X (SUBSET Nodes))
<1>1. IsFiniteSet(SUBSET DKs) /\ IsFiniteSet(SUBSET Nodes)
  BY GraphAssumption, FiniteDKs, FS_SUBSET
<1>2. IsFiniteSet((SUBSET DKs) \X (SUBSET Nodes))
  BY <1>1, FS_Product
<1>3. IsFiniteSet(T)
  BY <1>2, FiniteMethods, FS_Product
<1>4. f \in [Candidates -> T]
  BY DEF Candidates
<1>5. ASSUME NEW a \in Candidates, NEW b \in Candidates, f[a] = f[b] PROVE a = b
  BY <1>5 DEF Candidates
<1>6. f \in Injection(Candidates, T)
  BY <1>4, <1>5 DEF Injection, IsInjective
<1>7. QED
  BY <1>3, <1>6, FS_Injection

\* Listed enumerates a finite set.
LEMMA ListedIsSequence ==
    ASSUME NEW S, IsFiniteSet(S)
    PROVE  /\ Listed(S) \in Seq(S)
           /\ DOMAIN Listed(S) = 1 .. Cardinality(S) /\ Len(Listed(S)) = Cardinality(S)
           /\ Range(Listed(S)) = S
<1>1. Cardinality(S) \in Nat /\ ExistsBijection(1 .. Cardinality(S), S)
  BY FS_CardinalityType
<1>2. PICK q \in [1 .. Cardinality(S) -> S] : \A t \in S : \E k \in 1 .. Cardinality(S) : q[k] = t
  BY <1>1 DEF ExistsBijection, Bijection, Surjection
<1>3. Range(q) = S
  BY <1>2 DEF Range
<1>4. Listed(S) \in [1 .. Cardinality(S) -> S] /\ Range(Listed(S)) = S
  BY <1>2, <1>3 DEF Listed
<1>5. QED
  BY <1>1, <1>4

\* In a finite set of numbers each rank is that of one number.
LEMMA RanksAreTaken ==
    ASSUME NEW S \in SUBSET Nat, IsFiniteSet(S), NEW i \in 1 .. Cardinality(S)
    PROVE  \E n \in S : Cardinality({m \in S : m <= n}) = i
<1> DEFINE below(n) == {m \in S : m <= n}
           f == [n \in S |-> Cardinality(below(n))]
           T == 1 .. Cardinality(S)
<1>1. Cardinality(S) \in Nat
  BY FS_CardinalityType
<1>2. ASSUME NEW n \in S
      PROVE  IsFiniteSet(below(n)) /\ Cardinality(below(n)) \in T
  <2>1. below(n) \in SUBSET S
    OBVIOUS
  <2>2. IsFiniteSet(below(n)) /\ Cardinality(below(n)) <= Cardinality(S)
    BY <2>1, FS_Subset
  <2>3. below(n) # {}
    BY <1>2
  <2>4. Cardinality(below(n)) \in Nat /\ Cardinality(below(n)) # 0
    BY <2>2, <2>3, FS_EmptySet, FS_CardinalityType
  <2>5. QED
    BY <2>2, <2>4, <1>1
<1>3. ASSUME NEW m \in S, NEW n \in S, m < n PROVE f[m] # f[n]
  <2>1. m \in Nat /\ n \in Nat /\ \A k \in S : k \in Nat
    OBVIOUS
  <2>2. n \in below(n) /\ n \notin below(m)
    BY <1>3, <2>1
  <2>3. below(m) \in SUBSET below(n)
    <3>1. \A k \in S : k <= m => k <= n
      BY <1>3, <2>1
    <3>2. QED
      BY <3>1
  <2>4. Cardinality(below(m)) # Cardinality(below(n))
    BY <2>2, <2>3, <1>2, FS_Subset
  <2>5. QED
    BY <2>4
<1>4. SUFFICES ASSUME \A n \in S : f[n] # i PROVE FALSE
  OBVIOUS
<1>5. f \in [S -> T \ {i}]
  BY <1>2, <1>4
<1>6. IsFiniteSet(T) /\ Cardinality(T) = Cardinality(S)
  BY <1>1, FS_Interval
<1>7. IsFiniteSet(T \ {i}) /\ Cardinality(T \ {i}) < Cardinality(S)
  <2>1. i \in T
    OBVIOUS
  <2> HIDE DEF T
  <2>2. IsFiniteSet(T \ {i}) /\ Cardinality(T \ {i}) = Cardinality(T) - 1
    BY <1>6, <2>1, FS_RemoveElement
  <2>3. QED
    BY <1>1, <1>6, <2>2
<1> HIDE DEF f, T
<1>8. PICK x \in S, y \in S : x # y /\ f[x] = f[y]
  BY <1>5, <1>7, FS_PigeonHole
<1>9. x < y \/ y < x
  BY <1>8
<1>10. QED
  BY <1>3, <1>8, <1>9

\* sorted() of a set of nodes: its nodes, each once.
LEMMA NodeRefsOfSet ==
    ASSUME NEW S \in SUBSET Nodes
    PROVE  /\ NodeRefs(S) \in Seq(Elements) /\ DOMAIN NodeRefs(S) = 1 .. Cardinality(S)
           /\ \A k \in DOMAIN NodeRefs(S) : \E n \in S : NodeRefs(S)[k] = NodeRef(n)
           /\ \A j, k \in DOMAIN NodeRefs(S) : NodeRefs(S)[j] = NodeRefs(S)[k] => j = k
<1>1. IsFiniteSet(S) /\ Cardinality(S) \in Nat /\ S \in SUBSET Nat
  BY GraphAssumption, FS_Subset, FS_CardinalityType
<1>2. ASSUME NEW i \in 1 .. Cardinality(S)
      PROVE  Sorted(S)[i] \in S /\ Cardinality({m \in S : m <= Sorted(S)[i]}) = i
  <2>1. \E n \in S : Cardinality({m \in S : m <= n}) = i
    BY <1>1, RanksAreTaken
  <2>2. Sorted(S)[i] = CHOOSE n \in S : Cardinality({m \in S : m <= n}) = i
    BY DEF Sorted
  <2>3. QED
    BY <2>1, <2>2
<1>3. /\ DOMAIN NodeRefs(S) = 1 .. Cardinality(S)
      /\ \A k \in 1 .. Cardinality(S) : NodeRefs(S)[k] = NodeRef(Sorted(S)[k])
  BY DEF NodeRefs
<1>4. NodeRefs(S) \in [1 .. Cardinality(S) -> Elements]
  <2>1. \A k \in 1 .. Cardinality(S) : NodeRef(Sorted(S)[k]) \in Elements
    BY <1>2, NodeRefIsElement
  <2>2. QED
    BY <2>1 DEF NodeRefs
<1>5. ASSUME NEW j \in 1 .. Cardinality(S), NEW k \in 1 .. Cardinality(S),
             NodeRefs(S)[j] = NodeRefs(S)[k]
      PROVE  j = k
  BY <1>2, <1>3, <1>5, DifferentNodes
<1>6. NodeRefs(S) \in Seq(Elements)
  BY <1>1, <1>4
<1>7. QED
  BY <1>2, <1>3, <1>5, <1>6

(***************************************************************************)
(* The queries of the graph                                                *)
(***************************************************************************)
LEMMA GraphShape ==
    ASSUME NEW g \in Graphs
    PROVE  /\ g.nodes \subseteq Nodes /\ RelKeys(g) \subseteq DKs
           /\ \A r \in g.rels : r.dk \in DKs /\ r.dk \in RelKeys(g) /\ r.copy \in 1 .. 2
BY DEF Graphs, RelKeys

LEMMA WholeKeys ==
    ASSUME NEW g \in Graphs, Whole(g), NEW dk \in RelKeys(g)
    PROVE  dk \in DKs /\ Start(dk) \in g.nodes /\ End(dk) \in g.nodes
BY GraphShape DEF Whole, RelKeys, Ends

LEMMA NodeMerged ==
    ASSUME NEW g \in Graphs, Whole(g), NEW n \in Nodes
    PROVE  /\ MergeNode(g, n) \in Graphs /\ Whole(MergeNode(g, n))
           /\ MergeNode(g, n).nodes = g.nodes \cup {n}
           /\ RelKeys(MergeNode(g, n)) = RelKeys(g)
BY DEF Graphs, Whole, MergeNode, RelKeys

\* MERGE of a relationship: both ends have to be there.
LEMMA RelMerged ==
    ASSUME NEW g \in Graphs, Whole(g), NEW dk, Ends(dk) \subseteq g.nodes => dk \in DKs
    PROVE  /\ MergeRel(g, dk) \in Graphs /\ Whole(MergeRel(g, dk))
           /\ MergeRel(g, dk).nodes = g.nodes
           /\ RelKeys(g) \subseteq RelKeys(MergeRel(g, dk))
           /\ RelKeys(MergeRel(g, dk)) \subseteq RelKeys(g) \cup {dk}
           /\ Ends(dk) \subseteq g.nodes => dk \in RelKeys(MergeRel(g, dk))
<1>1. CASE Ends(dk) \subseteq g.nodes /\ dk \notin RelKeys(g)
  <2>1. MergeRel(g, dk) = [g EXCEPT !.rels = @ \cup {Rel(dk, 1)}]
    BY <1>1 DEF MergeRel
  <2>2. MergeRel(g, dk).nodes = g.nodes /\ MergeRel(g, dk).rels = g.rels \cup {Rel(dk, 1)}
    BY <2>1 DEF Graphs
  <2>3. Rel(dk, 1) \in [dk : DKs, copy : 1 .. 2] /\ Rel(dk, 1).dk = dk
    BY <1>1 DEF Rel
  <2>4. MergeRel(g, dk) \in Graphs
    BY <2>1, <2>3 DEF Graphs
  <2>5. Whole(MergeRel(g, dk))
    BY <1>1, <2>2, <2>3 DEF Whole
  <2>6. RelKeys(MergeRel(g, dk)) = RelKeys(g) \cup {dk}
    BY <2>2, <2>3 DEF RelKeys
  <2>7. QED
    BY <2>2, <2>4, <2>5, <2>6
<1>2. CASE ~ (Ends(dk) \subseteq g.nodes /\ dk \notin RelKeys(g))
  BY <1>2 DEF MergeRel
<1>3. QED
  BY <1>1, <1>2

LEMMA NodeDetached ==
    ASSUME NEW g \in Graphs, Whole(g), NEW n
    PROVE  /\ DetachDelete(g, n) \in Graphs /\ Whole(DetachDelete(g, n))
           /\ DetachDelete(g, n).nodes = g.nodes \ {n}
           /\ RelKeys(DetachDelete(g, n)) = {dk \in RelKeys(g) : n \notin Ends(dk)}
BY DEF Graphs, Whole, DetachDelete, RelKeys

LEMMA RelDeleted ==
    ASSUME NEW g \in Graphs, Whole(g), NEW dk
    PROVE  /\ DeleteRel(g, dk) \in Graphs /\ Whole(DeleteRel(g, dk))
           /\ DeleteRel(g, dk).nodes = g.nodes
           /\ RelKeys(DeleteRel(g, dk)) = RelKeys(g) \ {dk}
BY DEF Graphs, Whole, DeleteRel, RelKeys

(***************************************************************************)
(* Detection                                                               *)
(***************************************************************************)
\* Candidates whose nodes are in the graph.
Sighted(g) == {c \in Candidates : c.nodes \subseteq g.nodes}

LEMMA OneRelationship ==
    ASSUME NEW g \in Graphs, NEW dk \in DKs, NEW m \in Methods, NEW nodes \in SUBSET g.nodes
    PROVE  Candidate(m, {dk}, nodes) \in Sighted(g)
<1> DEFINE c == Candidate(m, {dk}, nodes)
<1>1. c \in [method : Methods, rels : SUBSET DKs, nodes : SUBSET Nodes] /\ c.rels = {dk}
      /\ c.nodes = nodes
  BY GraphShape DEF Candidate
<1> HIDE DEF c
<1>2. Cardinality(c.rels) = 1
  BY <1>1, FS_Singleton
<1>3. c.rels # {}
  BY <1>1
<1>4. QED
  BY <1>1, <1>2, <1>3 DEF Sighted, Candidates, c

LEMMA OnlyNodes ==
    ASSUME NEW g \in Graphs, NEW nodes \in SUBSET g.nodes,
           NEW m \in Methods \ {"canonical_inverse_violation", "canonical_direction_violation"}
    PROVE  Candidate(m, {}, nodes) \in Sighted(g)
<1> DEFINE c == Candidate(m, {}, nodes)
<1>1. /\ c \in [method : Methods, rels : SUBSET DKs, nodes : SUBSET Nodes]
      /\ c.rels = {} /\ c.nodes = nodes /\ c.method = m
  BY GraphShape DEF Candidate
<1> HIDE DEF c
<1>2. Cardinality(c.rels) = 0
  BY <1>1, FS_EmptySet
<1>3. ~ Canonical(c)
  BY <1>1 DEF Canonical
<1>4. QED
  BY <1>1, <1>2, <1>3 DEF Sighted, Candidates, c

LEMMA ExactAreCandidates ==
    ASSUME NEW g \in Graphs
    PROVE  ExactRelDuplicates(g.rels) \subseteq Sighted(g)
<1> DEFINE m == "exact_rel_dedupe_key"
<1>1. m \in Methods
  BY DEF Methods
<1>2. ASSUME NEW r \in g.rels PROVE Candidate(m, {r.dk}, {}) \in Sighted(g)
  BY <1>1, GraphShape, OneRelationship
<1>3. QED
  BY <1>2 DEF ExactRelDuplicates

LEMMA BothWaysAreCandidates ==
    ASSUME NEW g \in Graphs
    PROVE  BidirectionalDuplicates(g.rels) \subseteq Sighted(g)
<1> DEFINE m == "bidirectional_rel_duplicate"
           back(dk) == <<Type(dk), End(dk), Start(dk)>>
<1>1. ASSUME NEW c \in BidirectionalDuplicates(g.rels)
      PROVE  \E dk \in DKs : /\ Start(dk) # End(dk) /\ back(dk) \in DKs
                             /\ c = Candidate(m, {dk, back(dk)}, {})
  <2>1. \A r \in g.rels : r.dk \in DKs
    BY GraphShape
  <2>2. QED
    BY <1>1, <2>1 DEF BidirectionalDuplicates
<1>2. ASSUME NEW dk \in DKs, Start(dk) # End(dk), back(dk) \in DKs
      PROVE  Candidate(m, {dk, back(dk)}, {}) \in Sighted(g)
  <2> DEFINE c == Candidate(m, {dk, back(dk)}, {})
  <2>1. c \in [method : Methods, rels : SUBSET DKs, nodes : SUBSET Nodes]
    BY <1>2 DEF Candidate, Methods
  <2>2. c.rels = {dk, back(dk)} /\ c.nodes = {} /\ c.method = m
    BY DEF Candidate
  <2>3. Start(back(dk)) = End(dk) /\ End(back(dk)) = Start(dk)
    BY DEF Start, End
  <2>4. Start(dk) \in Nat /\ End(dk) \in Nat
    BY DKShape, NobodyIsNoNode
  <2>5. Start(dk) < End(dk) \/ Start(back(dk)) < End(back(dk))
    BY <1>2, <2>3, <2>4
  <2> HIDE DEF back
  <2>6. \E d \in c.rels : Start(d) < End(d)
    BY <2>2, <2>5
  <2>7. c.rels # {} /\ c.nodes \subseteq g.nodes
    BY <2>2
  <2> HIDE DEF c
  <2>8. QED
    BY <2>1, <2>6, <2>7 DEF Sighted, Candidates, c
<1>3. QED
  BY <1>1, <1>2

LEMMA ProbableAreCandidates ==
    ASSUME NEW g \in Graphs, NEW focus
    PROVE  ProbableDuplicates(g, focus) \subseteq Sighted(g)
<1> DEFINE m == "probable_duplicate"
<1>1. m \in Methods \ {"canonical_inverse_violation", "canonical_direction_violation"}
  BY DEF Methods
<1>2. ASSUME NEW nodes \in SUBSET g.nodes PROVE Candidate(m, {}, nodes) \in Sighted(g)
  BY <1>1, OnlyNodes
<1>3. QED
  BY <1>2 DEF ProbableDuplicates

LEMMA CanonicalAreCandidates ==
    ASSUME NEW g \in Graphs, Whole(g), NEW allowed
    PROVE  CanonicalViolations(g.rels, allowed) \subseteq Sighted(g)
<1>1. ASSUME NEW c \in CanonicalViolations(g.rels, allowed)
      PROVE  \E r \in g.rels, m \in {"canonical_inverse_violation", "canonical_direction_violation"} :
                c = Candidate(m, {r.dk}, Ends(r.dk))
  BY <1>1 DEF CanonicalViolations
<1>2. ASSUME NEW r \in g.rels,
             NEW m \in {"canonical_inverse_violation", "canonical_direction_violation"}
      PROVE  Candidate(m, {r.dk}, Ends(r.dk)) \in Sighted(g)
  <2>1. m \in Methods /\ r.dk \in DKs /\ Ends(r.dk) \in SUBSET g.nodes
    BY GraphShape DEF Methods, Whole
  <2>2. QED
    BY <2>1, OneRelationship
<1>3. QED
  BY <1>1, <1>2

LEMMA StructureCandidates ==
    ASSUME NEW g \in Graphs
    PROVE  OrphanNodes(g) \cup FlawedNodes(g) \subseteq Sighted(g)
<1>1. ASSUME NEW n \in g.nodes,
             NEW m \in {"orphan_node", "missing_provenance_node", "qualifier_missing"}
      PROVE  Candidate(m, {}, {n}) \in Sighted(g)
  <2>1. m \in Methods \ {"canonical_inverse_violation", "canonical_direction_violation"}
    BY DEF Methods
  <2>2. {n} \in SUBSET g.nodes
    OBVIOUS
  <2>3. QED
    BY <2>1, <2>2, OnlyNodes
<1>2. OrphanNodes(g) \subseteq Sighted(g)
  BY <1>1 DEF OrphanNodes, Orphans
<1>3. \A n \in g.nodes : Flaws[n] \subseteq {"missing_provenance_node", "qualifier_missing"}
  BY GraphShape, GraphAssumption
<1>4. FlawedNodes(g) \subseteq Sighted(g)
  BY <1>1, <1>3 DEF FlawedNodes
<1>5. QED
  BY <1>2, <1>4

\* What a detection finds is well formed and made of nodes that are there.
LEMMA DetectSights ==
    ASSUME NEW g \in Graphs, Whole(g), NEW stages
    PROVE  Detect(g, stages) \subseteq Sighted(g)
BY ExactAreCandidates, BothWaysAreCandidates, ProbableAreCandidates, CanonicalAreCandidates,
   StructureCandidates DEF Detect, WithoutCoveredOrphans

(***************************************************************************)
(* Packets                                                                 *)
(***************************************************************************)
LEMMA SeqOfMore ==
    ASSUME NEW S, NEW T, S \subseteq T, NEW q \in Seq(S)
    PROVE  q \in Seq(T)
OBVIOUS

\* Behind the first of several there is another, and nothing new.
LEMMA LongerTail ==
    ASSUME NEW S, NEW q \in Seq(S), Len(q) >= 2
    PROVE  /\ Tail(q) \in Seq(S) /\ Tail(q) # <<>>
           /\ Len(Tail(q)) = Len(q) - 1
           /\ \A k \in DOMAIN Tail(q) : k + 1 \in DOMAIN q /\ k + 1 # 1 /\ Tail(q)[k] = q[k + 1]
           /\ Range(Tail(q)) \subseteq Range(q)
<1>1. Tail(q) \in Seq(S) /\ Len(Tail(q)) = Len(q) - 1
  OBVIOUS
<1>2. ASSUME NEW k \in DOMAIN Tail(q)
      PROVE  k + 1 \in DOMAIN q /\ k + 1 # 1 /\ Tail(q)[k] = q[k + 1]
  BY <1>1
<1>3. Range(Tail(q)) \subseteq Range(q)
  BY <1>2 DEF Range
<1>4. Tail(q) # <<>>
  <2>1. Len(Tail(q)) # 0
    BY <1>1
  <2>2. \A t : t = <<>> => Len(t) = 0
    OBVIOUS
  <2>3. QED
    BY <2>1, <2>2
<1>5. QED
  BY <1>1, <1>2, <1>3, <1>4

LEMMA NothingListed == Listed({}) = <<>>
<1>1. IsFiniteSet({}) /\ Cardinality({}) = 0
  BY FS_EmptySet
<1>2. Listed({}) \in Seq({}) /\ Len(Listed({})) = 0
  BY <1>1, ListedIsSequence
<1>3. QED
  BY <1>2

LEMMA ClustersAreFound ==
    ASSUME NEW cands \in SUBSET Candidates, NEW cluster \in Clusters(cands)
    PROVE  cluster \subseteq cands
<1>1. CASE ~ left.together
  BY <1>1 DEF Clusters
<1>2. CASE left.together
  <2> DEFINE list == Listed(cands)
             refs == [i \in DOMAIN list |-> Refs(list[i])]
  <2>1. IsFiniteSet(cands)
    BY FiniteCandidates, FS_Subset
  <2>2. list \in Seq(cands)
    BY <2>1, ListedIsSequence
  <2>3. cluster \in {{list[i] : i \in g} : g \in Groups(refs)}
    BY <1>2 DEF Clusters
  <2>4. PICK g \in Groups(refs) : cluster = {list[i] : i \in g}
    BY <2>3
  <2> HIDE DEF list
  <2>5. g \subseteq DOMAIN list
    BY <2>4 DEF Groups, Positions
  <2>6. \A i \in DOMAIN list : list[i] \in cands
    BY <2>2
  <2>7. QED
    BY <2>4, <2>5, <2>6
<1>3. QED
  BY <1>1, <1>2

LEMMA ElementSets ==
    ASSUME NEW cluster \in SUBSET Candidates
    PROVE  /\ UNION {c.nodes : c \in cluster} \in SUBSET Nodes
           /\ UNION {c.rels : c \in cluster} \in SUBSET DKs
           /\ IsFiniteSet(UNION {c.rels : c \in cluster})
<1>1. UNION {c.nodes : c \in cluster} \in SUBSET Nodes /\ UNION {c.rels : c \in cluster} \in SUBSET DKs
  BY DEF Candidates
<1>2. QED
  BY <1>1, FiniteDKs, FS_Subset

LEMMA RelsInOrder ==
    ASSUME NEW c \in Candidates
    PROVE  RelsOf(c) \in Seq(DKs)
<1>1. c.rels \in SUBSET DKs /\ IsFiniteSet(c.rels)
  BY FiniteDKs, FS_Subset DEF Candidates
<1>2. CASE Cardinality(c.rels) < 2
  BY <1>1, <1>2, ListedIsSequence, SeqOfMore DEF RelsOf
<1>3. CASE ~ Cardinality(c.rels) < 2
  <2> DEFINE dk == CHOOSE d \in c.rels : Start(d) < End(d)
  <2>1. \E d \in c.rels : Start(d) < End(d)
    BY <1>3 DEF Candidates
  <2>2. dk \in DKs
    BY <1>1, <2>1
  <2>3. RelsOf(c) = <<dk, <<Type(dk), End(dk), Start(dk)>>>>
    BY <1>3 DEF RelsOf
  <2> HIDE DEF dk
  <2>4. <<Type(dk), End(dk), Start(dk)>> \in DKs
    BY <2>2, DKShape, MakeDK
  <2>5. QED
    BY <2>2, <2>3, <2>4
<1>4. QED
  BY <1>2, <1>3

\* The targets Compose chooses from.
TargetsFor(cluster) ==
    IF Cardinality(cluster) = 1 THEN TargetsOf(CHOOSE c \in cluster : TRUE)
    ELSE ClusterTargets(cluster)

\* The keys of a packet of nodes are the nodes of its cluster.
LEMMA TargetsAreElements ==
    ASSUME NEW cluster \in SUBSET Candidates, NEW targets \in TargetsFor(cluster)
    PROVE  /\ targets.rels \in Seq(DKs) /\ targets.keys \in Seq(Elements)
           /\ (Cardinality(cluster) > 1 => \A c \in cluster : c.rels = {}) =>
                 \E S \in SUBSET UNION {c.nodes : c \in cluster} :
                    S \in SUBSET Nodes /\ targets.keys = NodeRefs(S)
<1>1. IsFiniteSet(cluster)
  BY FiniteCandidates, FS_Subset
<1>2. CASE Cardinality(cluster) = 1
  <2>1. PICK x : cluster = {x}
    BY <1>1, <1>2, FS_Singleton
  <2> DEFINE c == CHOOSE y \in cluster : TRUE
  <2>2. c \in cluster
    BY <2>1
  <2>3. targets = [rels |-> RelsOf(c), keys |-> NodeRefs(c.nodes)]
    BY <1>2 DEF TargetsFor, TargetsOf
  <2> HIDE DEF c
  <2>4. c \in Candidates /\ c.nodes \in SUBSET Nodes
    BY <2>2 DEF Candidates
  <2>5. targets.rels \in Seq(DKs) /\ targets.keys \in Seq(Elements)
    BY <2>3, <2>4, RelsInOrder, NodeRefsOfSet
  <2>6. c.nodes \in SUBSET UNION {y.nodes : y \in cluster}
    BY <2>2
  <2>7. QED
    BY <2>3, <2>4, <2>5, <2>6
<1>3. CASE Cardinality(cluster) # 1
  <2> DEFINE nodes == UNION {c.nodes : c \in cluster}
             rels == UNION {c.rels : c \in cluster}
  <2>1. nodes \in SUBSET Nodes /\ rels \in SUBSET DKs /\ IsFiniteSet(rels)
    BY ElementSets
  <2>2. /\ targets.rels = <<>>
        /\ targets.keys \in {NodeRefs(nodes) \o Listed(rels), Listed(rels) \o NodeRefs(nodes)}
    <3>1. targets \in ClusterTargets(cluster)
      BY <1>3 DEF TargetsFor
    <3>2. PICK keys \in {NodeRefs(nodes) \o Listed(rels), Listed(rels) \o NodeRefs(nodes)} :
                targets = [rels |-> <<>>, keys |-> keys]
      BY <3>1 DEF ClusterTargets
    <3> HIDE DEF nodes, rels
    <3>3. QED
      BY <3>2
  <2>3. (\A c \in cluster : c.rels = {}) => rels = {}
    OBVIOUS
  <2>4. Cardinality(cluster) > 1 \/ cluster = {}
    <3>1. Cardinality(cluster) \in Nat /\ (Cardinality(cluster) = 0 => cluster = {})
      BY <1>1, FS_CardinalityType, FS_EmptySet
    <3>2. QED
      BY <1>3, <3>1
  <2>5. nodes \in SUBSET UNION {y.nodes : y \in cluster}
    OBVIOUS
  <2> HIDE DEF nodes, rels
  <2>6. NodeRefs(nodes) \in Seq(Elements)
    BY <2>1, NodeRefsOfSet
  <2>7. Listed(rels) \in Seq(Elements)
    BY <2>1, ListedIsSequence, SeqOfMore DEF Elements
  <2>8. targets.rels \in Seq(DKs) /\ targets.keys \in Seq(Elements)
    <3>1. NodeRefs(nodes) \o Listed(rels) \in Seq(Elements) /\ Listed(rels) \o NodeRefs(nodes) \in Seq(Elements)
      BY <2>6, <2>7
    <3>2. <<>> \in Seq(DKs)
      OBVIOUS
    <3>3. QED
      BY <2>2, <3>1, <3>2
  <2>9. rels = {} => targets.keys = NodeRefs(nodes)
    BY <2>2, <2>6, NothingListed
  <2>10. QED
    BY <2>1, <2>3, <2>4, <2>5, <2>8, <2>9
<1>4. QED
  BY <1>2, <1>3

\* The relationship a normalisation creates is a relationship.
LEMMA NewIsARelationship ==
    ASSUME NEW cluster \in SUBSET Candidates, NEW class, NEW type \in TargetTypes(cluster, class)
    PROVE  type = None \/ Retyped(CHOOSE c \in cluster : TRUE, type) \in DKs
<1> DEFINE c == CHOOSE x \in cluster : TRUE
           dk == CHOOSE d \in c.rels : TRUE
<1>1. SUFFICES ASSUME type # None PROVE Retyped(c, type) \in DKs
  OBVIOUS
<1>2. Cardinality(cluster) = 1 /\ Canonical(c) /\ type \in RelTypes
  BY <1>1 DEF TargetTypes
<1>3. IsFiniteSet(cluster)
  BY FiniteCandidates, FS_Subset
<1>4. PICK x : cluster = {x}
  BY <1>2, <1>3, FS_Singleton
<1>5. c \in Candidates
  BY <1>4
<1> HIDE DEF c
<1>6. c.rels # {} /\ c.rels \subseteq DKs
  BY <1>2, <1>5 DEF Candidates
<1>7. dk \in DKs
  BY <1>6
<1>8. Retyped(c, type) \in {<<type, End(dk), Start(dk)>>, <<type, Start(dk), End(dk)>>}
  BY DEF Retyped
<1> HIDE DEF dk
<1>9. QED
  BY <1>2, <1>7, <1>8, DKShape, MakeDK

LEMMA PacketIsTyped ==
    ASSUME NEW cluster \in SUBSET Candidates, NEW class \in Classes,
           NEW targets \in TargetsFor(cluster), NEW type \in TargetTypes(cluster, class),
           NEW p, p = Packet(cluster, class, targets, type)
    PROVE  /\ PacketTyped(p) /\ p.of = cluster /\ p.class = class /\ p.gen = left.detections
           /\ OfNodes(p) /\ p.keys # <<>> => Named(p.keys[1]) \in UNION {c.nodes : c \in cluster}
<1>1. /\ p.of = cluster /\ p.class = class /\ p.gen = left.detections
      /\ p.rels = targets.rels /\ p.keys = targets.keys
      /\ p.new = IF type = None THEN None ELSE Retyped(CHOOSE c \in cluster : TRUE, type)
  BY DEF Packet
<1>2. p.new \in DKs \cup {None}
  BY <1>1, NewIsARelationship
<1>3. /\ p.rels \in Seq(DKs) /\ p.keys \in Seq(Elements)
      /\ OfNodes(p) => \E S \in SUBSET UNION {c.nodes : c \in cluster} :
            S \in SUBSET Nodes /\ p.keys = NodeRefs(S)
  BY <1>1, TargetsAreElements DEF OfNodes
<1>4. ASSUME OfNodes(p)
      PROVE  /\ \A k \in DOMAIN p.keys : IsNodeRef(p.keys[k])
             /\ \A j, k \in DOMAIN p.keys : p.keys[j] = p.keys[k] => j = k
             /\ p.keys # <<>> => Named(p.keys[1]) \in UNION {c.nodes : c \in cluster}
  <2>1. PICK S \in SUBSET UNION {c.nodes : c \in cluster} :
              S \in SUBSET Nodes /\ p.keys = NodeRefs(S)
    BY <1>3, <1>4
  <2>2. /\ \A k \in DOMAIN p.keys : \E n \in S : p.keys[k] = NodeRef(n)
        /\ \A j, k \in DOMAIN p.keys : p.keys[j] = p.keys[k] => j = k
    BY <2>1, NodeRefsOfSet
  <2>3. ASSUME NEW k \in DOMAIN p.keys PROVE IsNodeRef(p.keys[k]) /\ Named(p.keys[k]) \in S
    BY <2>1, <2>2, NodeRefIsElement
  <2>4. p.keys # <<>> => 1 \in DOMAIN p.keys
    BY <1>3
  <2>5. QED
    BY <2>1, <2>2, <2>3, <2>4
<1>5. QED
  BY <1>1, <1>2, <1>3, <1>4 DEF PacketTyped

(***************************************************************************)
(* The diff                                                                *)
(***************************************************************************)
Ops == {"create_edge", "delete_edge", "update_edge", "update_node", "delete_node", "merge_nodes"}

\* What a step of the diff of packet p is.
StepOf(p, s) ==
    /\ s.op = "create_edge" => s.refs[1] \in DKs
    /\ s.op = "delete_node" => p.class = "delete" /\ s.refs[1] \in Range(p.keys)
    /\ s.op = "merge_nodes" => p.class = "merge" /\ s.refs = p.keys /\ Len(p.keys) >= 2

DiffSteps(p) == {s \in [op : Ops, refs : Seq(Elements)] : StepOf(p, s)}

LEMMA EachIsSteps ==
    ASSUME NEW p, NEW op \in Ops, NEW refs \in Seq(Elements),
           \A k \in DOMAIN refs : StepOf(p, Step(op, <<refs[k]>>))
    PROVE  Each(op, refs) \in Seq(DiffSteps(p))
<1>1. \A k \in DOMAIN refs : Step(op, <<refs[k]>>) \in DiffSteps(p)
  BY DEF DiffSteps, Step
<1>2. DOMAIN refs = 1 .. Len(refs) /\ Len(refs) \in Nat
  OBVIOUS
<1>3. Each(op, refs) \in [1 .. Len(refs) -> DiffSteps(p)]
  BY <1>1, <1>2 DEF Each
<1>4. QED
  BY <1>2, <1>3

LEMMA StepsAreTyped ==
    ASSUME NEW p, PacketTyped(p)
    PROVE  Steps(p) \in Seq(DiffSteps(p))
<1>1. p.rels \in Seq(Elements) /\ p.keys \in Seq(Elements)
  BY SeqOfMore DEF PacketTyped, Elements
<1>2. ASSUME NEW op \in {"delete_edge", "update_edge", "update_node"}, NEW refs \in Seq(Elements)
      PROVE  Each(op, refs) \in Seq(DiffSteps(p))
  BY EachIsSteps DEF Ops, StepOf, Step
<1>3. MergeSteps(p) \in Seq(DiffSteps(p)) \/ p.class # "merge"
  <2>1. CASE p.rels # <<>> /\ p.keys = <<>>
    <3>1. Tail(p.rels) \in Seq(Elements)
      BY <1>1, <2>1
    <3>2. MergeSteps(p) = Each("delete_edge", Tail(p.rels))
      BY <2>1 DEF MergeSteps
    <3>3. QED
      BY <1>2, <3>1, <3>2
  <2>2. CASE ~ (p.rels # <<>> /\ p.keys = <<>>) /\ Len(p.keys) >= 2 /\ p.class = "merge"
    <3>1. Step("merge_nodes", p.keys) \in DiffSteps(p)
      BY <1>1, <2>2 DEF DiffSteps, StepOf, Step, Ops
    <3>2. MergeSteps(p) = <<Step("merge_nodes", p.keys)>>
      BY <2>2 DEF MergeSteps
    <3>3. QED
      BY <3>1, <3>2
  <2>3. CASE ~ (p.rels # <<>> /\ p.keys = <<>>) /\ ~ Len(p.keys) >= 2
    BY <2>3 DEF MergeSteps
  <2>4. QED
    BY <2>1, <2>2, <2>3
<1>4. p.new # None => RetypeSteps(p) \in Seq(DiffSteps(p))
  <2>1. ASSUME p.new # None
        PROVE  Step("delete_edge", p.rels) \in DiffSteps(p) /\ Step("create_edge", <<p.new>>) \in DiffSteps(p)
    BY <1>1, <2>1 DEF DiffSteps, StepOf, Step, Ops, PacketTyped, Elements
  <2>2. QED
    BY <2>1 DEF RetypeSteps
<1>5. p.class = "delete" => Each("delete_node", p.keys) \in Seq(DiffSteps(p))
  <2>1. \A k \in DOMAIN p.keys : p.keys[k] \in Range(p.keys)
    BY DEF Range
  <2>2. p.class = "delete" => \A k \in DOMAIN p.keys : StepOf(p, Step("delete_node", <<p.keys[k]>>))
    BY <2>1 DEF StepOf, Step
  <2>3. QED
    BY <1>1, <2>2, EachIsSteps DEF Ops
<1>6. /\ Each("delete_edge", p.rels) \in Seq(DiffSteps(p))
      /\ Each("update_edge", p.rels) \in Seq(DiffSteps(p))
      /\ Each("update_node", p.keys) \in Seq(DiffSteps(p))
  BY <1>1, <1>2
<1>7. QED
  <2>1. \A a, b \in Seq(DiffSteps(p)) : a \o b \in Seq(DiffSteps(p))
    OBVIOUS
  <2>2. <<>> \in Seq(DiffSteps(p))
    OBVIOUS
  <2>3. QED
    BY <1>3, <1>4, <1>5, <1>6, <2>1, <2>2 DEF Steps

(***************************************************************************)
(* The types                                                               *)
(***************************************************************************)
Wide == RelTypes \X (Nodes \cup {Nobody}) \X (Nodes \cup {Nobody})

\* The parts of TypeInv: the graph with its history, the bounds with the dates
\* of the packets, and what Agent-C is doing.
DataOk ==
    /\ graph \in Graphs /\ Whole(graph)
    /\ seen \subseteq Nodes /\ known \subseteq Wide
    /\ into \in [Nodes -> Nodes \cup {Nobody}] /\ deleted \subseteq Nodes \cup {Nobody}

BooksOk ==
    /\ DOMAIN left = {"detections", "packets", "faults", "stages", "together"}
    /\ Dated
    /\ \A p \in packets \cup begun : PacketTyped(p)

WorkOk ==
    /\ DOMAIN work = {"pc", "packet", "steps", "i", "obsolete", "out", "in", "affected", "before"}
    /\ Merging /\ Busy
    /\ work.pc \in {"idle", "step", "read", "repoint", "scoped"}
    /\ work.i \in 1 .. Len(work.steps) + 1
    /\ work.out \subseteq DKs /\ work.in \subseteq DKs

ListsOk == writes \in Seq(Elements) /\ found \subseteq Candidates

LEMMA Parts ==
    ASSUME TypeInv
    PROVE  DataOk /\ BooksOk /\ WorkOk /\ ListsOk
BY DEF TypeInv, TypeOK, DataOk, BooksOk, WorkOk, ListsOk, Shaped, Whole, Wide

LEMMA Assembled ==
    ASSUME DataOk', BooksOk', WorkOk', ListsOk'
    PROVE  TypeInv'
<1>1. (\A r \in graph.rels : r.dk \in DKs /\ r.copy \in 1 .. 2)' /\ (graph.nodes \subseteq Nodes)'
  BY DEF DataOk, Graphs
<1>2. QED
  BY <1>1 DEF TypeInv, TypeOK, DataOk, BooksOk, WorkOk, ListsOk, Shaped, Whole, Wide

LEMMA DKsAreWide == DKs \subseteq Wide
BY DEF DKs, Wide

\* A transaction takes nothing of the bounds but a fault.
LEMMA BooksStay ==
    ASSUME BooksOk, Works \/ Fails, UNCHANGED <<packets, begun, applied>>
    PROVE  BooksOk' /\ left'.detections = left.detections
<1>1. DOMAIN left' = DOMAIN left /\ left'.detections = left.detections
  BY DEF BooksOk, Works, Fails
<1>2. QED
  BY <1>1 DEF BooksOk, Dated

LEMMA DataStays ==
    ASSUME DataOk, UNCHANGED <<graph, seen, known, into, deleted>>
    PROVE  DataOk'
BY DEF DataOk

LEMMA IdleIsOk ==
    ASSUME work' = Idle
    PROVE  WorkOk'
<1>1. /\ work'.pc = "idle" /\ work'.steps = <<>> /\ work'.i = 1
      /\ work'.out = {} /\ work'.in = {}
      /\ DOMAIN work' = {"pc", "packet", "steps", "i", "obsolete", "out", "in", "affected", "before"}
  BY DEF Idle
<1>2. Len(work'.steps) = 0
  BY <1>1
<1>3. Busy' /\ Merging'
  BY <1>1 DEF Busy, Merging, Idle
<1>4. QED
  BY <1>1, <1>2, <1>3 DEF WorkOk

LEMMA WorkStays ==
    ASSUME WorkOk, work' = work, begun \subseteq begun',
           packets \subseteq packets' \/ work = Idle
    PROVE  WorkOk'
BY DEF WorkOk, Merging, Busy, Idle, Current

\* What Agent-C knows while it is applying a packet.
LEMMA CurrentStep ==
    ASSUME TypeInv, work.pc \in {"step", "read", "repoint"}
    PROVE  /\ work.packet \in begun \cap packets /\ PacketTyped(work.packet)
           /\ work.steps \in Seq(DiffSteps(work.packet)) /\ Len(work.steps) \in Nat
           /\ work.i \in Nat /\ work.i >= 1
           /\ work.i <= Len(work.steps) => Current \in DiffSteps(work.packet)
<1>1. work # Idle
  BY DEF Idle
<1>2. work.packet \in begun \cap packets /\ work.steps = Steps(work.packet)
  BY <1>1 DEF TypeInv, Busy
<1>3. PacketTyped(work.packet)
  BY <1>2 DEF TypeInv
<1>4. work.steps \in Seq(DiffSteps(work.packet))
  BY <1>2, <1>3, StepsAreTyped
<1>5. Len(work.steps) \in Nat
  BY <1>4
<1>6. work.i \in 1 .. Len(work.steps) + 1
  BY DEF TypeInv, TypeOK
<1>7. work.i \in Nat /\ work.i >= 1
  BY <1>5, <1>6
<1>8. work.i <= Len(work.steps) => Current \in DiffSteps(work.packet)
  BY <1>4, <1>5, <1>7 DEF Current
<1>9. QED
  BY <1>2, <1>3, <1>4, <1>5, <1>7, <1>8

\* On to the next step.
LEMMA NextIsOk ==
    ASSUME TypeInv, work.pc \in {"step", "repoint"}, work.i <= Len(work.steps),
           \/ work' = NextStep(work)
           \/ work' = [NextStep(work) EXCEPT !.obsolete = <<>>],
           UNCHANGED <<packets, begun>>
    PROVE  WorkOk'
<1>1. WorkOk
  BY Parts
<1>2. /\ DOMAIN work' = DOMAIN work /\ work'.pc = "step" /\ work'.i = work.i + 1
      /\ work'.packet = work.packet /\ work'.steps = work.steps
      /\ work'.out = work.out /\ work'.in = work.in
  BY <1>1 DEF WorkOk, NextStep
<1>3. work'.i \in 1 .. Len(work'.steps) + 1
  BY <1>2, CurrentStep
<1>4. Busy'
  BY <1>2, CurrentStep DEF Busy, TypeInv, Idle
<1>5. Merging'
  BY <1>2 DEF Merging
<1>6. QED
  BY <1>1, <1>2, <1>3, <1>4, <1>5 DEF WorkOk

\* The merge a step is about, while nodes are collapsed.
LEMMA CurrentMerge ==
    ASSUME TypeInv, work.pc \in {"read", "repoint"}
    PROVE  /\ work.i <= Len(work.steps) /\ Current \in DiffSteps(work.packet)
           /\ work.packet.class = "merge" /\ Current.refs = work.packet.keys
           /\ work.packet.keys \in Seq(Elements) /\ Len(work.packet.keys) >= 2
           /\ Survivor = Named(work.packet.keys[1]) /\ Survivor \in Nodes \cup {Nobody}
           /\ work.obsolete \in Seq(Elements) /\ Len(work.obsolete) \in Nat \ {0}
           /\ Obsolete \in Nodes \cup {Nobody}
           /\ Head(work.obsolete) \in Range(Tail(work.packet.keys))
<1>1. /\ work.i <= Len(work.steps) /\ Current.op = "merge_nodes"
      /\ work.obsolete \in Seq(Elements) /\ work.obsolete # <<>>
      /\ Range(work.obsolete) \subseteq Range(Tail(work.packet.keys))
  BY DEF TypeInv, Merging
<1>2. Current \in DiffSteps(work.packet) /\ PacketTyped(work.packet)
  BY <1>1, CurrentStep
<1>3. /\ work.packet.class = "merge" /\ Current.refs = work.packet.keys
      /\ Len(work.packet.keys) >= 2
  BY <1>1, <1>2 DEF DiffSteps, StepOf
<1>4. work.packet.keys \in Seq(Elements)
  BY <1>2 DEF PacketTyped
<1>5. work.packet.keys[1] \in Elements
  BY <1>3, <1>4
<1>6. Len(work.obsolete) \in Nat \ {0} /\ Head(work.obsolete) = work.obsolete[1] /\ 1 \in DOMAIN work.obsolete
  BY <1>1
<1>7. Head(work.obsolete) \in Elements /\ Head(work.obsolete) \in Range(work.obsolete)
  BY <1>1, <1>6 DEF Range
<1>8. QED
  BY <1>1, <1>2, <1>3, <1>4, <1>5, <1>6, <1>7, Names DEF Survivor, Obsolete

(***************************************************************************)
(* Each action keeps the types                                             *)
(***************************************************************************)
LEMMA WriteItemTypes ==
    ASSUME TypeInv, WriteItem
    PROVE  TypeInv'
<1>1. DataOk /\ BooksOk /\ WorkOk /\ ListsOk
  BY Parts
<1>2. BooksOk' /\ WorkOk'
  <2>1. Works \/ Fails
    BY DEF WriteItem
  <2>2. QED
    BY <1>1, <2>1, BooksStay, WorkStays DEF WriteItem
<1>3. ListsOk'
  <2>1. Tail(writes) \in Seq(Elements) /\ <<>> \in Seq(Elements)
    BY <1>1 DEF ListsOk, WriteItem
  <2>2. QED
    BY <1>1, <2>1 DEF ListsOk, WriteItem
<1>4. DataOk'
  <2>1. CASE UNCHANGED <<graph, seen, known>>
    BY <1>1, <2>1, DataStays DEF WriteItem
  <2>2. CASE /\ graph' = Item(Head(writes))
             /\ seen' = seen \cup graph'.nodes
             /\ known' = known \cup (RelKeys(graph') \ RelKeys(graph))
    <3> DEFINE e == Head(writes)
    <3>1. e \in Elements
      BY <1>1 DEF ListsOk, WriteItem
    <3> HIDE DEF e
    <3>2. graph' \in Graphs /\ Whole(graph')
      <4>1. CASE IsNodeRef(e)
        <5>1. graph' = MergeNode(graph, Named(e)) /\ Named(e) \in Nodes
          BY <2>2, <3>1, <4>1, Names DEF Item, Named, e
        <5>2. QED
          BY <1>1, <5>1, NodeMerged DEF DataOk
      <4>2. CASE ~ IsNodeRef(e)
        <5>1. graph' = MergeRel(graph, e) /\ e \in DKs
          BY <2>2, <3>1, <4>2, Names DEF Item, e
        <5>2. QED
          BY <1>1, <5>1, RelMerged DEF DataOk
      <4>3. QED
        BY <4>1, <4>2
    <3>3. graph'.nodes \subseteq Nodes /\ RelKeys(graph') \subseteq DKs
      BY <3>2, GraphShape
    <3>4. QED
      BY <1>1, <2>2, <3>2, <3>3, DKsAreWide DEF DataOk, WriteItem
  <2>3. QED
    BY <2>1, <2>2 DEF WriteItem
<1>5. QED
  BY <1>2, <1>3, <1>4, Assembled

LEMMA GenerateTypes ==
    ASSUME TypeInv, Generate
    PROVE  TypeInv'
<1>1. DataOk /\ BooksOk /\ WorkOk /\ ListsOk
  BY Parts
<1>2. DataOk' /\ WorkOk'
  BY <1>1, DataStays, WorkStays DEF Generate, history
<1>3. ListsOk'
  BY <1>1, DetectSights DEF ListsOk, Generate, DataOk, Sighted
<1>4. left'.detections = left.detections - 1 /\ DOMAIN left' = DOMAIN left
  BY <1>1 DEF Generate, BooksOk
<1>5. BooksOk'
  <2>1. left.detections \in Nat /\ left.detections > 0 /\ packets' = {} /\ begun' = begun /\ applied' = applied
    BY <1>1 DEF BooksOk, Dated, Generate, history
  <2>2. ASSUME NEW p \in begun
        PROVE  p.gen \in Nat /\ p.gen > left.detections - 1
    BY <1>1, <2>1 DEF BooksOk, Dated
  <2>3. left.detections - 1 \in Nat
    BY <2>1
  <2>4. QED
    BY <1>1, <1>4, <2>1, <2>2, <2>3 DEF BooksOk, Dated
<1>6. QED
  BY <1>2, <1>3, <1>5, Assembled

\* The packet Compose adds.
LEMMA ComposedPacket ==
    ASSUME TypeInv, Compose
    PROVE  \E p : /\ packets' = packets \cup {p} /\ PacketTyped(p)
                  /\ p.of \subseteq found /\ p.gen = left.detections
                  /\ \A q \in packets \cup applied : q.of # p.of
                  /\ OfNodes(p) /\ p.keys # <<>> =>
                        Named(p.keys[1]) \in UNION {c.nodes : c \in p.of}
<1>1. PICK cluster \in Clusters(found), class \in Classes :
            /\ \A p \in packets \cup applied : p.of # cluster
            /\ \E targets \in TargetsFor(cluster), type \in TargetTypes(cluster, class) :
                  packets' = packets \cup {Packet(cluster, class, targets, type)}
  BY DEF Compose, TargetsFor
<1>2. found \in SUBSET Candidates
  BY DEF TypeInv
<1>3. cluster \in SUBSET found /\ cluster \in SUBSET Candidates
  BY <1>2, ClustersAreFound
<1>4. PICK targets \in TargetsFor(cluster), type \in TargetTypes(cluster, class) :
            packets' = packets \cup {Packet(cluster, class, targets, type)}
  BY <1>1
<1> DEFINE p == Packet(cluster, class, targets, type)
<1>5. /\ PacketTyped(p) /\ p.of = cluster /\ p.class = class /\ p.gen = left.detections
      /\ OfNodes(p) /\ p.keys # <<>> => Named(p.keys[1]) \in UNION {c.nodes : c \in cluster}
  BY <1>3, PacketIsTyped
<1> HIDE DEF p
<1>6. packets' = packets \cup {p}
  BY <1>4 DEF p
<1>7. QED
  BY <1>1, <1>3, <1>5, <1>6

LEMMA ComposeTypes ==
    ASSUME TypeInv, Compose
    PROVE  TypeInv'
<1>1. DataOk /\ BooksOk /\ WorkOk /\ ListsOk
  BY Parts
<1>2. PICK p : packets' = packets \cup {p} /\ PacketTyped(p) /\ p.gen = left.detections
  BY ComposedPacket
<1>3. DataOk' /\ WorkOk' /\ ListsOk'
  BY <1>1, <1>2, DataStays, WorkStays DEF Compose, history, ListsOk
<1>4. BooksOk'
  BY <1>1, <1>2 DEF BooksOk, Dated, Compose, history
<1>5. QED
  BY <1>3, <1>4, Assembled

LEMMA StartTypes ==
    ASSUME TypeInv, StartExecution
    PROVE  TypeInv'
<1>1. DataOk /\ BooksOk /\ WorkOk /\ ListsOk
  BY Parts
<1>2. PICK p \in packets :
            /\ work' = [Idle EXCEPT !.pc = "step", !.packet = p, !.steps = Steps(p), !.before = graph]
            /\ begun' = begun \cup {p}
  BY DEF StartExecution
<1>3. DataOk' /\ ListsOk'
  BY <1>1, DataStays DEF StartExecution, ListsOk
<1>4. BooksOk'
  BY <1>1, <1>2 DEF BooksOk, Dated, StartExecution
<1>5. /\ DOMAIN work' = {"pc", "packet", "steps", "i", "obsolete", "out", "in", "affected", "before"}
      /\ work'.pc = "step" /\ work'.packet = p /\ work'.steps = Steps(p) /\ work'.i = 1
      /\ work'.out = {} /\ work'.in = {}
  BY <1>2 DEF Idle
<1>6. Len(Steps(p)) \in Nat
  <2>1. Steps(p) \in Seq(DiffSteps(p))
    BY <1>1, StepsAreTyped DEF BooksOk
  <2>2. QED
    BY <2>1
<1>7. Busy' /\ Merging'
  BY <1>2, <1>5 DEF Busy, Merging, StartExecution
<1>8. WorkOk'
  BY <1>5, <1>6, <1>7 DEF WorkOk
<1>9. QED
  BY <1>3, <1>4, <1>8, Assembled

\* A step of the diff ends the attempt or goes on to the next one.
LEMMA StepTypes ==
    ASSUME TypeInv, DataOk', work.pc \in {"step", "repoint"}, work.i <= Len(work.steps),
           Works \/ Fails,
           \/ GiveUp
           \/ work' = NextStep(work)
           \/ work' = [NextStep(work) EXCEPT !.obsolete = <<>>],
           UNCHANGED <<writes, found, packets, begun, applied>>
    PROVE  TypeInv'
<1>1. BooksOk /\ ListsOk
  BY Parts
<1>2. BooksOk' /\ ListsOk'
  BY <1>1, BooksStay DEF ListsOk
<1>3. WorkOk'
  BY IdleIsOk, NextIsOk DEF GiveUp
<1>4. QED
  BY <1>2, <1>3, Assembled

LEMMA DeleteEdgeTypes ==
    ASSUME TypeInv, DeleteEdge
    PROVE  TypeInv'
<1> DEFINE dk == Current.refs[1]
<1>1. DataOk
  BY Parts
<1>2. \/ graph' = DeleteRel(graph, dk) /\ known' = known \ {dk}
      \/ UNCHANGED <<graph, known>>
  BY DEF DeleteEdge
<1> HIDE DEF dk
<1>3. DataOk'
  <2>1. graph' \in Graphs /\ Whole(graph') /\ known' \subseteq known
    BY <1>1, <1>2, RelDeleted DEF DataOk
  <2>2. QED
    BY <1>1, <2>1 DEF DataOk, DeleteEdge
<1>4. QED
  BY <1>3, StepTypes DEF DeleteEdge, At

LEMMA CreateEdgeTypes ==
    ASSUME TypeInv, CreateEdge
    PROVE  TypeInv'
<1> DEFINE dk == Current.refs[1]
<1>1. DataOk
  BY Parts
<1>2. \/ graph' = MergeRel(graph, dk) /\ known' = known \cup {dk}
      \/ UNCHANGED <<graph, known>>
  BY DEF CreateEdge
<1>3. dk \in DKs
  BY CurrentStep DEF CreateEdge, At, DiffSteps, StepOf
<1> HIDE DEF dk
<1>4. DataOk'
  <2>1. graph' \in Graphs /\ Whole(graph') /\ known' \subseteq known \cup {dk}
    BY <1>1, <1>2, <1>3, RelMerged DEF DataOk
  <2>2. QED
    BY <1>1, <1>3, <2>1, DKsAreWide DEF DataOk, CreateEdge
<1>5. QED
  BY <1>4, StepTypes DEF CreateEdge, At

\* The target of a deletion is one of the packet's keys.
LEMMA DeleteNodeTarget ==
    ASSUME TypeInv, DeleteNode
    PROVE  /\ work.packet.class = "delete"
           /\ Current.refs[1] \in Range(work.packet.keys) /\ Current.refs[1] \in Elements
<1>1. Current \in DiffSteps(work.packet) /\ PacketTyped(work.packet) /\ Current.op = "delete_node"
  BY CurrentStep DEF DeleteNode, At
<1>2. work.packet.class = "delete" /\ Current.refs[1] \in Range(work.packet.keys)
  BY <1>1 DEF DiffSteps, StepOf
<1>3. \A k \in DOMAIN work.packet.keys : work.packet.keys[k] \in Elements
  BY <1>1 DEF PacketTyped
<1>4. QED
  BY <1>2, <1>3 DEF Range

LEMMA DeleteNodeTypes ==
    ASSUME TypeInv, DeleteNode
    PROVE  TypeInv'
<1> DEFINE n == Named(Current.refs[1])
<1>1. DataOk
  BY Parts
<1>2. \/ /\ graph' = DetachDelete(graph, n)
         /\ known' = {d \in known : n \notin Ends(d)}
         /\ deleted' = deleted \cup {n}
      \/ UNCHANGED <<graph, known, deleted>>
  BY DEF DeleteNode
<1>3. n \in Nodes \cup {Nobody}
  BY DeleteNodeTarget, Names
<1> HIDE DEF n
<1>4. DataOk'
  <2>1. graph' \in Graphs /\ Whole(graph') /\ known' \subseteq known /\ deleted' \subseteq deleted \cup {n}
    BY <1>1, <1>2, NodeDetached DEF DataOk
  <2>2. QED
    BY <1>1, <1>3, <2>1 DEF DataOk, DeleteNode
<1>5. QED
  BY <1>4, StepTypes DEF DeleteNode, At

LEMMA UpdateTypes ==
    ASSUME TypeInv, Update
    PROVE  TypeInv'
<1>1. DataOk'
  BY Parts, DataStays DEF Update, history
<1>2. QED
  BY <1>1, StepTypes DEF Update, At, history

LEMMA MergeNodesTypes ==
    ASSUME TypeInv, MergeNodes
    PROVE  TypeInv'
<1>1. DataOk /\ BooksOk /\ WorkOk /\ ListsOk
  BY Parts
<1>2. DataOk' /\ BooksOk' /\ ListsOk'
  BY <1>1 DEF DataOk, BooksOk, Dated, ListsOk, MergeNodes, history
<1>3. /\ work.packet \in begun \cap packets
      /\ Current \in DiffSteps(work.packet) /\ PacketTyped(work.packet)
      /\ work.i <= Len(work.steps) /\ Current.op = "merge_nodes"
  BY CurrentStep DEF MergeNodes, At
<1>4. Current.refs = work.packet.keys /\ Len(work.packet.keys) >= 2 /\ work.packet.keys \in Seq(Elements)
  BY <1>3 DEF DiffSteps, StepOf, PacketTyped
<1>5. /\ DOMAIN work' = DOMAIN work /\ work'.pc = "read" /\ work'.obsolete = Tail(Current.refs)
      /\ work'.packet = work.packet /\ work'.steps = work.steps /\ work'.i = work.i
      /\ work'.out = work.out /\ work'.in = work.in
  BY <1>1 DEF WorkOk, MergeNodes, ObsoleteKeys
<1>6. work'.obsolete \in Seq(Elements) /\ work'.obsolete # <<>>
  BY <1>4, <1>5, LongerTail
<1>7. Merging'
  BY <1>3, <1>4, <1>5, <1>6 DEF Merging, Current
<1>8. Busy'
  BY <1>3, <1>5 DEF Busy, MergeNodes, At, history, TypeInv, Idle
<1>9. QED
  BY <1>1, <1>2, <1>5, <1>7, <1>8, Assembled DEF WorkOk

\* While nodes are collapsed the step, the packet and the survivor stay.
SameMerge ==
    /\ DOMAIN work' = DOMAIN work
    /\ work'.packet = work.packet /\ work'.steps = work.steps /\ work'.i = work.i
    /\ work'.obsolete = work.obsolete

LEMMA SameMergeIsOk ==
    ASSUME TypeInv, work.pc \in {"read", "repoint"}, SameMerge, work'.pc = "repoint",
           work'.out \subseteq DKs, work'.in \subseteq DKs, UNCHANGED <<packets, begun>>
    PROVE  WorkOk'
<1>1. WorkOk
  BY Parts
<1>2. Merging'
  BY <1>1 DEF WorkOk, Merging, SameMerge, Current
<1>3. Busy'
  BY <1>1 DEF WorkOk, Busy, SameMerge, Idle
<1>4. QED
  BY <1>1, <1>2, <1>3 DEF WorkOk, SameMerge

LEMMA ReadObsoleteTypes ==
    ASSUME TypeInv, ReadObsolete
    PROVE  TypeInv'
<1>1. DataOk /\ BooksOk /\ WorkOk /\ ListsOk
  BY Parts
<1>2. DataOk' /\ BooksOk' /\ ListsOk'
  BY <1>1, DataStays, BooksStay DEF ReadObsolete, history, ListsOk
<1>3. CASE GiveUp
  BY <1>2, <1>3, IdleIsOk, Assembled DEF GiveUp
<1>4. CASE ~ GiveUp
  <2>1. /\ SameMerge /\ work'.pc = "repoint"
        /\ work'.out = OutRels(graph, Obsolete, Survivor)
        /\ work'.in = InRels(graph, Obsolete, Survivor)
    BY <1>1, <1>4 DEF ReadObsolete, ReadBoth, WorkOk, SameMerge
  <2>2. work'.out \subseteq DKs /\ work'.in \subseteq DKs
    BY <1>1, <2>1, GraphShape DEF DataOk, OutRels, InRels
  <2>3. WorkOk'
    BY <2>1, <2>2, SameMergeIsOk DEF ReadObsolete, history
  <2>4. QED
    BY <1>2, <2>3, Assembled
<1>5. QED
  BY <1>3, <1>4

\* What Repoint does when it does not fail.
LEMMA RepointDoes ==
    ASSUME TypeInv, Repoint, ~ (GiveUp /\ UNCHANGED graph)
    PROVE  /\ SameMerge /\ work'.pc = "repoint"
           /\ \/ \E dk \in work.out :
                    /\ graph' = MergeRel(graph, RepointOut(dk, Survivor))
                    /\ work'.out = work.out \ {dk} /\ work'.in = work.in
              \/ \E dk \in work.in :
                    /\ graph' = MergeRel(graph, RepointIn(dk, Survivor))
                    /\ work'.in = work.in \ {dk} /\ work'.out = work.out
<1>1. WorkOk
  BY Parts
<1>2. CASE \E dk \in work.out : /\ graph' = MergeRel(graph, RepointOut(dk, Survivor))
                                /\ work' = [work EXCEPT !.out = @ \ {dk}]
  BY <1>1, <1>2 DEF WorkOk, SameMerge, Repoint
<1>3. CASE \E dk \in work.in : /\ graph' = MergeRel(graph, RepointIn(dk, Survivor))
                               /\ work' = [work EXCEPT !.in = @ \ {dk}]
  BY <1>1, <1>3 DEF WorkOk, SameMerge, Repoint
<1>4. QED
  BY <1>2, <1>3 DEF Repoint

\* A repointed relationship is one if both its ends are there.
LEMMA RepointedDK ==
    ASSUME NEW g \in Graphs, NEW dk \in DKs, NEW s
    PROVE  /\ Ends(RepointOut(dk, s)) \subseteq g.nodes => RepointOut(dk, s) \in DKs
           /\ Ends(RepointIn(dk, s)) \subseteq g.nodes => RepointIn(dk, s) \in DKs
<1>1. Type(dk) \in RelTypes /\ Start(dk) \in Nodes /\ End(dk) \in Nodes /\ g.nodes \subseteq Nodes
  BY DKShape, GraphShape
<1>2. /\ Ends(RepointOut(dk, s)) = {s, End(dk)}
      /\ Ends(RepointIn(dk, s)) = {Start(dk), s}
  BY DEF RepointOut, RepointIn, Ends, Start, End
<1>3. s \in g.nodes => s \in Nodes
  BY <1>1
<1>4. QED
  BY <1>1, <1>2, <1>3, MakeDK DEF RepointOut, RepointIn

LEMMA RepointTypes ==
    ASSUME TypeInv, Repoint
    PROVE  TypeInv'
<1>1. DataOk /\ BooksOk /\ WorkOk /\ ListsOk
  BY Parts
<1>2. BooksOk' /\ ListsOk'
  BY <1>1, BooksStay DEF Repoint, history, ListsOk
<1>3. CASE GiveUp /\ UNCHANGED graph
  <2>1. DataOk'
    BY <1>1, <1>3, DataStays DEF Repoint, history
  <2>2. QED
    BY <1>2, <1>3, <2>1, IdleIsOk, Assembled DEF GiveUp
<1>4. CASE ~ (GiveUp /\ UNCHANGED graph)
  <2>1. /\ SameMerge /\ work'.pc = "repoint" /\ work'.out \subseteq work.out /\ work'.in \subseteq work.in
    BY <1>4, RepointDoes
  <2>2. WorkOk'
    BY <1>1, <2>1, SameMergeIsOk DEF WorkOk, Repoint, history
  <2>3. PICK dk \in DKs : \E e \in {RepointOut(dk, Survivor), RepointIn(dk, Survivor)} :
              graph' = MergeRel(graph, e)
    BY <1>1, <1>4, RepointDoes DEF WorkOk
  <2>4. PICK e \in {RepointOut(dk, Survivor), RepointIn(dk, Survivor)} :
              graph' = MergeRel(graph, e)
    BY <2>3
  <2>5. Ends(e) \subseteq graph.nodes => e \in DKs
    BY <1>1, RepointedDK DEF DataOk
  <2>6. graph' \in Graphs /\ Whole(graph')
    BY <1>1, <2>4, <2>5, RelMerged DEF DataOk
  <2>7. DataOk'
    BY <1>1, <2>6 DEF DataOk, Repoint, history
  <2>8. QED
    BY <1>2, <2>2, <2>7, Assembled
<1>5. QED
  BY <1>3, <1>4

LEMMA DropObsoleteTypes ==
    ASSUME TypeInv, DropObsolete
    PROVE  TypeInv'
<1>1. DataOk /\ BooksOk /\ WorkOk /\ ListsOk
  BY Parts
<1>2. BooksOk' /\ ListsOk'
  BY <1>1, BooksStay DEF DropObsolete, ListsOk
<1> DEFINE o == Obsolete
           s == Survivor
<1>3. s \in Nodes \cup {Nobody} /\ work.pc = "repoint"
  BY CurrentMerge DEF DropObsolete
<1>4. CASE GiveUp /\ UNCHANGED <<graph, into, known>>
  <2>1. DataOk'
    BY <1>1, <1>4, DataStays DEF DropObsolete
  <2>2. QED
    BY <1>2, <1>4, <2>1, IdleIsOk, Assembled DEF GiveUp
<1>5. CASE ~ (GiveUp /\ UNCHANGED <<graph, into, known>>)
  <2>1. /\ graph' = DetachDelete(graph, o)
        /\ MergeHistory(o, s) \/ UNCHANGED <<into, known>>
        /\ IF Len(work.obsolete) > 1
           THEN work' = [work EXCEPT !.pc = "read", !.obsolete = Tail(@)]
           ELSE work' = [NextStep(work) EXCEPT !.obsolete = <<>>]
    BY <1>5 DEF DropObsolete
  <2> HIDE DEF o, s
  <2>2. graph' \in Graphs /\ Whole(graph')
    BY <1>1, <2>1, NodeDetached DEF DataOk
  <2>3. into' \in [Nodes -> Nodes \cup {Nobody}] /\ known' \subseteq Wide
    <3>1. CASE MergeHistory(o, s)
      <4>1. into' \in [Nodes -> Nodes \cup {Nobody}]
        BY <1>1, <1>3, <3>1 DEF MergeHistory, Merged, DataOk
      <4>2. ASSUME NEW dk \in known PROVE MergedRel(dk, o, s) \in Wide
        <5>1. PICK t \in RelTypes, a \in Nodes \cup {Nobody}, b \in Nodes \cup {Nobody} : dk = <<t, a, b>>
          BY <1>1 DEF DataOk, Wide
        <5>2. MergedRel(dk, o, s) = <<t, Merged(a, o, s), Merged(b, o, s)>>
          BY <5>1 DEF MergedRel, Type, Start, End
        <5>3. QED
          BY <1>3, <5>2 DEF Merged, Wide
      <4>3. QED
        BY <3>1, <4>1, <4>2 DEF MergeHistory
    <3>2. CASE UNCHANGED <<into, known>>
      BY <1>1, <3>2 DEF DataOk
    <3>3. QED
      BY <2>1, <3>1, <3>2
  <2>4. DataOk'
    BY <1>1, <2>2, <2>3 DEF DataOk, DropObsolete
  <2>5. CASE Len(work.obsolete) > 1
    <3>1. /\ DOMAIN work' = DOMAIN work /\ work'.pc = "read" /\ work'.obsolete = Tail(work.obsolete)
          /\ work'.packet = work.packet /\ work'.steps = work.steps /\ work'.i = work.i
          /\ work'.out = work.out /\ work'.in = work.in
      BY <1>1, <2>1, <2>5 DEF WorkOk
    <3>2. work.obsolete \in Seq(Elements)
      BY <1>3, CurrentMerge
    <3>3. /\ Tail(work.obsolete) \in Seq(Elements) /\ Tail(work.obsolete) # <<>>
          /\ Range(Tail(work.obsolete)) \subseteq Range(work.obsolete)
      <4>1. Len(work.obsolete) >= 2
        BY <2>5, <3>2
      <4>2. QED
        BY <3>2, <4>1, LongerTail
    <3>4. Merging'
      BY <1>1, <1>3, <3>1, <3>3 DEF WorkOk, Merging, Current
    <3>5. Busy'
      BY <1>1, <1>3, <3>1 DEF WorkOk, Busy, Idle, DropObsolete
    <3>6. WorkOk'
      BY <1>1, <3>1, <3>4, <3>5 DEF WorkOk
    <3>7. QED
      BY <1>2, <2>4, <3>6, Assembled
  <2>6. CASE ~ Len(work.obsolete) > 1
    BY <1>3, <2>1, <2>4, <2>6, CurrentMerge, StepTypes DEF DropObsolete
  <2>7. QED
    BY <2>5, <2>6
<1>6. QED
  BY <1>4, <1>5

LEMMA VerifyTypes ==
    ASSUME TypeInv, Verify
    PROVE  TypeInv'
<1>1. DataOk /\ BooksOk /\ WorkOk /\ ListsOk
  BY Parts
<1>2. DataOk' /\ ListsOk'
  BY <1>1, DataStays DEF Verify, ListsOk
<1>3. DOMAIN left' = DOMAIN left /\ left'.detections = left.detections
  BY <1>1 DEF BooksOk, Verify, Works, Fails
<1>4. packets' \subseteq packets /\ packets \cup applied \subseteq packets' \cup applied' /\ begun' = begun
  BY DEF Verify, Applied
<1>5. BooksOk'
  BY <1>1, <1>3, <1>4 DEF BooksOk, Dated
<1>6. CASE work' = Idle
  BY <1>2, <1>5, <1>6, IdleIsOk, Assembled
<1>7. CASE work' = [work EXCEPT !.pc = "scoped"]
  <2>1. /\ DOMAIN work' = DOMAIN work /\ work'.pc = "scoped"
        /\ work'.packet = work.packet /\ work'.steps = work.steps /\ work'.i = work.i
        /\ work'.out = work.out /\ work'.in = work.in
    BY <1>1, <1>7 DEF WorkOk
  <2>2. Merging' /\ Busy'
    BY <1>1, <1>4, <2>1 DEF WorkOk, Merging, Busy, Idle, Verify
  <2>3. WorkOk'
    BY <1>1, <2>1, <2>2 DEF WorkOk
  <2>4. QED
    BY <1>2, <1>5, <2>3, Assembled
<1>8. QED
  BY <1>6, <1>7 DEF Verify, GiveUp

LEMMA DetectAroundTypes ==
    ASSUME TypeInv, DetectAround
    PROVE  TypeInv'
<1>1. DataOk' /\ ListsOk' /\ BooksOk'
  BY Parts, DataStays, BooksStay DEF DetectAround, history, ListsOk
<1>2. QED
  BY <1>1, IdleIsOk, Assembled DEF DetectAround

LEMMA TypesStay ==
    ASSUME TypeInv, [Next]_vars
    PROVE  TypeInv'
<1>1. CASE UNCHANGED vars
  BY <1>1 DEF vars, history, TypeInv, TypeOK, Dated, Shaped, Merging, Busy, Current
<1>2. CASE AgentC
  BY <1>2, StartTypes, DeleteEdgeTypes, CreateEdgeTypes, DeleteNodeTypes, UpdateTypes,
     MergeNodesTypes, ReadObsoleteTypes, RepointTypes, DropObsoleteTypes, VerifyTypes,
     DetectAroundTypes DEF AgentC
<1>3. CASE WriteItem \/ Generate \/ Compose
  BY <1>3, WriteItemTypes, GenerateTypes, ComposeTypes
<1>4. QED
  BY <1>1, <1>2, <1>3 DEF Next

LEMMA TypesAtFirst ==
    ASSUME Init
    PROVE  TypeInv
<1>1. PICK s \in Scenarios :
            /\ graph = s.graph /\ writes = s.writes
            /\ seen = s.graph.nodes /\ known = RelKeys(s.graph)
            /\ left = [detections |-> s.detections, packets |-> s.packets,
                       faults |-> s.faults, stages |-> s.stages, together |-> s.together]
  BY DEF Init
<1>2. /\ graph \in Graphs /\ Whole(graph) /\ writes \in Seq(Elements) /\ left.detections \in Nat
      /\ seen \subseteq Nodes /\ known \subseteq DKs
  BY <1>1, ScenarioAssumption, GraphShape
<1>3. Shaped /\ Dated /\ Merging /\ Busy
  BY <1>1, <1>2 DEF Init, Shaped, Dated, Merging, Busy, Idle
<1>4. /\ work.pc = "idle" /\ work.i = 1 /\ work.steps = <<>> /\ work.out = {} /\ work.in = {}
  BY DEF Init, Idle
<1>5. TypeOK
  BY <1>2, <1>4, DKsAreWide, GraphShape DEF Init, TypeOK, Whole, Wide
<1>6. QED
  BY <1>2, <1>3, <1>5 DEF Init, TypeInv

\* TypeInv is an invariant: whatever fails and is repeated, the graph is one of
\* known nodes and relationships with both their ends, a packet is made of
\* elements that were found, and Agent-C is at a step of its packet.
THEOREM GraphInvariance == Spec => []TypeInv
<1>1. Init => TypeInv
  BY TypesAtFirst
<1>2. TypeInv /\ [Next]_vars => TypeInv'
  BY TypesStay
<1>3. QED
  BY <1>1, <1>2, PTL DEF Spec

\* No write, merge or deletion, finished or broken off, leaves a relationship
\* without one of its ends, and Agent-C never runs past its diff.
THEOREM TypeCorrect == Spec => []TypeOK
<1>1. TypeInv => TypeOK
  BY DEF TypeInv
<1>2. QED
  BY <1>1, GraphInvariance, PTL

(***************************************************************************)
(* What a merge keeps                                                      *)
(***************************************************************************)
LEMMA OrderlyBefore ==
    ASSUME begun \subseteq begun', Orderly'
    PROVE  Orderly
BY DEF Orderly

\* What is known of nodes that may be gone goes on being true while the nodes
\* of the graph become more.
LEMMA StillThereStays ==
    ASSUME StillThere, begun \subseteq begun', packets' \subseteq packets, found' = found,
           left'.detections = left.detections, graph.nodes \subseteq graph'.nodes
    PROVE  StillThere'
BY DEF StillThere, Taken

\* And when the packet Agent-C is applying takes one of them away.
LEMMA StillThereLoses ==
    ASSUME StillThere, UNCHANGED <<begun, packets, found>>, left'.detections = left.detections,
           NEW n, graph.nodes \ {n} \subseteq graph'.nodes,
           NEW q \in begun, q.gen = left.detections, q.class \in {"merge", "delete"},
           NodeRef(n) \in KeySet(q),
           \A p \in packets : p.class = "merge" /\ p.keys # <<>> /\ OfNodes(p)
                                 /\ Named(p.keys[1]) = n => p # q
    PROVE  StillThere'
<1>1. ASSUME NEW m, m \notin graph'.nodes, m \in graph.nodes PROVE m = n
  BY <1>1
<1>2. Taken(n, begun)'
  BY DEF Taken
<1>3. ASSUME NEW c \in found, NEW m \in c.nodes PROVE m \in graph'.nodes \/ Taken(m, begun)'
  <2>1. m \in graph.nodes \/ Taken(m, begun)
    BY DEF StillThere
  <2>2. Taken(m, begun) => Taken(m, begun)'
    BY DEF Taken
  <2>3. QED
    BY <1>1, <1>2, <2>1, <2>2
<1>4. ASSUME NEW p \in packets, p.class = "merge", p.keys # <<>>, OfNodes(p)
      PROVE  Named(p.keys[1]) \in graph'.nodes \/ Taken(Named(p.keys[1]), begun \ {p})'
  <2> DEFINE m == Named(p.keys[1])
  <2>1. m \in graph.nodes \/ Taken(m, begun \ {p})
    BY <1>4 DEF StillThere
  <2>2. Taken(m, begun \ {p}) => Taken(m, begun \ {p})'
    BY DEF Taken
  <2>3. m = n => Taken(m, begun \ {p})'
    BY <1>4 DEF Taken
  <2>4. QED
    BY <1>1, <2>1, <2>2, <2>3
<1>5. QED
  BY <1>3, <1>4 DEF StillThere

\* A step that takes no node and no relationship away.
LEMMA QuietStep ==
    ASSUME MergeInv, TypeInv', StillThere', Orderly' => Repointed', begun \subseteq begun',
           graph.nodes \subseteq graph'.nodes, RelKeys(graph) \subseteq RelKeys(graph'),
           seen \subseteq seen', graph'.nodes \subseteq seen', seen' \subseteq seen \cup graph'.nodes,
           known' \subseteq known \cup RelKeys(graph'), UNCHANGED <<into, deleted>>
    PROVE  MergeInv'
<1>1. NewIsItself'
  BY DEF MergeInv, NewIsItself
<1>2. EntitiesKept'
  <2>1. ASSUME Orderly', NEW n \in seen' PROVE into'[n] \in graph'.nodes \cup deleted'
    <3>1. CASE n \in seen
      BY <2>1, <3>1, OrderlyBefore DEF MergeInv, EntitiesKept
    <3>2. CASE n \notin seen
      <4>1. n \in graph'.nodes /\ n \in Nodes
        BY <2>1, <3>2 DEF TypeInv, TypeOK
      <4>2. QED
        BY <3>2, <4>1 DEF MergeInv, NewIsItself
    <3>3. QED
      BY <3>1, <3>2
  <2>2. QED
    BY <2>1 DEF EntitiesKept
<1>3. ConnectionsKept'
  <2>1. ASSUME Orderly', NEW dk \in known' PROVE Start(dk) = End(dk) \/ dk \in RelKeys(graph')
    BY <2>1, OrderlyBefore DEF MergeInv, ConnectionsKept
  <2>2. QED
    BY <2>1 DEF ConnectionsKept
<1>4. QED
  BY <1>1, <1>2, <1>3 DEF MergeInv

\* Agent-C repoints nothing outside a merge.
LEMMA NothingRepointed ==
    ASSUME work'.pc # "repoint"
    PROVE  Repointed'
BY DEF Repointed

LEMMA IdleIsNoMerge == Idle.pc = "idle"
BY DEF Idle

LEMMA SameDate ==
    ASSUME TypeInv, Works \/ Fails
    PROVE  left'.detections = left.detections
BY Parts DEF BooksOk, Works, Fails

\* A step that leaves graph, packets and history as they are.
LEMMA SameGraph ==
    ASSUME MergeInv, TypeInv', Orderly' => Repointed', Works \/ Fails \/ UNCHANGED left,
           begun \subseteq begun', packets' \subseteq packets,
           UNCHANGED <<graph, found, seen, known, into, deleted>>
    PROVE  MergeInv'
<1>1. left'.detections = left.detections
  BY SameDate DEF MergeInv
<1>2. StillThere'
  BY <1>1, StillThereStays DEF MergeInv
<1>3. graph'.nodes \subseteq seen'
  BY DEF MergeInv, NewIsItself
<1>4. QED
  BY <1>2, <1>3, QuietStep

LEMMA WriteItemKeeps ==
    ASSUME MergeInv, TypeInv', WriteItem
    PROVE  MergeInv'
<1>1. /\ left'.detections = left.detections /\ work' = Idle
      /\ UNCHANGED <<found, packets, begun, into, deleted>>
  BY SameDate DEF WriteItem, MergeInv
<1>2. Repointed'
  BY <1>1, IdleIsNoMerge, NothingRepointed
<1>3. CASE UNCHANGED <<graph, seen, known>>
  BY <1>1, <1>2, <1>3, SameGraph DEF WriteItem
<1>4. CASE /\ graph' = Item(Head(writes))
           /\ seen' = seen \cup graph'.nodes
           /\ known' = known \cup (RelKeys(graph') \ RelKeys(graph))
  <2> DEFINE e == Head(writes)
  <2>1. graph \in Graphs /\ Whole(graph) /\ e \in Elements
    BY Parts DEF MergeInv, DataOk, ListsOk, WriteItem
  <2> HIDE DEF e
  <2>2. graph.nodes \subseteq graph'.nodes /\ RelKeys(graph) \subseteq RelKeys(graph')
    <3>1. CASE IsNodeRef(e)
      <4>1. graph' = MergeNode(graph, Named(e)) /\ Named(e) \in Nodes
        BY <1>4, <2>1, <3>1, Names DEF Item, Named, e
      <4>2. QED
        BY <2>1, <4>1, NodeMerged
    <3>2. CASE ~ IsNodeRef(e)
      <4>1. graph' = MergeRel(graph, e) /\ e \in DKs
        BY <1>4, <2>1, <3>2, Names DEF Item, e
      <4>2. QED
        BY <2>1, <4>1, RelMerged
    <3>3. QED
      BY <3>1, <3>2
  <2>3. StillThere'
    BY <1>1, <2>2, StillThereStays DEF MergeInv
  <2>4. QED
    BY <1>1, <1>2, <1>4, <2>2, <2>3, QuietStep
<1>5. QED
  BY <1>3, <1>4 DEF WriteItem

LEMMA GenerateKeeps ==
    ASSUME MergeInv, TypeInv', Generate
    PROVE  MergeInv'
<1>1. graph \in Graphs /\ Whole(graph)
  BY Parts DEF MergeInv, DataOk
<1>2. /\ \E stages \in left.stages : found' = Detect(graph, stages)
      /\ packets' = {} /\ work' = Idle
      /\ UNCHANGED <<graph, begun, seen, known, into, deleted>>
  BY DEF Generate, history
<1>3. \A c \in found' : c.nodes \subseteq graph'.nodes
  BY <1>1, <1>2, DetectSights DEF Sighted
<1>4. StillThere'
  BY <1>2, <1>3 DEF StillThere
<1>5. Repointed'
  BY <1>2, IdleIsNoMerge, NothingRepointed
<1>6. graph'.nodes \subseteq seen'
  BY <1>2 DEF MergeInv, NewIsItself
<1>7. QED
  BY <1>2, <1>4, <1>5, <1>6, QuietStep

\* A packet that has begun and is of this detection still stands, or is applied.
LEMMA NoneIsForgotten ==
    ASSUME TypeInv, NEW q \in begun, q.gen = left.detections
    PROVE  q \in packets \cup applied
BY DEF TypeInv, Dated

LEMMA ComposeKeeps ==
    ASSUME MergeInv, TypeInv', Compose
    PROVE  MergeInv'
<1>1. TypeInv /\ StillThere
  BY DEF MergeInv
<1>2. PICK p : /\ packets' = packets \cup {p} /\ PacketTyped(p)
               /\ p.of \subseteq found /\ p.gen = left.detections
               /\ \A q \in packets \cup applied : q.of # p.of
               /\ OfNodes(p) /\ p.keys # <<>> =>
                     Named(p.keys[1]) \in UNION {c.nodes : c \in p.of}
  BY <1>1, ComposedPacket
<1>3. work' = Idle /\ UNCHANGED <<graph, found, begun, seen, known, into, deleted, left>>
  BY DEF Compose, history
<1>4. ASSUME OfNodes(p), p.keys # <<>>
      PROVE  Named(p.keys[1]) \in graph.nodes \/ Taken(Named(p.keys[1]), begun \ {p})
  <2> DEFINE n == Named(p.keys[1])
  <2>1. n \in graph.nodes \/ Taken(n, begun)
    BY <1>1, <1>2, <1>4 DEF StillThere
  <2>2. ASSUME NEW q \in begun, q.gen = left.detections PROVE q # p
    BY <1>1, <1>2, <2>2, NoneIsForgotten
  <2>3. Taken(n, begun) => Taken(n, begun \ {p})
    BY <2>2 DEF Taken
  <2>4. QED
    BY <2>1, <2>3
<1>5. StillThere'
  BY <1>1, <1>2, <1>3, <1>4 DEF StillThere, Taken
<1>6. Repointed'
  BY <1>3, IdleIsNoMerge, NothingRepointed
<1>7. graph'.nodes \subseteq seen'
  BY <1>3 DEF MergeInv, NewIsItself
<1>8. QED
  BY <1>3, <1>5, <1>6, <1>7, QuietStep

LEMMA StartKeeps ==
    ASSUME MergeInv, TypeInv', StartExecution
    PROVE  MergeInv'
<1>1. work'.pc = "step"
  BY DEF StartExecution, Idle
<1>2. QED
  BY <1>1, NothingRepointed, SameGraph DEF StartExecution

\* The next step, or none.
LEMMA OnlyWork ==
    ASSUME MergeInv, TypeInv', Works \/ Fails \/ UNCHANGED left, work'.pc # "repoint",
           begun \subseteq begun', packets' \subseteq packets,
           UNCHANGED <<graph, found, seen, known, into, deleted>>
    PROVE  MergeInv'
BY NothingRepointed, SameGraph

LEMMA NotRepointing ==
    ASSUME TypeInv
    PROVE  /\ NextStep(work).pc = "step" /\ [NextStep(work) EXCEPT !.obsolete = <<>>].pc = "step"
           /\ [work EXCEPT !.pc = "scoped"].pc = "scoped"
           /\ \A q : [work EXCEPT !.pc = "read", !.obsolete = q].pc = "read"
           /\ \A q, n : [work EXCEPT !.pc = "read", !.obsolete = q, !.affected = n].pc = "read"
BY DEF TypeInv, Shaped, NextStep

LEMMA DeleteEdgeKeeps ==
    ASSUME MergeInv, TypeInv', DeleteEdge
    PROVE  MergeInv'
<1> DEFINE dk == Current.refs[1]
<1>1. work'.pc # "repoint"
  BY NotRepointing, IdleIsNoMerge DEF MergeInv, DeleteEdge, GiveUp
<1>2. CASE UNCHANGED <<graph, known>>
  BY <1>1, <1>2, OnlyWork DEF DeleteEdge
<1>3. CASE graph' = DeleteRel(graph, dk) /\ known' = known \ {dk}
  <2> HIDE DEF dk
  <2>1. graph \in Graphs /\ Whole(graph)
    BY Parts DEF MergeInv, DataOk
  <2>2. graph'.nodes = graph.nodes /\ RelKeys(graph') = RelKeys(graph) \ {dk}
    BY <1>3, <2>1, RelDeleted
  <2>3. left'.detections = left.detections
    BY SameDate DEF MergeInv, DeleteEdge
  <2>4. StillThere'
    BY <2>2, <2>3, StillThereStays DEF MergeInv, DeleteEdge
  <2>5. NewIsItself'
    BY <2>2 DEF MergeInv, NewIsItself, DeleteEdge
  <2>6. EntitiesKept'
    BY <2>2, OrderlyBefore DEF MergeInv, EntitiesKept, DeleteEdge
  <2>7. ConnectionsKept'
    <3>1. ASSUME Orderly' PROVE \A d \in known' : Start(d) = End(d) \/ d \in RelKeys(graph')
      BY <1>3, <2>2, <3>1, OrderlyBefore DEF MergeInv, ConnectionsKept, DeleteEdge
    <3>2. QED
      BY <3>1 DEF ConnectionsKept
  <2>8. QED
    BY <1>1, <2>4, <2>5, <2>6, <2>7, NothingRepointed DEF MergeInv
<1>4. QED
  BY <1>2, <1>3 DEF DeleteEdge

LEMMA CreateEdgeKeeps ==
    ASSUME MergeInv, TypeInv', CreateEdge
    PROVE  MergeInv'
<1> DEFINE dk == Current.refs[1]
<1>1. work'.pc # "repoint"
  BY NotRepointing, IdleIsNoMerge DEF MergeInv, CreateEdge, GiveUp
<1>2. CASE UNCHANGED <<graph, known>>
  BY <1>1, <1>2, OnlyWork DEF CreateEdge
<1>3. CASE Ends(dk) \subseteq graph.nodes /\ graph' = MergeRel(graph, dk) /\ known' = known \cup {dk}
  <2>1. dk \in DKs
    BY CurrentStep DEF CreateEdge, At, DiffSteps, StepOf, MergeInv
  <2> HIDE DEF dk
  <2>2. graph \in Graphs /\ Whole(graph)
    BY Parts DEF MergeInv, DataOk
  <2>3. /\ graph'.nodes = graph.nodes /\ RelKeys(graph) \subseteq RelKeys(graph')
        /\ dk \in RelKeys(graph')
    BY <1>3, <2>1, <2>2, RelMerged
  <2>4. left'.detections = left.detections
    BY SameDate DEF MergeInv, CreateEdge
  <2>5. StillThere'
    BY <2>3, <2>4, StillThereStays DEF MergeInv, CreateEdge
  <2>6. graph'.nodes \subseteq seen'
    BY <2>3 DEF MergeInv, NewIsItself, CreateEdge
  <2>7. QED
    BY <1>1, <1>3, <2>3, <2>5, <2>6, NothingRepointed, QuietStep DEF CreateEdge
<1>4. QED
  BY <1>2, <1>3 DEF CreateEdge

\* Agent-C is applying a packet of this detection.
LEMMA CurrentPacket ==
    ASSUME TypeInv, work.pc \in {"step", "read", "repoint"}
    PROVE  work.packet \in begun \cap packets /\ work.packet.gen = left.detections
BY CurrentStep DEF TypeInv, Dated

LEMMA DeleteNodeKeeps ==
    ASSUME MergeInv, TypeInv', DeleteNode
    PROVE  MergeInv'
<1> DEFINE n == Named(Current.refs[1])
<1>1. work'.pc # "repoint"
  BY NotRepointing, IdleIsNoMerge DEF MergeInv, DeleteNode, GiveUp
<1>2. CASE UNCHANGED <<graph, known, deleted>>
  BY <1>1, <1>2, OnlyWork DEF DeleteNode
<1>3. CASE /\ graph' = DetachDelete(graph, n)
           /\ known' = {d \in known : n \notin Ends(d)}
           /\ deleted' = deleted \cup {n}
  <2>1. /\ work.packet \in begun \cap packets /\ work.packet.gen = left.detections
        /\ work.packet.class = "delete"
        /\ Current.refs[1] \in KeySet(work.packet) /\ Current.refs[1] \in Elements
    BY CurrentPacket, DeleteNodeTarget DEF MergeInv, DeleteNode, At, KeySet
  <2>2. graph \in Graphs /\ Whole(graph)
    BY Parts DEF MergeInv, DataOk
  <2>3. /\ graph'.nodes = graph.nodes \ {n}
        /\ RelKeys(graph') = {d \in RelKeys(graph) : n \notin Ends(d)}
    BY <1>3, <2>2, NodeDetached
  <2>4. left'.detections = left.detections
    BY SameDate DEF MergeInv, DeleteNode
  <2>5. StillThere'
    <3>1. CASE IsNodeRef(Current.refs[1])
      <4>1. NodeRef(n) \in KeySet(work.packet)
        BY <2>1, <3>1, Names
      <4> HIDE DEF n
      <4>2. \A p \in packets : p.class = "merge" => p # work.packet
        BY <2>1
      <4>3. QED
        BY <2>1, <2>3, <2>4, <4>1, <4>2, StillThereLoses DEF MergeInv, DeleteNode
    <3>2. CASE ~ IsNodeRef(Current.refs[1])
      <4>1. n \notin graph.nodes
        BY <2>1, <2>2, <3>2, Names, NobodyIsNoNode, GraphShape
      <4>2. graph.nodes \subseteq graph'.nodes
        BY <2>3, <4>1
      <4>3. QED
        BY <2>4, <4>2, StillThereStays DEF MergeInv, DeleteNode
    <3>3. QED
      BY <3>1, <3>2
  <2> HIDE DEF n
  <2>6. NewIsItself'
    BY <2>3 DEF MergeInv, NewIsItself, DeleteNode
  <2>7. EntitiesKept'
    <3>1. ASSUME Orderly' PROVE \A m \in seen' : into'[m] \in graph'.nodes \cup deleted'
      BY <1>3, <2>3, <3>1, OrderlyBefore DEF MergeInv, EntitiesKept, DeleteNode
    <3>2. QED
      BY <3>1 DEF EntitiesKept
  <2>8. ConnectionsKept'
    <3>1. ASSUME Orderly' PROVE \A d \in known' : Start(d) = End(d) \/ d \in RelKeys(graph')
      BY <1>3, <2>3, <3>1, OrderlyBefore DEF MergeInv, ConnectionsKept, DeleteNode
    <3>2. QED
      BY <3>1 DEF ConnectionsKept
  <2>9. QED
    BY <1>1, <2>5, <2>6, <2>7, <2>8, NothingRepointed DEF MergeInv
<1>4. QED
  BY <1>2, <1>3 DEF DeleteNode

LEMMA UpdateKeeps ==
    ASSUME MergeInv, TypeInv', Update
    PROVE  MergeInv'
<1>1. work'.pc # "repoint"
  BY NotRepointing, IdleIsNoMerge DEF MergeInv, Update, GiveUp
<1>2. QED
  BY <1>1, OnlyWork DEF Update, history

LEMMA MergeNodesKeeps ==
    ASSUME MergeInv, TypeInv', MergeNodes
    PROVE  MergeInv'
<1>1. work'.pc # "repoint"
  BY NotRepointing DEF MergeInv, MergeNodes
<1>2. QED
  BY <1>1, OnlyWork DEF MergeNodes, history

LEMMA VerifyKeeps ==
    ASSUME MergeInv, TypeInv', Verify
    PROVE  MergeInv'
<1>1. work'.pc # "repoint"
  BY NotRepointing, IdleIsNoMerge DEF MergeInv, Verify, GiveUp
<1>2. packets' \subseteq packets
  BY DEF Verify, Applied
<1>3. Works \/ Fails
  BY DEF Verify
<1>4. QED
  BY <1>1, <1>2, <1>3, OnlyWork DEF Verify

LEMMA DetectAroundKeeps ==
    ASSUME MergeInv, TypeInv', DetectAround
    PROVE  MergeInv'
<1>1. work'.pc # "repoint"
  BY IdleIsNoMerge DEF DetectAround
<1>2. QED
  BY <1>1, OnlyWork DEF DetectAround, history

\* While an orderly packet is merging, its survivor is in the graph, whatever
\* an earlier attempt has done, and is not the obsolete node.
LEMMA SurvivorIsThere ==
    ASSUME MergeInv, Orderly, work.pc \in {"read", "repoint"}
    PROVE  /\ Survivor \in graph.nodes /\ Obsolete \in Nodes /\ Survivor # Obsolete
           /\ NodeRef(Obsolete) \in KeySet(work.packet)
           /\ OfNodes(work.packet)
<1> DEFINE p == work.packet
<1>1. /\ p \in begun \cap packets /\ p.gen = left.detections /\ PacketTyped(p)
  BY CurrentPacket, CurrentStep DEF MergeInv
<1>2. /\ p.class = "merge" /\ p.keys \in Seq(Elements) /\ Len(p.keys) >= 2
      /\ Survivor = Named(p.keys[1]) /\ Head(work.obsolete) \in Range(Tail(p.keys))
      /\ Obsolete = Named(Head(work.obsolete))
  BY CurrentMerge DEF MergeInv, Obsolete
<1> HIDE DEF p
<1>3. /\ OfNodes(p) /\ \A k \in DOMAIN p.keys : IsNodeRef(p.keys[k])
      /\ \A j, k \in DOMAIN p.keys : p.keys[j] = p.keys[k] => j = k
  BY <1>1 DEF Orderly, PacketTyped
<1>4. 1 \in DOMAIN p.keys /\ p.keys # <<>>
  BY <1>2
<1>5. PICK k \in DOMAIN p.keys : k # 1 /\ Head(work.obsolete) = p.keys[k]
  <2>1. PICK j \in DOMAIN Tail(p.keys) : Head(work.obsolete) = Tail(p.keys)[j]
    BY <1>2 DEF Range
  <2>2. j + 1 \in DOMAIN p.keys /\ j + 1 # 1 /\ Tail(p.keys)[j] = p.keys[j + 1]
    BY <1>2, LongerTail
  <2>3. QED
    BY <2>1, <2>2
<1>6. /\ Survivor \in Nodes /\ p.keys[1] = NodeRef(Survivor)
      /\ Obsolete \in Nodes /\ p.keys[k] = NodeRef(Obsolete)
  <2>1. p.keys[1] \in Elements /\ p.keys[k] \in Elements
    BY <1>2, <1>4, <1>5
  <2>2. QED
    BY <1>2, <1>3, <1>4, <1>5, <2>1, Names
<1>7. NodeRef(Survivor) \in KeySet(p) /\ NodeRef(Obsolete) \in KeySet(p)
  BY <1>4, <1>6 DEF KeySet, Range
<1>8. Survivor # Obsolete
  BY <1>3, <1>4, <1>5, <1>6
<1>9. Survivor \in graph.nodes
  <2>1. Survivor \in graph.nodes \/ Taken(Survivor, begun \ {p})
    BY <1>1, <1>2, <1>3, <1>4 DEF MergeInv, StillThere
  <2>2. ~ Taken(Survivor, begun \ {p})
    <3>1. SUFFICES ASSUME NEW q \in begun \ {p}, q.gen = left.detections,
                          q.class \in {"merge", "delete"}, NodeRef(Survivor) \in KeySet(q)
                   PROVE  FALSE
      BY DEF Taken
    <3>2. {p.class, q.class} \subseteq {"merge", "delete"} /\ p.gen = q.gen /\ p # q
      BY <1>1, <1>2, <3>1
    <3>3. KeySet(p) \cap KeySet(q) = {}
      BY <1>1, <3>1, <3>2 DEF Orderly
    <3>4. QED
      BY <1>7, <3>1, <3>3
  <2>3. QED
    BY <2>1, <2>2
<1>10. QED
  BY <1>3, <1>6, <1>7, <1>8, <1>9 DEF p

LEMMA ReadObsoleteKeeps ==
    ASSUME MergeInv, TypeInv', ReadObsolete
    PROVE  MergeInv'
<1>1. CASE GiveUp
  BY <1>1, IdleIsNoMerge, OnlyWork DEF ReadObsolete, history, GiveUp
<1>2. CASE ~ GiveUp
  <2>1. /\ work'.obsolete = work.obsolete /\ work'.steps = work.steps /\ work'.i = work.i
        /\ work'.out = OutRels(graph, Obsolete, Survivor)
        /\ work'.in = InRels(graph, Obsolete, Survivor)
    BY <1>2, Parts DEF MergeInv, WorkOk, ReadObsolete, ReadBoth
  <2>2. Obsolete' = Obsolete /\ Survivor' = Survivor /\ graph' = graph
    BY <2>1 DEF Obsolete, Survivor, Current, ReadObsolete
  <2>3. Repointed'
    BY <2>1, <2>2 DEF Repointed
  <2>4. QED
    BY <2>3, SameGraph DEF ReadObsolete, history
<1>3. QED
  BY <1>1, <1>2

\* Where a relationship is repointed to, seen from its ends.
LEMMA RepointedEnds ==
    ASSUME NEW dk, NEW s
    PROVE  /\ Start(RepointOut(dk, s)) = s /\ End(RepointOut(dk, s)) = End(dk)
           /\ Start(RepointIn(dk, s)) = Start(dk) /\ End(RepointIn(dk, s)) = s
           /\ Ends(RepointOut(dk, s)) = {s, End(dk)} /\ Ends(RepointIn(dk, s)) = {Start(dk), s}
BY DEF RepointOut, RepointIn, Start, End, Ends

LEMMA RepointKeeps ==
    ASSUME MergeInv, TypeInv', Repoint
    PROVE  MergeInv'
<1>1. TypeInv /\ graph \in Graphs /\ Whole(graph) /\ work.out \subseteq DKs /\ work.in \subseteq DKs
  BY Parts DEF MergeInv, DataOk, WorkOk
<1>2. CASE GiveUp /\ UNCHANGED graph
  BY <1>2, IdleIsNoMerge, OnlyWork DEF Repoint, history, GiveUp
<1>3. CASE ~ (GiveUp /\ UNCHANGED graph)
  <2> DEFINE o == Obsolete
             s == Survivor
             moved(dk, e, out) ==
                /\ graph' = MergeRel(graph, e)
                /\ work'.out = IF out THEN work.out \ {dk} ELSE work.out
                /\ work'.in = IF out THEN work.in ELSE work.in \ {dk}
  <2>1. /\ SameMerge /\ work'.pc = "repoint"
        /\ \/ \E dk \in work.out : moved(dk, RepointOut(dk, s), TRUE)
           \/ \E dk \in work.in : moved(dk, RepointIn(dk, s), FALSE)
    BY <1>1, <1>3, RepointDoes
  <2>2. PICK dk \in DKs : \/ dk \in work.out /\ moved(dk, RepointOut(dk, s), TRUE)
                          \/ dk \in work.in /\ moved(dk, RepointIn(dk, s), FALSE)
    BY <1>1, <2>1
  <2>3. PICK e \in {RepointOut(dk, s), RepointIn(dk, s)} : graph' = MergeRel(graph, e)
    BY <2>2
  <2>4. Ends(e) \subseteq graph.nodes => e \in DKs
    BY <1>1, RepointedDK
  <2>5. /\ graph'.nodes = graph.nodes /\ RelKeys(graph) \subseteq RelKeys(graph')
        /\ RelKeys(graph') \subseteq RelKeys(graph) \cup {e}
        /\ Ends(e) \subseteq graph.nodes => e \in RelKeys(graph')
    BY <1>1, <2>3, <2>4, RelMerged
  <2>6. o' = o /\ s' = s
    BY <2>1 DEF SameMerge, Obsolete, Survivor, Current
  <2>7. ASSUME Orderly PROVE Repointed'
    <3>1. s \in graph.nodes /\ s # o
      BY <2>7, SurvivorIsThere DEF Repoint
    <3>2. /\ \A d \in OutRels(graph, o, s) : d \in work.out \/ RepointOut(d, s) \in RelKeys(graph)
          /\ \A d \in InRels(graph, o, s) : d \in work.in \/ RepointIn(d, s) \in RelKeys(graph)
      BY <2>7 DEF MergeInv, Repointed, Repoint
    <3> HIDE DEF o, s
    <3>3. ASSUME NEW d \in OutRels(graph', o, s)
          PROVE  d \in work'.out \/ RepointOut(d, s) \in RelKeys(graph')
      <4>1. d \in RelKeys(graph') /\ Start(d) = o /\ End(d) # s
        BY DEF OutRels
      <4>2. d # e
        BY <3>1, <4>1, RepointedEnds
      <4>3. d \in RelKeys(graph) /\ d \in OutRels(graph, o, s)
        BY <2>5, <4>1, <4>2 DEF OutRels
      <4>4. CASE d = dk /\ moved(dk, RepointOut(dk, s), TRUE)
        <5>1. End(d) \in graph.nodes
          BY <1>1, <4>3, WholeKeys
        <5>2. Ends(RepointOut(d, s)) \subseteq graph.nodes
          BY <3>1, <5>1, RepointedEnds
        <5>3. RepointOut(d, s) \in DKs
          BY <1>1, <4>4, <5>2, RepointedDK
        <5>4. RepointOut(d, s) \in RelKeys(graph')
          BY <1>1, <4>4, <5>2, <5>3, RelMerged
        <5>5. QED
          BY <5>4
      <4>5. CASE d # dk \/ ~ moved(dk, RepointOut(dk, s), TRUE)
        BY <2>2, <2>5, <3>2, <4>3, <4>5
      <4>6. QED
        BY <4>4, <4>5
    <3>4. ASSUME NEW d \in InRels(graph', o, s)
          PROVE  d \in work'.in \/ RepointIn(d, s) \in RelKeys(graph')
      <4>1. d \in RelKeys(graph') /\ End(d) = o /\ Start(d) # s
        BY DEF InRels
      <4>2. d # e
        BY <3>1, <4>1, RepointedEnds
      <4>3. d \in RelKeys(graph) /\ d \in InRels(graph, o, s)
        BY <2>5, <4>1, <4>2 DEF InRels
      <4>4. CASE d = dk /\ moved(dk, RepointIn(dk, s), FALSE)
        <5>1. Start(d) \in graph.nodes
          BY <1>1, <4>3, WholeKeys
        <5>2. Ends(RepointIn(d, s)) \subseteq graph.nodes
          BY <3>1, <5>1, RepointedEnds
        <5>3. RepointIn(d, s) \in DKs
          BY <1>1, <4>4, <5>2, RepointedDK
        <5>4. RepointIn(d, s) \in RelKeys(graph')
          BY <1>1, <4>4, <5>2, <5>3, RelMerged
        <5>5. QED
          BY <5>4
      <4>5. CASE d # dk \/ ~ moved(dk, RepointIn(dk, s), FALSE)
        BY <2>2, <2>5, <3>2, <4>3, <4>5
      <4>6. QED
        BY <4>4, <4>5
    <3>5. QED
      BY <2>6, <3>3, <3>4 DEF Repointed, o, s
  <2>8. left'.detections = left.detections
    BY <1>1, SameDate DEF Repoint
  <2>9. StillThere'
    BY <2>5, <2>8, StillThereStays DEF MergeInv, Repoint, history
  <2>10. graph'.nodes \subseteq seen'
    BY <2>5 DEF MergeInv, NewIsItself, Repoint, history
  <2>11. Orderly' => Repointed'
    BY <2>7, OrderlyBefore DEF Repoint, history
  <2>12. QED
    BY <2>5, <2>9, <2>10, <2>11, QuietStep DEF Repoint, history
<1>4. QED
  BY <1>2, <1>3

\* Once everything is repointed, what was known is in the graph between what
\* its ends are merged into now.
LEMMA NothingLost ==
    ASSUME TypeInv, NEW o, NEW s, s # o,
           \A dk \in OutRels(graph, o, s) : RepointOut(dk, s) \in RelKeys(graph),
           \A dk \in InRels(graph, o, s) : RepointIn(dk, s) \in RelKeys(graph),
           NEW dk, Start(dk) = End(dk) \/ dk \in RelKeys(graph),
           dk = <<Type(dk), Start(dk), End(dk)>>,
           NEW d, d = MergedRel(dk, o, s)
    PROVE  Start(d) = End(d) \/ (d \in RelKeys(graph) /\ o \notin Ends(d))
<1>1. /\ d = <<Type(dk), Merged(Start(dk), o, s), Merged(End(dk), o, s)>>
      /\ Start(d) = Merged(Start(dk), o, s) /\ End(d) = Merged(End(dk), o, s)
  BY DEF MergedRel, Start, End
<1>2. CASE Start(dk) = End(dk)
  BY <1>1, <1>2
<1>3. CASE Start(dk) # End(dk) /\ Start(dk) = o
  <2>1. CASE End(dk) = s
    BY <1>1, <1>3, <2>1 DEF Merged
  <2>2. CASE End(dk) # s
    <3>1. RepointOut(dk, s) \in RelKeys(graph)
      BY <1>3, <2>2 DEF OutRels
    <3>2. d = RepointOut(dk, s)
      BY <1>1, <1>3 DEF Merged, RepointOut
    <3>3. o \notin Ends(d)
      BY <1>3, <3>2, RepointedEnds
    <3>4. QED
      BY <3>1, <3>2, <3>3
  <2>3. QED
    BY <2>1, <2>2
<1>4. CASE Start(dk) # End(dk) /\ End(dk) = o
  <2>1. CASE Start(dk) = s
    BY <1>1, <1>4, <2>1 DEF Merged
  <2>2. CASE Start(dk) # s
    <3>1. RepointIn(dk, s) \in RelKeys(graph)
      BY <1>4, <2>2 DEF InRels
    <3>2. d = RepointIn(dk, s)
      BY <1>1, <1>4 DEF Merged, RepointIn
    <3>3. o \notin Ends(d)
      BY <1>4, <3>2, RepointedEnds
    <3>4. QED
      BY <3>1, <3>2, <3>3
  <2>3. QED
    BY <2>1, <2>2
<1>5. CASE Start(dk) # End(dk) /\ Start(dk) # o /\ End(dk) # o
  <2>1. d = dk
    BY <1>1, <1>5 DEF Merged
  <2>2. QED
    BY <1>5, <2>1 DEF Ends
<1>6. QED
  BY <1>2, <1>3, <1>4, <1>5

LEMMA DropObsoleteKeeps ==
    ASSUME MergeInv, TypeInv', DropObsolete
    PROVE  MergeInv'
<1> DEFINE o == Obsolete
           s == Survivor
<1>1. CASE GiveUp /\ UNCHANGED <<graph, into, known>>
  BY <1>1, IdleIsNoMerge, OnlyWork DEF DropObsolete, GiveUp
<1>2. CASE ~ (GiveUp /\ UNCHANGED <<graph, into, known>>)
  <2>1. /\ graph' = DetachDelete(graph, o)
        /\ IF o \in graph.nodes THEN MergeHistory(o, s) ELSE UNCHANGED <<into, known>>
        /\ work'.pc # "repoint" /\ work.pc = "repoint" /\ work.out = {} /\ work.in = {}
        /\ UNCHANGED <<packets, found, begun, seen, deleted>>
    BY <1>2, NotRepointing DEF DropObsolete, MergeInv
  <2>2. /\ TypeInv /\ graph \in Graphs /\ Whole(graph) /\ graph.nodes \subseteq Nodes
        /\ into \in [Nodes -> Nodes \cup {Nobody}] /\ known \subseteq Wide /\ seen \subseteq Nodes
    BY Parts, GraphShape DEF MergeInv, DataOk
  <2>3. /\ graph'.nodes = graph.nodes \ {o}
        /\ RelKeys(graph') = {d \in RelKeys(graph) : o \notin Ends(d)}
    BY <2>1, <2>2, NodeDetached
  <2>4. left'.detections = left.detections
    BY <2>2, SameDate DEF DropObsolete
  <2>5. CASE o \notin graph.nodes
    <3>1. graph'.nodes = graph.nodes /\ RelKeys(graph') = RelKeys(graph)
      BY <2>2, <2>3, <2>5, WholeKeys DEF Ends
    <3>2. StillThere'
      BY <2>1, <2>4, <3>1, StillThereStays DEF MergeInv
    <3>3. graph'.nodes \subseteq seen'
      BY <2>1, <3>1 DEF MergeInv, NewIsItself
    <3>4. QED
      BY <2>1, <2>5, <3>1, <3>2, <3>3, NothingRepointed, QuietStep
  <2>6. CASE o \in graph.nodes
    <3>1. /\ into' = [n \in Nodes |-> IF n = o THEN s ELSE Merged(into[n], o, s)]
          /\ known' = {MergedRel(dk, o, s) : dk \in known}
      BY <2>1, <2>6 DEF MergeHistory
    <3>2. StillThere'
      <4>1. /\ work.packet \in begun \cap packets /\ work.packet.gen = left.detections
            /\ PacketTyped(work.packet) /\ work.packet.class = "merge"
        BY <2>1, <2>2, CurrentPacket, CurrentStep, CurrentMerge
      <4>2. /\ work.packet.keys \in Seq(Elements) /\ Len(work.packet.keys) >= 2
            /\ Head(work.obsolete) \in Range(Tail(work.packet.keys))
            /\ o = Named(Head(work.obsolete))
        BY <2>1, <2>2, CurrentMerge DEF Obsolete
      <4> DEFINE p == work.packet
      <4> HIDE DEF p
      <4>3. PICK k \in DOMAIN p.keys : k # 1 /\ Head(work.obsolete) = p.keys[k]
        <5>1. PICK j \in DOMAIN Tail(p.keys) : Head(work.obsolete) = Tail(p.keys)[j]
          BY <4>2 DEF Range, p
        <5>2. j + 1 \in DOMAIN p.keys /\ j + 1 # 1 /\ Tail(p.keys)[j] = p.keys[j + 1]
          BY <4>2, LongerTail DEF p
        <5>3. QED
          BY <5>1, <5>2
      <4>4. p.keys[k] \in Elements /\ p.keys[1] \in Elements /\ 1 \in DOMAIN p.keys
        BY <4>2, <4>3 DEF p
      <4>5. p.keys[k] = NodeRef(o)
        BY <2>2, <2>6, <4>2, <4>3, <4>4, Names, NobodyIsNoNode
      <4>6. NodeRef(o) \in KeySet(p)
        BY <4>3, <4>5 DEF KeySet, Range
      <4>7. OfNodes(p) => Named(p.keys[1]) # o
        <5>1. SUFFICES ASSUME OfNodes(p), Named(p.keys[1]) = o PROVE FALSE
          OBVIOUS
        <5>2. p.keys[1] = NodeRef(o)
          BY <4>1, <4>4, <5>1, Names DEF PacketTyped, p
        <5>3. QED
          BY <4>1, <4>3, <4>4, <4>5, <5>1, <5>2 DEF PacketTyped, p
      <4>8. \A q \in packets : OfNodes(q) /\ Named(q.keys[1]) = o => q # p
        BY <4>7
      <4> HIDE DEF o
      <4>9. p \in begun /\ p.gen = left.detections /\ p.class \in {"merge", "delete"}
        BY <4>1 DEF p
      <4>10. QED
        BY <2>1, <2>3, <2>4, <4>6, <4>8, <4>9, StillThereLoses DEF MergeInv
    <3>3. NewIsItself'
      <4>1. o \in seen
        BY <2>6 DEF MergeInv, NewIsItself
      <4>2. ASSUME NEW n \in Nodes \ seen PROVE into'[n] = n
        <5>1. into[n] = n /\ n # o
          BY <4>1 DEF MergeInv, NewIsItself
        <5>2. QED
          BY <3>1, <5>1 DEF Merged
      <4>3. QED
        BY <2>1, <2>3, <4>2 DEF MergeInv, NewIsItself
    <3>4. ASSUME Orderly'
          PROVE  /\ \A n \in seen' : into'[n] \in graph'.nodes \cup deleted'
                 /\ \A d \in known' : Start(d) = End(d) \/ d \in RelKeys(graph')
      <4>1. Orderly
        BY <2>1, <3>4, OrderlyBefore
      <4>2. s \in graph.nodes /\ s # o
        BY <2>1, <4>1, SurvivorIsThere
      <4>3. /\ \A dk \in OutRels(graph, o, s) : RepointOut(dk, s) \in RelKeys(graph)
            /\ \A dk \in InRels(graph, o, s) : RepointIn(dk, s) \in RelKeys(graph)
        BY <2>1, <4>1 DEF MergeInv, Repointed
      <4>4. /\ \A n \in seen : into[n] \in graph.nodes \cup deleted
            /\ \A dk \in known : Start(dk) = End(dk) \/ dk \in RelKeys(graph)
        BY <4>1 DEF MergeInv, EntitiesKept, ConnectionsKept
      <4> HIDE DEF o, s
      <4>5. ASSUME NEW n \in seen PROVE into'[n] \in graph'.nodes \cup deleted'
        BY <2>1, <2>2, <2>3, <3>1, <4>2, <4>4 DEF Merged
      <4>6. ASSUME NEW dk \in known, NEW d, d = MergedRel(dk, o, s)
            PROVE  Start(d) = End(d) \/ d \in RelKeys(graph')
        <5>1. dk = <<Type(dk), Start(dk), End(dk)>>
          BY <2>2 DEF Wide, Type, Start, End
        <5>2. Start(d) = End(d) \/ (d \in RelKeys(graph) /\ o \notin Ends(d))
          BY <2>2, <4>2, <4>3, <4>4, <4>6, <5>1, NothingLost
        <5>3. QED
          BY <2>3, <5>2
      <4>7. QED
        BY <2>1, <3>1, <4>5, <4>6
    <3>5. QED
      BY <2>1, <3>2, <3>3, <3>4, NothingRepointed DEF MergeInv, EntitiesKept, ConnectionsKept
  <2>7. QED
    BY <2>5, <2>6
<1>3. QED
  BY <1>1, <1>2

LEMMA MergeStays ==
    ASSUME MergeInv, [Next]_vars
    PROVE  MergeInv'
<1>1. TypeInv'
  BY TypesStay DEF MergeInv
<1>2. CASE UNCHANGED vars
  <2>1. Repointed' <=> Repointed
    BY <1>2 DEF vars, history, Repointed, Obsolete, Survivor, Current
  <2>2. Orderly' => Repointed'
    BY <1>2, <2>1, OrderlyBefore DEF MergeInv, vars, history
  <2>3. QED
    BY <1>1, <1>2, <2>2, SameGraph DEF vars, history
<1>3. CASE AgentC
  BY <1>1, <1>3, StartKeeps, DeleteEdgeKeeps, CreateEdgeKeeps, DeleteNodeKeeps, UpdateKeeps,
     MergeNodesKeeps, ReadObsoleteKeeps, RepointKeeps, DropObsoleteKeeps, VerifyKeeps,
     DetectAroundKeeps DEF AgentC
<1>4. CASE WriteItem \/ Generate \/ Compose
  BY <1>1, <1>4, WriteItemKeeps, GenerateKeeps, ComposeKeeps
<1>5. QED
  BY <1>2, <1>3, <1>4 DEF Next

LEMMA MergeAtFirst ==
    ASSUME Init
    PROVE  MergeInv
<1>1. TypeInv
  BY TypesAtFirst
<1>2. StillThere
  BY DEF Init, StillThere
<1>3. Repointed
  BY DEF Init, Repointed, Idle
<1>4. /\ graph.nodes = seen /\ known = RelKeys(graph) /\ into = [n \in Nodes |-> n]
      /\ seen \subseteq Nodes
  BY <1>1 DEF Init, TypeInv, TypeOK
<1>5. NewIsItself /\ EntitiesKept /\ ConnectionsKept
  BY <1>4 DEF NewIsItself, EntitiesKept, ConnectionsKept
<1>6. QED
  BY <1>1, <1>2, <1>3, <1>5 DEF MergeInv

\* MergeInv is an invariant: the survivor of an orderly merge stays in the
\* graph through every attempt, and each relationship of the obsolete node is
\* still to be repointed or is at the survivor already.
THEOREM MergeInvariance == Spec => []MergeInv
<1>1. Init => MergeInv
  BY MergeAtFirst
<1>2. MergeInv /\ [Next]_vars => MergeInv'
  BY MergeStays
<1>3. QED
  BY <1>1, <1>2, PTL DEF Spec

\* However often Agent-C fails half way and its packet is repeated, an entity is
\* in the graph, is part of one that is, or was the target of a deletion.
THEOREM EntitiesAlwaysKept == Spec => []EntitiesKept
<1>1. MergeInv => EntitiesKept
  BY DEF MergeInv
<1>2. QED
  BY <1>1, MergeInvariance, PTL

\* A merge loses no relationship at any of its moments: between the transactions
\* of _apply_merge_nodes, after a failure, or when it is repeated.
THEOREM ConnectionsAlwaysKept == Spec => []ConnectionsKept
<1>1. MergeInv => ConnectionsKept
  BY DEF MergeInv
<1>2. QED
  BY <1>1, MergeInvariance, PTL

(***************************************************************************)
(* The neighbourhood of a merge                                            *)
(***************************************************************************)
LEMMA AroundNothing ==
    ASSUME work' = Idle
    PROVE  AroundInv'
<1>1. work'.pc = "idle" /\ work'.affected = {}
  BY DEF Idle
<1>2. QED
  BY <1>1 DEF AroundInv

\* Collapsing nodes is all its packet asks for.
LEMMA OneMerge ==
    ASSUME TypeInv, work.pc \in {"step", "read", "repoint"}, work.i <= Len(work.steps),
           Current.op = "merge_nodes"
    PROVE  /\ Len(work.steps) = 1 /\ work.i = 1
           /\ Current.refs = work.packet.keys
<1> DEFINE p == work.packet
<1>1. PacketTyped(p) /\ Current \in DiffSteps(p) /\ work.i \in Nat /\ work.i >= 1
  BY CurrentStep
<1>2. p.class = "merge" /\ Current.refs = p.keys /\ Len(p.keys) >= 2 /\ p.keys \in Seq(Elements)
  BY <1>1 DEF DiffSteps, StepOf, PacketTyped
<1>3. work.steps = Steps(p)
  BY DEF TypeInv, Busy, Idle
<1> HIDE DEF p
<1>4. Steps(p) = MergeSteps(p)
  BY <1>2 DEF Steps
<1>5. p.keys # <<>>
  BY <1>2
<1>6. MergeSteps(p) = <<Step("merge_nodes", p.keys)>>
  BY <1>2, <1>5 DEF MergeSteps
<1>7. Len(work.steps) = 1
  BY <1>3, <1>4, <1>6
<1>8. QED
  BY <1>1, <1>2, <1>7 DEF p

LEMMA AroundNext ==
    ASSUME TypeInv, AroundInv, work.pc = "step", work.i <= Len(work.steps),
           work' = NextStep(work)
    PROVE  AroundInv'
<1>1. work.i \in Nat /\ work.i >= 1 /\ Len(work.steps) \in Nat
  BY CurrentStep
<1>2. work.affected = {}
  <2>1. work.affected # {} => Len(work.steps) = 1 /\ work.i > 1
    BY DEF AroundInv
  <2>2. QED
    BY <1>1, <2>1
<1>3. WorkOk
  BY Parts
<1>4. work'.pc = "step" /\ work'.i = work.i + 1 /\ work'.affected = {}
  BY <1>2, <1>3 DEF WorkOk, NextStep
<1>5. work'.i # 1
  BY <1>1, <1>4
<1>6. QED
  BY <1>4, <1>5 DEF AroundInv

LEMMA AroundStart ==
    ASSUME TypeInv, StartExecution
    PROVE  AroundInv'
<1>1. PICK p \in packets :
         work' = [Idle EXCEPT !.pc = "step", !.packet = p, !.steps = Steps(p), !.before = graph]
  BY DEF StartExecution
<1>2. work'.pc = "step" /\ work'.affected = {} /\ work'.before = graph /\ graph' = graph
  BY <1>1 DEF Idle, StartExecution
<1>3. QED
  BY <1>2 DEF AroundInv

LEMMA AroundSteps ==
    ASSUME TypeInv, AroundInv, DeleteEdge \/ CreateEdge \/ DeleteNode \/ Update
    PROVE  AroundInv'
<1>1. work.pc = "step" /\ work.i <= Len(work.steps)
  BY DEF DeleteEdge, CreateEdge, DeleteNode, Update, At
<1>2. work' = NextStep(work) \/ work' = Idle
  BY DEF DeleteEdge, CreateEdge, DeleteNode, Update, GiveUp
<1>3. QED
  BY <1>1, <1>2, AroundNext, AroundNothing

LEMMA AroundMergeNodes ==
    ASSUME TypeInv, AroundInv, MergeNodes
    PROVE  AroundInv'
<1>1. /\ work.pc = "step" /\ work.i <= Len(work.steps) /\ Current.op = "merge_nodes"
      /\ graph' = graph
  BY DEF MergeNodes, At
<1>2. Len(work.steps) = 1 /\ work.i = 1 /\ Current.refs = work.packet.keys
  BY <1>1, OneMerge
<1>3. graph = work.before
  BY <1>1, <1>2 DEF AroundInv
<1>4. WorkOk
  BY Parts
<1>5. /\ work'.pc = "read" /\ work'.affected = {Survivor} /\ work'.before = work.before
      /\ work'.packet = work.packet /\ work'.steps = work.steps
  BY <1>4 DEF WorkOk, MergeNodes
<1>6. Survivor = Named(work'.packet.keys[1])
  BY <1>2, <1>5 DEF Survivor
<1>7. AroundMerge'
  BY <1>1, <1>3, <1>5, <1>6 DEF AroundMerge
<1>8. QED
  BY <1>2, <1>5, <1>7 DEF AroundInv

\* What stays of a merge from one of its steps to the next.
Steady ==
    /\ work'.packet = work.packet /\ work'.steps = work.steps /\ work'.before = work.before

LEMMA AroundReadObsolete ==
    ASSUME TypeInv, AroundInv, ReadObsolete
    PROVE  AroundInv'
<1>1. CASE GiveUp
  BY <1>1, AroundNothing DEF GiveUp
<1>2. CASE ~ GiveUp
  <2> DEFINE out == OutRels(graph, Obsolete, Survivor)
             in == InRels(graph, Obsolete, Survivor)
             far == {End(dk) : dk \in out} \cup {Start(dk) : dk \in in}
  <2>1. WorkOk
    BY Parts
  <2>2. work' = [work EXCEPT !.pc = "repoint", !.out = out, !.in = in,
                             !.affected = @ \cup {Obsolete} \cup far]
    BY <1>2 DEF ReadObsolete, ReadBoth
  <2>3. /\ work'.pc = "repoint" /\ work'.affected = work.affected \cup {Obsolete} \cup far
        /\ work'.out = out /\ work'.in = in /\ work'.obsolete = work.obsolete
        /\ Steady /\ graph' = graph
    BY <2>1, <2>2 DEF WorkOk, ReadObsolete, history, Steady
  <2>4. /\ work.pc = "read" /\ work.affected # {} /\ AroundMerge /\ Len(work.steps) = 1
    BY DEF ReadObsolete, AroundInv
  <2>5. Survivor = Named(work.packet.keys[1]) /\ Survivor \in work.affected
    BY <2>4, CurrentMerge DEF AroundMerge
  <2>6. Obsolete' = Obsolete
    BY <2>3 DEF Obsolete
  <2>7. \A dk \in out : End(dk) \in work'.affected
    BY <2>3
  <2>8. \A dk \in in : Start(dk) \in work'.affected
    BY <2>3
  <2>9. ASSUME NEW dk \in RelKeys(graph), Obsolete \in Ends(dk)
        PROVE  Ends(dk) \subseteq work'.affected
    <3>1. Start(dk) = Obsolete => End(dk) = Survivor \/ dk \in out
      BY DEF OutRels
    <3>2. End(dk) = Obsolete => Start(dk) = Survivor \/ dk \in in
      BY DEF InRels
    <3>3. Obsolete \in work'.affected /\ Survivor \in work'.affected
      BY <2>3, <2>5
    <3> HIDE DEF out, in, far
    <3>4. QED
      BY <2>7, <2>8, <2>9, <3>1, <3>2, <3>3 DEF Ends
  <2> HIDE DEF out, in, far
  <2>10. AroundMerge'
    BY <2>3, <2>4, <2>6, <2>7, <2>8, <2>9 DEF AroundMerge, Steady
  <2>11. work'.affected # {}
    BY <2>3
  <2>12. QED
    BY <2>3, <2>4, <2>10, <2>11 DEF AroundInv, Steady
<1>3. QED
  BY <1>1, <1>2

\* A relationship that MERGE adds is a new one.
LEMMA RelAdded ==
    ASSUME NEW g \in Graphs, NEW e
    PROVE  /\ g.rels \subseteq MergeRel(g, e).rels /\ MergeRel(g, e).nodes = g.nodes
           /\ \A r \in MergeRel(g, e).rels : r \in g.rels \/ r.dk = e
           /\ \A dk \in RelKeys(MergeRel(g, e)) : dk \in RelKeys(g) \/ dk = e
           /\ RelKeys(g) \subseteq RelKeys(MergeRel(g, e))
<1>1. CASE Ends(e) \subseteq g.nodes /\ e \notin RelKeys(g)
  <2>1. MergeRel(g, e).nodes = g.nodes /\ MergeRel(g, e).rels = g.rels \cup {Rel(e, 1)}
    BY <1>1 DEF MergeRel, Graphs
  <2>2. Rel(e, 1).dk = e
    BY DEF Rel
  <2>3. QED
    BY <2>1, <2>2 DEF RelKeys
<1>2. CASE ~ (Ends(e) \subseteq g.nodes /\ e \notin RelKeys(g))
  BY <1>2 DEF MergeRel, RelKeys
<1>3. QED
  BY <1>1, <1>2

LEMMA AroundRepoint ==
    ASSUME TypeInv, AroundInv, Repoint
    PROVE  AroundInv'
<1>1. CASE GiveUp /\ UNCHANGED graph
  BY <1>1, AroundNothing DEF GiveUp
<1>2. CASE ~ (GiveUp /\ UNCHANGED graph)
  <2>1. WorkOk /\ DataOk
    BY Parts
  <2>2. SameMerge /\ work'.pc = "repoint"
    BY <1>2, RepointDoes
  <2>3. Steady /\ work'.affected = work.affected
    BY <1>2, <2>1 DEF Repoint, WorkOk, Steady
  <2>4. work'.out \subseteq work.out /\ work'.in \subseteq work.in
    BY <1>2, RepointDoes
  <2>5. work.pc = "repoint" /\ work.affected # {} /\ AroundMerge /\ Len(work.steps) = 1
    BY DEF Repoint, AroundInv
  <2>6. Survivor = Named(work.packet.keys[1]) /\ Survivor \in work.affected
    BY <2>5, CurrentMerge DEF AroundMerge
  <2>7. \E e : /\ graph' = MergeRel(graph, e)
               /\ Survivor \in Ends(e) /\ Ends(e) \subseteq work.affected
    <3>1. ASSUME NEW dk \in work.out
          PROVE  /\ Survivor \in Ends(RepointOut(dk, Survivor))
                 /\ Ends(RepointOut(dk, Survivor)) \subseteq work.affected
      <4>1. Ends(RepointOut(dk, Survivor)) = {Survivor, End(dk)}
        BY DEF RepointOut, Ends, Start, End
      <4>2. End(dk) \in work.affected
        BY <2>5 DEF AroundMerge
      <4>3. QED
        BY <2>6, <4>1, <4>2
    <3>2. ASSUME NEW dk \in work.in
          PROVE  /\ Survivor \in Ends(RepointIn(dk, Survivor))
                 /\ Ends(RepointIn(dk, Survivor)) \subseteq work.affected
      <4>1. Ends(RepointIn(dk, Survivor)) = {Start(dk), Survivor}
        BY DEF RepointIn, Ends, Start, End
      <4>2. Start(dk) \in work.affected
        BY <2>5 DEF AroundMerge
      <4>3. QED
        BY <2>6, <4>1, <4>2
    <3>3. QED
      BY <1>2, <3>1, <3>2, RepointDoes
  <2>8. PICK e : /\ graph' = MergeRel(graph, e)
                 /\ Survivor \in Ends(e) /\ Ends(e) \subseteq work.affected
    BY <2>7
  <2>9. /\ graph.rels \subseteq graph'.rels /\ graph'.nodes = graph.nodes
        /\ \A r \in graph'.rels : r \in graph.rels \/ r.dk = e
        /\ \A dk \in RelKeys(graph') : dk \in RelKeys(graph) \/ dk = e
        /\ RelKeys(graph) \subseteq RelKeys(graph')
    BY <2>1, <2>8, RelAdded DEF DataOk
  <2>10. Obsolete' = Obsolete
    BY <2>2 DEF SameMerge, Obsolete
  <2>11. AroundMerge'
    BY <2>3, <2>4, <2>5, <2>6, <2>8, <2>9, <2>10 DEF AroundMerge, Steady
  <2>12. QED
    BY <2>2, <2>3, <2>5, <2>11 DEF AroundInv, Steady
<1>3. QED
  BY <1>1, <1>2

LEMMA AroundDropObsolete ==
    ASSUME TypeInv, AroundInv, DropObsolete
    PROVE  AroundInv'
<1>1. CASE GiveUp /\ UNCHANGED <<graph, into, known>>
  BY <1>1, AroundNothing DEF GiveUp
<1>2. CASE ~ (GiveUp /\ UNCHANGED <<graph, into, known>>)
  <2> DEFINE o == Obsolete
  <2>1. WorkOk /\ DataOk
    BY Parts
  <2>2. /\ graph' = DetachDelete(graph, o)
        /\ \/ work' = [work EXCEPT !.pc = "read", !.obsolete = Tail(@)]
           \/ work' = [NextStep(work) EXCEPT !.obsolete = <<>>]
    BY <1>2 DEF DropObsolete
  <2>3. /\ Steady /\ work'.affected = work.affected
        /\ \/ work'.pc = "read"
           \/ work'.pc = "step" /\ work'.i = work.i + 1
    BY <2>1, <2>2 DEF WorkOk, NextStep, Steady
  <2>4. work.pc = "repoint" /\ work.affected # {} /\ AroundMerge /\ Len(work.steps) = 1
    BY DEF DropObsolete, AroundInv
  <2>5. work.i \in Nat /\ work.i >= 1
    BY <2>4, CurrentStep
  <2>6. /\ graph'.nodes = graph.nodes \ {o}
        /\ graph'.rels = {r \in graph.rels : o \notin Ends(r.dk)}
        /\ RelKeys(graph') = {dk \in RelKeys(graph) : o \notin Ends(dk)}
    BY <2>1, <2>2, NodeDetached DEF DataOk, DetachDelete
  <2>7. \A dk \in RelKeys(graph) : o \in Ends(dk) => Ends(dk) \subseteq work.affected
    BY <2>4 DEF AroundMerge
  <2> HIDE DEF o
  <2>8. work'.pc # "repoint"
    BY <2>3
  <2>9. AroundMerge'
    BY <2>3, <2>4, <2>6, <2>7, <2>8 DEF AroundMerge, Steady
  <2>10. work'.pc = "step" => work'.i > 1
    BY <2>3, <2>5
  <2>11. work'.pc = "step" => work'.i # 1
    BY <2>3, <2>5
  <2>12. QED
    BY <2>3, <2>4, <2>9, <2>10, <2>11 DEF AroundInv, Steady
<1>3. QED
  BY <1>1, <1>2

LEMMA AroundVerify ==
    ASSUME TypeInv, AroundInv, Verify
    PROVE  AroundInv'
<1>1. CASE work' = Idle
  BY <1>1, AroundNothing
<1>2. CASE work' # Idle
  <2>1. WorkOk
    BY Parts
  <2>2. work' = [work EXCEPT !.pc = "scoped"] /\ work.affected # {} /\ graph' = graph
    BY <1>2 DEF Verify, GiveUp
  <2>3. Steady /\ work'.pc = "scoped" /\ work'.affected = work.affected
    BY <2>1, <2>2 DEF WorkOk, Steady
  <2>4. AroundMerge /\ Len(work.steps) = 1
    BY <2>2 DEF AroundInv
  <2>5. AroundMerge'
    BY <2>2, <2>3, <2>4 DEF AroundMerge, Steady
  <2>6. QED
    BY <2>2, <2>3, <2>4, <2>5 DEF AroundInv, Steady
<1>3. QED
  BY <1>1, <1>2

LEMMA AroundStays ==
    ASSUME TypeInv, AroundInv, [Next]_vars
    PROVE  AroundInv'
<1>1. CASE UNCHANGED vars
  BY <1>1 DEF vars, AroundInv, AroundMerge, Obsolete
<1>2. CASE WriteItem \/ Generate \/ Compose
  BY <1>2, AroundNothing DEF WriteItem, Generate, Compose
<1>3. CASE DetectAround
  BY <1>3, AroundNothing DEF DetectAround
<1>4. CASE AgentC /\ ~ DetectAround
  BY <1>4, AroundStart, AroundSteps, AroundMergeNodes, AroundReadObsolete, AroundRepoint,
     AroundDropObsolete, AroundVerify DEF AgentC
<1>5. QED
  BY <1>1, <1>2, <1>3, <1>4 DEF Next

LEMMA AroundAtFirst ==
    ASSUME Init
    PROVE  AroundInv
<1>1. work.pc = "idle" /\ work.affected = {}
  BY DEF Init, Idle
<1>2. QED
  BY <1>1 DEF AroundInv

(***************************************************************************)
(* The scoped detection                                                    *)
(***************************************************************************)
Twice(rels, dk) == \E x, y \in rels : x.dk = dk /\ y.dk = dk /\ x # y
Once(rels, dk) == (\E r \in rels : r.dk = dk) /\ ~ Twice(rels, dk)
Back(dk) == <<Type(dk), End(dk), Start(dk)>>
Copies(dk) == Candidate("exact_rel_dedupe_key", {dk}, {})
BothWays(dk) == Candidate("bidirectional_rel_duplicate", {dk, Back(dk)}, {})
Misfit(dk, allowed) ==
    <<Type(dk), NodeType[Start(dk)], NodeType[End(dk)]>> \notin allowed
MisfitOf(dk, allowed) ==
    Candidate(IF <<Type(dk), NodeType[End(dk)], NodeType[Start(dk)]>> \in allowed
              THEN "canonical_inverse_violation" ELSE "canonical_direction_violation",
              {dk}, Ends(dk))

LEMMA ExactFinds ==
    ASSUME NEW rels, NEW c
    PROVE  c \in ExactRelDuplicates(rels) <=> \E dk : Twice(rels, dk) /\ c = Copies(dk)
<1>1. ASSUME c \in ExactRelDuplicates(rels)
      PROVE  \E dk : Twice(rels, dk) /\ c = Copies(dk)
  <2>1. PICK x \in rels : (\E y \in rels : x.dk = y.dk /\ x # y) /\ c = Copies(x.dk)
    BY <1>1 DEF ExactRelDuplicates, Copies
  <2>2. Twice(rels, x.dk)
    BY <2>1 DEF Twice
  <2>3. QED
    BY <2>1, <2>2
<1>2. ASSUME NEW dk, Twice(rels, dk), c = Copies(dk)
      PROVE  c \in ExactRelDuplicates(rels)
  BY <1>2 DEF ExactRelDuplicates, Copies, Twice
<1>3. QED
  BY <1>1, <1>2

LEMMA ExactKeys ==
    ASSUME NEW rels, NEW dk
    PROVE  dk \in UNION {c.rels : c \in ExactRelDuplicates(rels)} <=> Twice(rels, dk)
<1>1. \A d : Copies(d).rels = {d}
  BY DEF Copies, Candidate
<1>2. ASSUME NEW c \in ExactRelDuplicates(rels), dk \in c.rels
      PROVE  Twice(rels, dk)
  <2>1. PICK d : Twice(rels, d) /\ c = Copies(d)
    BY ExactFinds
  <2>2. d = dk
    BY <1>1, <1>2, <2>1
  <2>3. QED
    BY <2>1, <2>2
<1>3. ASSUME Twice(rels, dk)
      PROVE  Copies(dk) \in ExactRelDuplicates(rels) /\ dk \in Copies(dk).rels
  BY <1>1, <1>3, ExactFinds
<1>4. QED
  BY <1>2, <1>3

LEMMA BothWaysFinds ==
    ASSUME NEW rels, NEW c
    PROVE  c \in BidirectionalDuplicates(rels) <=>
               \E dk : /\ Once(rels, dk) /\ Once(rels, Back(dk)) /\ Start(dk) # End(dk)
                       /\ c = BothWays(dk)
<1> DEFINE single == {r.dk : r \in rels} \ UNION {d.rels : d \in ExactRelDuplicates(rels)}
<1>1. \A dk : dk \in single <=> Once(rels, dk)
  <2>1. ASSUME NEW dk PROVE dk \in single <=> Once(rels, dk)
    <3>1. dk \in {r.dk : r \in rels} <=> \E r \in rels : r.dk = dk
      OBVIOUS
    <3>2. QED
      BY <3>1, ExactKeys DEF Once
  <2>2. QED
    BY <2>1
<1>2. c \in BidirectionalDuplicates(rels) <=>
          \E dk \in single : Start(dk) # End(dk) /\ Back(dk) \in single /\ c = BothWays(dk)
  <2> HIDE DEF single
  <2>1. BidirectionalDuplicates(rels) =
            {BothWays(dk) : dk \in {d \in single : Start(d) # End(d) /\ Back(d) \in single}}
    BY DEF BidirectionalDuplicates, BothWays, Back, single
  <2>2. QED
    BY <2>1
<1> HIDE DEF single
<1>3. QED
  BY <1>1, <1>2

LEMMA MisfitsFound ==
    ASSUME NEW rels, NEW allowed, NEW c
    PROVE  c \in CanonicalViolations(rels, allowed) <=>
               \E r \in rels : Misfit(r.dk, allowed) /\ c = MisfitOf(r.dk, allowed)
BY DEF CanonicalViolations, Misfit, MisfitOf

Duplicates(rels) == ExactRelDuplicates(rels) \cup BidirectionalDuplicates(rels)

\* All candidates, covered orphans among them.
AllOf(g) ==
    Duplicates(g.rels) \cup ProbableDuplicates(g, g.nodes)
    \cup CanonicalViolations(g.rels, Schema \cup Amended) \cup OrphanNodes(g) \cup FlawedNodes(g)

AllAround(g, focus) ==
    Duplicates(Touching(g, focus)) \cup ProbableDuplicates(g, focus)
    \cup CanonicalViolations(Touching(g, focus), Schema)
    \cup {c \in OrphanNodes(g) \cup FlawedNodes(g) : c.nodes \cap focus # {}}

LEMMA DetectIs ==
    ASSUME NEW g, NEW focus
    PROVE  /\ Detect(g, {1, 2, 3}) = WithoutCoveredOrphans(AllOf(g))
           /\ DetectScoped(g, focus) = WithoutCoveredOrphans(AllAround(g, focus))
<1>1. DetectScoped(g, focus) = WithoutCoveredOrphans(AllAround(g, focus))
  BY DEF DetectScoped, AllAround, Duplicates
<1>2. Detect(g, {1, 2, 3}) =
          WithoutCoveredOrphans(
              (ExactRelDuplicates(g.rels) \cup BidirectionalDuplicates(g.rels)
               \cup ProbableDuplicates(g, g.nodes))
              \cup CanonicalViolations(g.rels, Schema \cup Amended)
              \cup (OrphanNodes(g) \cup FlawedNodes(g)))
  BY DEF Detect
<1>3. (ExactRelDuplicates(g.rels) \cup BidirectionalDuplicates(g.rels)
       \cup ProbableDuplicates(g, g.nodes))
      \cup CanonicalViolations(g.rels, Schema \cup Amended)
      \cup (OrphanNodes(g) \cup FlawedNodes(g)) = AllOf(g)
  BY DEF AllOf, Duplicates
<1>4. QED
  BY <1>1, <1>2, <1>3

\* An orphan is listed unless a probable duplicate has it.
Covered(cands, n) == \E d \in cands : d.method = "probable_duplicate" /\ n \in d.nodes

LEMMA Uncovered ==
    ASSUME NEW cands, NEW c
    PROVE  /\ c.method # "orphan_node" =>
                  (c \in WithoutCoveredOrphans(cands) <=> c \in cands)
           /\ \A n : c.method = "orphan_node" /\ c.nodes = {n} =>
                  (c \in WithoutCoveredOrphans(cands) <=> c \in cands /\ ~ Covered(cands, n))
BY DEF WithoutCoveredOrphans, Covered

LEMMA TouchingTwice ==
    ASSUME NEW g, NEW focus, NEW dk, Ends(dk) \cap focus # {}
    PROVE  /\ Twice(Touching(g, focus), dk) <=> Twice(g.rels, dk)
           /\ Once(Touching(g, focus), dk) <=> Once(g.rels, dk)
<1>1. \A r : r.dk = dk => (r \in Touching(g, focus) <=> r \in g.rels)
  BY DEF Touching
<1>2. Twice(Touching(g, focus), dk) <=> Twice(g.rels, dk)
  BY <1>1 DEF Twice
<1>3. QED
  BY <1>1, <1>2 DEF Once

LEMMA TouchingIs ==
    ASSUME NEW g, NEW focus, NEW dk
    PROVE  /\ Twice(Touching(g, focus), dk) => Ends(dk) \cap focus # {}
           /\ Once(Touching(g, focus), dk) => Ends(dk) \cap focus # {}
BY DEF Touching, Twice, Once

LEMMA BackEnds ==
    ASSUME NEW dk
    PROVE  Ends(Back(dk)) = Ends(dk)
BY DEF Ends, Back, Start, End

\* A duplicate with an end in the neighbourhood is one of the neighbourhood.
LEMMA DuplicatesAround ==
    ASSUME NEW g, NEW focus
    PROVE  /\ Duplicates(Touching(g, focus)) \subseteq Duplicates(g.rels)
           /\ \A dk : Ends(dk) \cap focus # {} /\ Twice(g.rels, dk) =>
                  Copies(dk) \in Duplicates(Touching(g, focus))
           /\ \A dk : Ends(dk) \cap focus # {} /\ Start(dk) # End(dk)
                      /\ Once(g.rels, dk) /\ Once(g.rels, Back(dk)) =>
                  BothWays(dk) \in Duplicates(Touching(g, focus))
<1> DEFINE T == Touching(g, focus)
<1>1. ExactRelDuplicates(T) \subseteq ExactRelDuplicates(g.rels)
  <2>1. ASSUME NEW c \in ExactRelDuplicates(T) PROVE c \in ExactRelDuplicates(g.rels)
    <3>1. PICK dk : Twice(T, dk) /\ c = Copies(dk)
      BY ExactFinds
    <3>2. Twice(g.rels, dk)
      BY <3>1, TouchingIs, TouchingTwice
    <3>3. QED
      BY <3>1, <3>2, ExactFinds
  <2>2. QED
    BY <2>1
<1>2. BidirectionalDuplicates(T) \subseteq BidirectionalDuplicates(g.rels)
  <2>1. ASSUME NEW c \in BidirectionalDuplicates(T) PROVE c \in BidirectionalDuplicates(g.rels)
    <3>1. PICK dk : /\ Once(T, dk) /\ Once(T, Back(dk)) /\ Start(dk) # End(dk)
                    /\ c = BothWays(dk)
      BY BothWaysFinds
    <3>2. Once(g.rels, dk) /\ Once(g.rels, Back(dk))
      BY <3>1, TouchingIs, TouchingTwice
    <3>3. QED
      BY <3>1, <3>2, BothWaysFinds
  <2>2. QED
    BY <2>1
<1>3. ASSUME NEW dk, Ends(dk) \cap focus # {}, Twice(g.rels, dk)
      PROVE  Copies(dk) \in ExactRelDuplicates(T)
  <2>1. Twice(T, dk)
    BY <1>3, TouchingTwice
  <2>2. QED
    BY <2>1, ExactFinds
<1>4. ASSUME NEW dk, Ends(dk) \cap focus # {}, Start(dk) # End(dk),
             Once(g.rels, dk), Once(g.rels, Back(dk))
      PROVE  BothWays(dk) \in BidirectionalDuplicates(T)
  <2>1. Once(T, dk)
    BY <1>4, TouchingTwice
  <2>2. Once(T, Back(dk))
    BY <1>4, TouchingTwice, BackEnds
  <2>3. QED
    BY <1>4, <2>1, <2>2, BothWaysFinds
<1> HIDE DEF T
<1>5. QED
  BY <1>1, <1>2, <1>3, <1>4 DEF Duplicates, T

LEMMA ProbableAround ==
    ASSUME NEW g, NEW focus
    PROVE  /\ ProbableDuplicates(g, focus) \subseteq ProbableDuplicates(g, g.nodes)
           /\ \A n \in focus, c \in ProbableDuplicates(g, g.nodes) :
                  n \in c.nodes => c \in ProbableDuplicates(g, focus)
<1>1. ASSUME NEW c \in ProbableDuplicates(g, focus) PROVE c \in ProbableDuplicates(g, g.nodes)
  BY DEF ProbableDuplicates
<1>2. ASSUME NEW n \in focus, NEW c \in ProbableDuplicates(g, g.nodes), n \in c.nodes
      PROVE  c \in ProbableDuplicates(g, focus)
  BY <1>2 DEF ProbableDuplicates, Candidate
<1>3. QED
  BY <1>1, <1>2

LEMMA MisfitsAround ==
    ASSUME NEW g, NEW focus, NEW allowed
    PROVE  /\ CanonicalViolations(Touching(g, focus), allowed)
                  \subseteq CanonicalViolations(g.rels, allowed)
           /\ \A r \in g.rels : Ends(r.dk) \cap focus # {} /\ Misfit(r.dk, allowed) =>
                  MisfitOf(r.dk, allowed) \in CanonicalViolations(Touching(g, focus), allowed)
<1>1. \A r : r \in Touching(g, focus) <=> r \in g.rels /\ Ends(r.dk) \cap focus # {}
  BY DEF Touching
<1>2. QED
  BY <1>1, MisfitsFound

\* What kind of candidate each detector makes.
LEMMA Kinds ==
    ASSUME NEW g, NEW focus, NEW rels, NEW allowed, g.nodes \subseteq Nodes
    PROVE  /\ \A c \in Duplicates(rels) : c.method \in {"exact_rel_dedupe_key",
                                                        "bidirectional_rel_duplicate"}
           /\ \A c \in ProbableDuplicates(g, focus) :
                  c.method = "probable_duplicate" /\ c.rels = {}
           /\ \A c \in CanonicalViolations(rels, allowed) :
                  c.method \in {"canonical_inverse_violation", "canonical_direction_violation"}
           /\ \A c \in OrphanNodes(g) :
                  c.method = "orphan_node" /\ \E n \in Orphans(g) : c.nodes = {n}
           /\ \A c \in FlawedNodes(g) : /\ c.method \in {"missing_provenance_node",
                                                         "qualifier_missing"}
                                        /\ c.rels = {}
<1>1. ASSUME NEW c \in Duplicates(rels)
      PROVE  c.method \in {"exact_rel_dedupe_key", "bidirectional_rel_duplicate"}
  <2>1. \A dk : /\ Copies(dk).method = "exact_rel_dedupe_key"
                /\ BothWays(dk).method = "bidirectional_rel_duplicate"
    BY DEF Copies, BothWays, Candidate
  <2>2. (\E dk : c = Copies(dk)) \/ (\E dk : c = BothWays(dk))
    BY ExactFinds, BothWaysFinds DEF Duplicates
  <2>3. QED
    BY <2>1, <2>2
<1>2. ASSUME NEW c \in ProbableDuplicates(g, focus)
      PROVE  c.method = "probable_duplicate" /\ c.rels = {}
  BY DEF ProbableDuplicates, Candidate
<1>3. ASSUME NEW c \in CanonicalViolations(rels, allowed)
      PROVE  c.method \in {"canonical_inverse_violation", "canonical_direction_violation"}
  <2>1. PICK r \in rels : c = MisfitOf(r.dk, allowed)
    BY MisfitsFound
  <2>2. QED
    BY <2>1 DEF MisfitOf, Candidate
<1>4. ASSUME NEW c \in OrphanNodes(g)
      PROVE  c.method = "orphan_node" /\ \E n \in Orphans(g) : c.nodes = {n}
  BY DEF OrphanNodes, Candidate
<1>5. ASSUME NEW c \in FlawedNodes(g)
      PROVE  c.method \in {"missing_provenance_node", "qualifier_missing"} /\ c.rels = {}
  <2>1. PICK n \in g.nodes : \E flaw \in Flaws[n] : c = Candidate(flaw, {}, {n})
    BY DEF FlawedNodes
  <2>2. PICK flaw \in Flaws[n] : c = Candidate(flaw, {}, {n})
    BY <2>1
  <2>3. flaw \in {"missing_provenance_node", "qualifier_missing"}
    BY <2>2, GraphAssumption
  <2>4. QED
    BY <2>2, <2>3 DEF Candidate
<1>6. QED
  BY <1>1, <1>2, <1>3, <1>4, <1>5

\* Only the probable duplicates cover an orphan.
LEMMA CoveredBy ==
    ASSUME NEW g, NEW focus, NEW n, g.nodes \subseteq Nodes
    PROVE  /\ Covered(AllOf(g), n) <=> \E d \in ProbableDuplicates(g, g.nodes) : n \in d.nodes
           /\ Covered(AllAround(g, focus), n) <=>
                  \E d \in ProbableDuplicates(g, focus) : n \in d.nodes
<1>1. /\ \A c \in AllOf(g) : c.method = "probable_duplicate" <=>
              c \in ProbableDuplicates(g, g.nodes)
      /\ ProbableDuplicates(g, g.nodes) \subseteq AllOf(g)
  <2>1. ASSUME NEW c \in AllOf(g), c.method = "probable_duplicate"
        PROVE  c \in ProbableDuplicates(g, g.nodes)
    BY <2>1, Kinds DEF AllOf
  <2>2. \A c \in ProbableDuplicates(g, g.nodes) : c.method = "probable_duplicate"
    BY Kinds
  <2>3. QED
    BY <2>1, <2>2 DEF AllOf
<1>2. /\ \A c \in AllAround(g, focus) : c.method = "probable_duplicate" <=>
              c \in ProbableDuplicates(g, focus)
      /\ ProbableDuplicates(g, focus) \subseteq AllAround(g, focus)
  <2>1. ASSUME NEW c \in AllAround(g, focus), c.method = "probable_duplicate"
        PROVE  c \in ProbableDuplicates(g, focus)
    BY <2>1, Kinds DEF AllAround
  <2>2. \A c \in ProbableDuplicates(g, focus) : c.method = "probable_duplicate"
    BY Kinds
  <2>3. QED
    BY <2>1, <2>2 DEF AllAround
<1>3. QED
  BY <1>1, <1>2 DEF Covered

\* An orphan in the neighbourhood is covered there if it is covered at all.
LEMMA CoveredAround ==
    ASSUME NEW g, NEW focus, NEW n \in focus, g.nodes \subseteq Nodes
    PROVE  Covered(AllOf(g), n) <=> Covered(AllAround(g, focus), n)
BY CoveredBy, ProbableAround

LEMMA AroundIsAll ==
    ASSUME NEW g, NEW focus, Amended \subseteq Schema
    PROVE  AllAround(g, focus) \subseteq AllOf(g)
<1>1. Schema \cup Amended = Schema
  OBVIOUS
<1>2. QED
  BY <1>1, DuplicatesAround, ProbableAround, MisfitsAround DEF AllAround, AllOf

\* The scoped detection finds nothing that a full one does not.
LEMMA ScopedFindsNoMore ==
    ASSUME NEW g, NEW focus, g.nodes \subseteq Nodes, Amended \subseteq Schema
    PROVE  DetectScoped(g, focus) \subseteq Detect(g, {1, 2, 3})
<1>1. SUFFICES ASSUME NEW c, c \in WithoutCoveredOrphans(AllAround(g, focus))
               PROVE  c \in WithoutCoveredOrphans(AllOf(g))
  BY DetectIs
<1>2. c \in AllAround(g, focus) /\ c \in AllOf(g)
  BY <1>1, AroundIsAll DEF WithoutCoveredOrphans
<1>3. CASE c.method # "orphan_node"
  BY <1>2, <1>3, Uncovered
<1>4. CASE c.method = "orphan_node"
  <2>1. c \in OrphanNodes(g) /\ c.nodes \cap focus # {}
    BY <1>2, <1>4, Kinds DEF AllAround
  <2>2. PICK n \in focus : c.nodes = {n}
    BY <2>1, Kinds
  <2>3. ~ Covered(AllAround(g, focus), n)
    BY <1>1, <1>4, <2>2, Uncovered
  <2>4. ~ Covered(AllOf(g), n)
    BY <2>3, CoveredAround
  <2>5. QED
    BY <1>2, <1>4, <2>2, <2>4, Uncovered
<1>5. QED
  BY <1>3, <1>4

\* What AroundMerge says of the graph before a merge of nodes into s and after.
Nearby(b, g, focus, s) ==
    /\ s \in focus /\ g.nodes \subseteq b.nodes
    /\ \A r \in g.rels : r \in b.rels \/ s \in Ends(r.dk)
    /\ \A r \in b.rels : r.dk \in RelKeys(g) => r \in g.rels \/ s \in Ends(r.dk)
    /\ \A dk \in RelKeys(b) \ RelKeys(g) : Ends(dk) \cap g.nodes \subseteq focus

LEMMA FarIsOld ==
    ASSUME NEW b, NEW g, NEW focus, NEW s, Nearby(b, g, focus, s), NEW dk, s \notin Ends(dk)
    PROVE  /\ Twice(g.rels, dk) => Twice(b.rels, dk)
           /\ Once(g.rels, dk) => Once(b.rels, dk)
<1>1. \A r \in g.rels : r.dk = dk => r \in b.rels
  BY DEF Nearby
<1>2. dk \in RelKeys(g) => \A r \in b.rels : r.dk = dk => r \in g.rels
  BY DEF Nearby
<1>3. Twice(g.rels, dk) => Twice(b.rels, dk)
  BY <1>1 DEF Twice
<1>4. Once(g.rels, dk) => dk \in RelKeys(g)
  BY DEF Once, RelKeys
<1>5. Once(g.rels, dk) => Once(b.rels, dk)
  BY <1>1, <1>2, <1>4 DEF Once, Twice
<1>6. QED
  BY <1>3, <1>5

LEMMA NewDuplicates ==
    ASSUME NEW b, NEW g, NEW focus, NEW s, Nearby(b, g, focus, s),
           NEW c \in Duplicates(g.rels)
    PROVE  c \in Duplicates(b.rels) \/ c \in Duplicates(Touching(g, focus))
<1>1. ASSUME NEW dk, Twice(g.rels, dk), c = Copies(dk)
      PROVE  c \in Duplicates(b.rels) \/ c \in Duplicates(Touching(g, focus))
  <2>1. CASE s \in Ends(dk)
    <3>1. Ends(dk) \cap focus # {}
      BY <2>1 DEF Nearby
    <3>2. QED
      BY <1>1, <3>1, DuplicatesAround
  <2>2. CASE s \notin Ends(dk)
    BY <1>1, <2>2, FarIsOld, ExactFinds DEF Duplicates
  <2>3. QED
    BY <2>1, <2>2
<1>2. ASSUME NEW dk, Once(g.rels, dk), Once(g.rels, Back(dk)), Start(dk) # End(dk),
             c = BothWays(dk)
      PROVE  c \in Duplicates(b.rels) \/ c \in Duplicates(Touching(g, focus))
  <2>1. CASE s \in Ends(dk)
    <3>1. Ends(dk) \cap focus # {}
      BY <2>1 DEF Nearby
    <3>2. QED
      BY <1>2, <3>1, DuplicatesAround
  <2>2. CASE s \notin Ends(dk)
    <3>1. Once(b.rels, dk) /\ Once(b.rels, Back(dk))
      BY <1>2, <2>2, FarIsOld, BackEnds
    <3>2. c \in BidirectionalDuplicates(b.rels)
      BY <1>2, <3>1, BothWaysFinds
    <3>3. QED
      BY <3>2 DEF Duplicates
  <2>3. QED
    BY <2>1, <2>2
<1>3. QED
  BY <1>1, <1>2, ExactFinds, BothWaysFinds DEF Duplicates

LEMMA NewMisfits ==
    ASSUME NEW b, NEW g, NEW focus, NEW s, Nearby(b, g, focus, s), NEW allowed,
           NEW c \in CanonicalViolations(g.rels, allowed)
    PROVE  \/ c \in CanonicalViolations(b.rels, allowed)
           \/ c \in CanonicalViolations(Touching(g, focus), allowed)
<1>1. PICK r \in g.rels : Misfit(r.dk, allowed) /\ c = MisfitOf(r.dk, allowed)
  BY MisfitsFound
<1>2. CASE s \in Ends(r.dk)
  <2>1. Ends(r.dk) \cap focus # {}
    BY <1>2 DEF Nearby
  <2>2. QED
    BY <1>1, <2>1, MisfitsAround
<1>3. CASE s \notin Ends(r.dk)
  <2>1. r \in b.rels
    BY <1>3 DEF Nearby
  <2>2. QED
    BY <1>1, <2>1, MisfitsFound
<1>4. QED
  BY <1>2, <1>3

LEMMA NewOrphans ==
    ASSUME NEW b, NEW g, NEW focus, NEW s, Nearby(b, g, focus, s), NEW n \in Orphans(g)
    PROVE  n \in Orphans(b) \/ n \in focus
<1>1. n \in g.nodes /\ n \in b.nodes /\ \A dk \in RelKeys(g) : n \notin Ends(dk)
  BY DEF Orphans, Nearby
<1>2. ASSUME n \notin Orphans(b)
      PROVE  n \in focus
  <2>1. PICK dk \in RelKeys(b) : n \in Ends(dk)
    BY <1>1, <1>2 DEF Orphans
  <2>2. dk \notin RelKeys(g)
    BY <1>1, <2>1
  <2>3. QED
    BY <1>1, <2>1, <2>2 DEF Nearby
<1>3. QED
  BY <1>2

\* And it misses none that a merge has brought about.
LEMMA ScopedMissesNone ==
    ASSUME NEW b, NEW g, NEW focus, NEW s, Nearby(b, g, focus, s),
           b.nodes \subseteq Nodes, Amended \subseteq Schema,
           NEW c \in OfShape(Detect(g, {1, 2, 3}) \ Detect(b, {1, 2, 3}))
    PROVE  \/ c \in DetectScoped(g, focus)
           \/ c.method = "orphan_node" /\ c.nodes \subseteq Orphans(b)
<1>1. g.nodes \subseteq Nodes /\ Schema \cup Amended = Schema
  BY DEF Nearby
<1>2. /\ c \in WithoutCoveredOrphans(AllOf(g)) /\ c \notin WithoutCoveredOrphans(AllOf(b))
      /\ c.rels # {} \/ c.method = "orphan_node"
  BY DetectIs DEF OfShape
<1>3. c \in AllOf(g)
  BY <1>2 DEF WithoutCoveredOrphans
<1>4. CASE c.method # "orphan_node"
  <2>1. c \notin AllOf(b)
    BY <1>2, <1>4, Uncovered
  <2>2. c \in Duplicates(g.rels) \/ c \in CanonicalViolations(g.rels, Schema)
    BY <1>1, <1>2, <1>3, <1>4, Kinds DEF AllOf
  <2>3. c \notin Duplicates(b.rels) /\ c \notin CanonicalViolations(b.rels, Schema)
    BY <1>1, <2>1 DEF AllOf
  <2>4. \/ c \in Duplicates(Touching(g, focus))
        \/ c \in CanonicalViolations(Touching(g, focus), Schema)
    BY <2>2, <2>3, NewDuplicates, NewMisfits
  <2>5. c \in AllAround(g, focus)
    BY <2>4 DEF AllAround
  <2>6. QED
    BY <1>4, <2>5, Uncovered, DetectIs
<1>5. CASE c.method = "orphan_node"
  <2>1. c \in OrphanNodes(g)
    BY <1>1, <1>3, <1>5, Kinds DEF AllOf
  <2>2. PICK n \in Orphans(g) : c.nodes = {n}
    BY <1>1, <2>1, Kinds
  <2>3. CASE n \in Orphans(b)
    BY <1>5, <2>2, <2>3
  <2>4. CASE n \in focus
    <3>1. ~ Covered(AllOf(g), n)
      BY <1>2, <1>5, <2>2, Uncovered
    <3>2. ~ Covered(AllAround(g, focus), n)
      BY <1>1, <2>4, <3>1, CoveredAround
    <3>3. c \in AllAround(g, focus)
      BY <2>1, <2>2, <2>4 DEF AllAround
    <3>4. QED
      BY <1>5, <2>2, <3>2, <3>3, Uncovered, DetectIs
  <2>5. QED
    BY <2>3, <2>4, NewOrphans
<1>6. QED
  BY <1>4, <1>5

\* Agent-C compares graphs of known nodes.
BeforeTyped == work.pc # "idle" => work.before \in Graphs

LEMMA BeforeStays ==
    ASSUME TypeInv, BeforeTyped, [Next]_vars
    PROVE  BeforeTyped'
<1>1. WorkOk /\ DataOk
  BY Parts
<1>2. ASSUME work'.before = work.before, work.pc # "idle"
      PROVE  BeforeTyped'
  BY <1>2 DEF BeforeTyped
<1>3. CASE work' = Idle
  <2>1. work'.pc = "idle"
    BY <1>3 DEF Idle
  <2>2. QED
    BY <2>1 DEF BeforeTyped
<1>4. CASE StartExecution
  <2>1. work'.before = graph
    BY <1>4 DEF StartExecution, Idle
  <2>2. QED
    BY <1>1, <2>1 DEF BeforeTyped, DataOk
<1>5. CASE WriteItem \/ Generate \/ Compose \/ DetectAround
  BY <1>3, <1>5 DEF WriteItem, Generate, Compose, DetectAround
<1>6. CASE DeleteEdge \/ CreateEdge \/ DeleteNode \/ Update
  <2>1. work.pc # "idle"
    BY <1>6 DEF DeleteEdge, CreateEdge, DeleteNode, Update, At
  <2>2. work' = NextStep(work) \/ work' = Idle
    BY <1>6 DEF DeleteEdge, CreateEdge, DeleteNode, Update, GiveUp
  <2>3. work'.before = work.before \/ work' = Idle
    BY <1>1, <2>2 DEF WorkOk, NextStep
  <2>4. QED
    BY <1>2, <1>3, <2>1, <2>3
<1>7. CASE MergeNodes \/ ReadObsolete \/ Repoint \/ DropObsolete \/ Verify
  <2>1. work.pc # "idle"
    BY <1>7 DEF MergeNodes, ReadObsolete, Repoint, DropObsolete, Verify, At
  <2>2. CASE MergeNodes
    BY <1>1, <1>2, <2>1, <2>2 DEF MergeNodes, WorkOk
  <2>3. CASE ReadObsolete
    <3>1. work'.before = work.before \/ work' = Idle
      BY <1>1, <2>3 DEF ReadObsolete, WorkOk, GiveUp
    <3>2. QED
      BY <1>2, <1>3, <2>1, <3>1
  <2>4. CASE Repoint
    <3>1. work'.before = work.before \/ work' = Idle
      BY <1>1, <2>4 DEF Repoint, WorkOk, GiveUp
    <3>2. QED
      BY <1>2, <1>3, <2>1, <3>1
  <2>5. CASE DropObsolete
    <3>1. work'.before = work.before \/ work' = Idle
      BY <1>1, <2>5 DEF DropObsolete, WorkOk, GiveUp, NextStep
    <3>2. QED
      BY <1>2, <1>3, <2>1, <3>1
  <2>6. CASE Verify
    <3>1. work'.before = work.before \/ work' = Idle
      BY <1>1, <2>6 DEF Verify, WorkOk, GiveUp
    <3>2. QED
      BY <1>2, <1>3, <2>1, <3>1
  <2>7. QED
    BY <1>7, <2>2, <2>3, <2>4, <2>5, <2>6
<1>8. CASE UNCHANGED vars
  BY <1>8 DEF vars, BeforeTyped
<1>9. QED
  BY <1>4, <1>5, <1>6, <1>7, <1>8 DEF Next, AgentC

NeighbourhoodInv == TypeInv /\ BeforeTyped /\ AroundInv

LEMMA ScopedStep ==
    ASSUME NeighbourhoodInv, Amended \subseteq Schema, Next, work.pc = "scoped", scoped' # None
    PROVE  /\ \A c \in OfShape(Detect(graph, {1, 2, 3}) \ Detect(work.before, {1, 2, 3})) :
                 \/ c \in scoped'
                 \/ c.method = "orphan_node" /\ c.nodes \subseteq Orphans(work.before)
           /\ scoped' \subseteq Detect(graph, {1, 2, 3})
<1> DEFINE s == Named(work.packet.keys[1])
           b == work.before
<1>1. work # Idle
  BY DEF Idle
<1>2. DetectAround
  BY <1>1 DEF Next, AgentC, WriteItem, Generate, Compose, StartExecution, DeleteEdge, CreateEdge,
     DeleteNode, Update, MergeNodes, ReadObsolete, Repoint, DropObsolete, Verify, At
<1>3. scoped' = DetectScoped(graph, work.affected)
  BY <1>2 DEF DetectAround, Focus
<1>4. b \in Graphs /\ b.nodes \subseteq Nodes
  BY GraphShape DEF NeighbourhoodInv, BeforeTyped
<1>5. Nearby(b, graph, work.affected, s)
  BY DEF NeighbourhoodInv, AroundInv, AroundMerge, Nearby
<1>6. graph.nodes \subseteq Nodes
  BY DEF NeighbourhoodInv, TypeInv, TypeOK
<1> HIDE DEF s, b
<1>7. scoped' \subseteq Detect(graph, {1, 2, 3})
  BY <1>3, <1>6, ScopedFindsNoMore
<1>8. \A c \in OfShape(Detect(graph, {1, 2, 3}) \ Detect(b, {1, 2, 3})) :
         c \in scoped' \/ (c.method = "orphan_node" /\ c.nodes \subseteq Orphans(b))
  BY <1>3, <1>4, <1>5, ScopedMissesNone
<1>9. QED
  BY <1>7, <1>8 DEF b

\* NeighbourhoodInv is an invariant: while Agent-C collapses nodes, all that has
\* come to the graph or gone from it is in the neighbourhood it has collected,
\* whatever the order in which the relationships are repointed.
THEOREM NeighbourhoodInvariance == Spec => []NeighbourhoodInv
<1>1. Init => NeighbourhoodInv
  <2>1. Init => BeforeTyped
    BY DEF Init, Idle, BeforeTyped
  <2>2. QED
    BY <2>1, TypesAtFirst, AroundAtFirst DEF NeighbourhoodInv
<1>2. NeighbourhoodInv /\ [Next]_vars => NeighbourhoodInv'
  BY TypesStay, BeforeStays, AroundStays DEF NeighbourhoodInv
<1>3. QED
  BY <1>1, <1>2, PTL DEF Spec

\* With no amendment beyond the schema the scoped detection after a merge misses
\* no candidate of the shape that the merge has brought about, though it looks at
\* the keys collected on the way only, and finds none that a detection on the whole
\* graph does not.
THEOREM ScopedIsExact ==
    ASSUME Amended \subseteq Schema
    PROVE  Spec => ScopedExact
<1>1. NeighbourhoodInv /\ [Next]_vars =>
        [work.pc = "scoped" /\ scoped' # None =>
          /\ \A c \in OfShape(Detect(graph, {1, 2, 3}) \ Detect(work.before, {1, 2, 3})) :
                \/ c \in scoped'
                \/ c.method = "orphan_node" /\ c.nodes \subseteq Orphans(work.before)
          /\ scoped' \subseteq Detect(graph, {1, 2, 3})]_vars
  BY ScopedStep
<1>2. QED
  BY <1>1, NeighbourhoodInvariance, PTL DEF Spec, ScopedExact

(***************************************************************************)
(* What a packet is built of                                               *)
(***************************************************************************)
\* A candidate that is found is there.
LEMMA DetectPresent ==
    ASSUME NEW g \in Graphs, Whole(g), NEW stages, NEW c \in Detect(g, stages)
    PROVE  c.nodes \subseteq g.nodes /\ c.rels \subseteq RelKeys(g)
<1>1. c.nodes \subseteq g.nodes
  BY DetectSights DEF Sighted
<1>2. ASSUME c \in ExactRelDuplicates(g.rels)
      PROVE  c.rels \subseteq RelKeys(g)
  BY <1>2 DEF ExactRelDuplicates, Candidate, RelKeys
<1>3. ASSUME c \in BidirectionalDuplicates(g.rels)
      PROVE  c.rels \subseteq RelKeys(g)
  <2>1. PICK dk : Once(g.rels, dk) /\ Once(g.rels, Back(dk)) /\ c = BothWays(dk)
    BY <1>3, BothWaysFinds
  <2>2. c.rels = {dk, Back(dk)}
    BY <2>1 DEF BothWays, Candidate
  <2>3. QED
    BY <2>1, <2>2 DEF Once, RelKeys
<1>4. ASSUME c \in CanonicalViolations(g.rels, Schema \cup Amended)
      PROVE  c.rels \subseteq RelKeys(g)
  <2>1. PICK r \in g.rels : c = MisfitOf(r.dk, Schema \cup Amended)
    BY <1>4, MisfitsFound
  <2>2. c.rels = {r.dk}
    BY <2>1 DEF MisfitOf, Candidate
  <2>3. QED
    BY <2>2 DEF RelKeys
<1>5. ASSUME c \in ProbableDuplicates(g, g.nodes) \cup OrphanNodes(g) \cup FlawedNodes(g)
      PROVE  c.rels \subseteq RelKeys(g)
  BY <1>5 DEF ProbableDuplicates, OrphanNodes, FlawedNodes, Candidate
<1>6. QED
  BY <1>1, <1>2, <1>3, <1>4, <1>5 DEF Detect, WithoutCoveredOrphans

LEMMA DetectForms ==
    ASSUME NEW g \in Graphs, Whole(g), NEW stages, NEW c \in Detect(g, stages)
    PROVE  Formed(c)
<1>1. g.nodes \subseteq Nodes
  BY GraphShape
<1>2. ASSUME c \in ExactRelDuplicates(g.rels)
      PROVE  Formed(c)
  <2>1. PICK dk : c = Copies(dk)
    BY <1>2, ExactFinds
  <2>2. c.method = "exact_rel_dedupe_key" /\ c.rels = {dk}
    BY <2>1 DEF Copies, Candidate
  <2>3. QED
    BY <2>2 DEF Formed
<1>3. ASSUME c \in BidirectionalDuplicates(g.rels)
      PROVE  Formed(c)
  <2>1. PICK dk : Once(g.rels, dk) /\ Start(dk) # End(dk) /\ c = BothWays(dk)
    BY <1>3, BothWaysFinds
  <2>2. c.method = "bidirectional_rel_duplicate" /\ c.rels = {dk, Back(dk)} /\ c.nodes = {}
    BY <2>1 DEF BothWays, Candidate
  <2>3. dk \in DKs
    BY <2>1, GraphShape DEF Once
  <2>4. QED
    BY <2>1, <2>2, <2>3 DEF Formed, Back
<1>4. ASSUME c \in ProbableDuplicates(g, g.nodes)
      PROVE  Formed(c)
  <2>1. PICK p \in Alike : c = Candidate("probable_duplicate", {}, p)
    BY <1>4 DEF ProbableDuplicates
  <2>2. c.method = "probable_duplicate" /\ c.rels = {} /\ c.nodes = p
    BY <2>1 DEF Candidate
  <2>3. Cardinality(p) = 2
    BY GraphAssumption
  <2>4. c.nodes # {}
    BY <2>2, <2>3, FS_EmptySet
  <2>5. QED
    BY <2>2, <2>3, <2>4 DEF Formed
<1>5. ASSUME c \in CanonicalViolations(g.rels, Schema \cup Amended)
      PROVE  Formed(c)
  <2>1. PICK r \in g.rels : c = MisfitOf(r.dk, Schema \cup Amended)
    BY <1>5, MisfitsFound
  <2>2. c.rels = {r.dk}
    BY <2>1 DEF MisfitOf, Candidate
  <2>3. c.method \in {"canonical_inverse_violation", "canonical_direction_violation"}
    BY <1>1, <1>5, Kinds
  <2>4. QED
    BY <2>2, <2>3 DEF Formed
<1>6. ASSUME c \in OrphanNodes(g)
      PROVE  Formed(c)
  <2>1. c.method = "orphan_node" /\ c.nodes # {}
    BY <1>1, <1>6, Kinds
  <2>2. QED
    BY <2>1 DEF Formed
<1>7. ASSUME c \in FlawedNodes(g)
      PROVE  Formed(c)
  <2>1. c.method \in {"missing_provenance_node", "qualifier_missing"}
    BY <1>1, <1>7, Kinds
  <2>2. c.nodes # {}
    BY <1>7 DEF FlawedNodes, Candidate
  <2>3. QED
    BY <2>1, <2>2 DEF Formed
<1>8. QED
  BY <1>2, <1>3, <1>4, <1>5, <1>6, <1>7 DEF Detect, WithoutCoveredOrphans

LEMMA SomeCluster ==
    ASSUME NEW cands \in SUBSET Candidates, NEW cluster \in Clusters(cands)
    PROVE  /\ cluster \subseteq cands /\ cluster # {} /\ IsFiniteSet(cluster)
           /\ cluster \subseteq Candidates
<1>1. cluster \subseteq cands /\ cluster \subseteq Candidates
  BY ClustersAreFound
<1>2. IsFiniteSet(cluster)
  BY <1>1, FiniteCandidates, FS_Subset
<1>3. CASE ~ left.together
  BY <1>1, <1>2, <1>3 DEF Clusters
<1>4. CASE left.together
  <2> DEFINE list == Listed(cands)
             refs == [i \in DOMAIN list |-> Refs(list[i])]
  <2>1. cluster \in {{list[i] : i \in g} : g \in Groups(refs)}
    BY <1>4 DEF Clusters
  <2> HIDE DEF list, refs
  <2>2. PICK g \in Groups(refs) : cluster = {list[i] : i \in g}
    BY <2>1
  <2>3. g # {}
    BY <2>2, GroupsCover
  <2>4. QED
    BY <1>1, <1>2, <2>2, <2>3
<1>5. QED
  BY <1>3, <1>4

LEMMA FiniteRefs ==
    ASSUME NEW c \in Candidates
    PROVE  IsFiniteSet(Refs(c))
<1> DEFINE refs == {NodeRef(n) : n \in c.nodes}
           f == [n \in c.nodes |-> NodeRef(n)]
<1>1. c.rels \in SUBSET DKs /\ c.nodes \in SUBSET Nodes
  BY DEF Candidates
<1>2. IsFiniteSet(c.rels)
  BY <1>1, FiniteDKs, FS_Subset
<1>3. IsFiniteSet(c.nodes)
  BY <1>1, GraphAssumption, FS_Subset
<1>4. f \in Surjection(c.nodes, refs)
  BY DEF Surjection
<1> HIDE DEF f
<1>5. IsFiniteSet(refs)
  BY <1>3, <1>4, FS_Surjection
<1> HIDE DEF refs
<1>6. IsFiniteSet(c.rels \cup refs)
  BY <1>2, <1>5, FS_Union
<1>7. QED
  BY <1>6 DEF Refs, refs

PairKinds == {"probable_duplicate", "bidirectional_rel_duplicate"}

\* A pair of opposite relationships shares its elements with no other pair.
LEMMA PairsApart ==
    ASSUME NEW b \in Candidates, Formed(b), b.method = "bidirectional_rel_duplicate",
           NEW c \in Candidates, Formed(c), c.method \in PairKinds,
           Refs(b) \cap Refs(c) # {}
    PROVE  b = c
<1>1. b.nodes = {} /\ b.rels \subseteq DKs /\ c.rels \subseteq DKs
  BY DEF Formed, Candidates
<1>2. Refs(b) = b.rels
  BY <1>1 DEF Refs
<1>3. PICK d \in DKs : d \in b.rels /\ d \in Refs(c)
  BY <1>1, <1>2
<1>4. ~ IsNodeRef(d)
  BY DKShape
<1>5. d \in c.rels
  BY <1>3, <1>4 DEF Refs, NodeRef, IsNodeRef
<1>6. c.method = "bidirectional_rel_duplicate"
  BY <1>5 DEF Formed, PairKinds
<1>7. PICK x \in DKs : b.rels = {x, <<Type(x), End(x), Start(x)>>}
  BY DEF Formed
<1>8. PICK y \in DKs : c.rels = {y, <<Type(y), End(y), Start(y)>>}
  BY <1>6 DEF Formed
<1>9. \A z \in DKs : z = <<Type(z), Start(z), End(z)>>
  BY DKShape
<1>10. \A z \in DKs : d \in {z, <<Type(z), End(z), Start(z)>>} =>
          {z, <<Type(z), End(z), Start(z)>>} = {d, <<Type(d), End(d), Start(d)>>}
  <2>1. ASSUME NEW z \in DKs, d = <<Type(z), End(z), Start(z)>>
        PROVE  <<Type(d), End(d), Start(d)>> = z
    <3>1. Type(d) = Type(z) /\ Start(d) = End(z) /\ End(d) = Start(z)
      BY <2>1 DEF Type, Start, End
    <3>2. QED
      BY <1>9, <3>1
  <2>2. QED
    BY <2>1
<1>11. b.rels = c.rels
  BY <1>3, <1>5, <1>7, <1>8, <1>10
<1>12. c.nodes = {}
  BY <1>6 DEF Formed
<1>13. QED
  BY <1>1, <1>6, <1>11, <1>12 DEF Candidates

\* So a cluster of pairs that has such a pair has nothing else.
LEMMA OppositesAlone ==
    ASSUME NEW cands \in SUBSET Candidates, \A c \in cands : Formed(c),
           NEW cluster \in Clusters(cands), \A c \in cluster : c.method \in PairKinds,
           NEW b \in cluster, b.method = "bidirectional_rel_duplicate"
    PROVE  cluster = {b}
<1>1. CASE ~ left.together
  BY <1>1 DEF Clusters
<1>2. CASE left.together
  <2> DEFINE list == Listed(cands)
             refs == [i \in DOMAIN list |-> Refs(list[i])]
  <2>1. IsFiniteSet(cands)
    BY FiniteCandidates, FS_Subset
  <2>2. /\ list \in Seq(cands) /\ DOMAIN list = 1 .. Cardinality(cands)
        /\ Cardinality(cands) \in Nat
    BY <2>1, ListedIsSequence, FS_CardinalityType
  <2>3. PICK g \in Groups(refs) : cluster = {list[i] : i \in g}
    BY <1>2 DEF Clusters
  <2> HIDE DEF list
  <2>4. \A i \in DOMAIN list : list[i] \in cands
    BY <2>2
  <2>5. IsList(refs)
    <3>1. DOMAIN refs = 1 .. Cardinality(cands) /\ IsFiniteSet(DOMAIN refs)
      BY <2>2, FS_Interval
    <3>2. DOMAIN refs \subseteq 0 .. Cardinality(cands)
      BY <2>2, <3>1
    <3>3. \A i \in DOMAIN refs : IsFiniteSet(refs[i])
      BY <2>4, FiniteRefs
    <3>4. QED
      BY <2>2, <3>1, <3>2, <3>3 DEF IsList
  <2> DEFINE X == {i \in g : list[i] = b}
  <2>6. g \subseteq DOMAIN refs
    BY <2>3, GroupsCover
  <2>7. ASSUME NEW i \in X, NEW k \in DOMAIN refs, refs[i] \cap refs[k] # {}
        PROVE  k \in X
    <3>1. PICK h \in Groups(refs) : k \in h
      BY GroupsCover
    <3> HIDE DEF refs
    <3>2. k \in g
      BY <2>3, <2>5, <2>7, <3>1, GroupsApart
    <3> USE DEF refs
    <3>3. list[k] \in cluster /\ list[i] = b
      BY <2>3, <3>2
    <3>4. list[k] \in cands /\ b \in cands /\ list[k] \in Candidates /\ b \in Candidates
      BY <2>4, <2>6, <3>2, <3>3
    <3>5. refs[i] = Refs(b) /\ refs[k] = Refs(list[k])
      BY <2>6, <3>3
    <3>6. list[k] = b
      BY <2>7, <3>3, <3>4, <3>5, PairsApart
    <3>7. QED
      BY <3>2, <3>6
  <2>8. X \in SUBSET DOMAIN refs /\ Separate(refs, X)
    <3>1. X \in SUBSET DOMAIN refs
      BY <2>6
    <3> HIDE DEF refs, X
    <3>2. \A i, k \in DOMAIN refs : refs[i] \cap refs[k] # {} => (i \in X <=> k \in X)
      BY <2>7
    <3>3. QED
      BY <3>1, <3>2 DEF Separate
  <2>9. PICK i \in g : list[i] = b
    BY <2>3
  <2>10. i \in X
    BY <2>9
  <2> HIDE DEF refs, X
  <2>11. g \subseteq X
    BY <2>3, <2>5, <2>8, <2>10, GroupsTied
  <2>12. QED
    BY <2>3, <2>9, <2>11 DEF X
<1>3. QED
  BY <1>1, <1>2

\* Every node of a set is among its keys.
LEMMA NodeRefsCover ==
    ASSUME NEW S \in SUBSET Nodes, NEW n \in S
    PROVE  /\ Len(NodeRefs(S)) = Cardinality(S) /\ Cardinality(S) \in Nat
           /\ \E k \in DOMAIN NodeRefs(S) : NodeRefs(S)[k] = NodeRef(n)
<1> DEFINE q == NodeRefs(S)
           D == 1 .. Cardinality(S)
           f == [k \in D |-> Named(q[k])]
<1>1. IsFiniteSet(S) /\ Cardinality(S) \in Nat
  BY GraphAssumption, FS_Subset, FS_CardinalityType
<1>2. /\ q \in Seq(Elements) /\ DOMAIN q = D
      /\ \A k \in DOMAIN q : \E m \in S : q[k] = NodeRef(m)
      /\ \A j, k \in DOMAIN q : q[j] = q[k] => j = k
  BY NodeRefsOfSet
<1> HIDE DEF q
<1>3. Len(q) = Cardinality(S)
  BY <1>1, <1>2
<1>4. \A k \in D : Named(q[k]) \in S /\ q[k] = NodeRef(Named(q[k]))
  <2>1. ASSUME NEW k \in D PROVE Named(q[k]) \in S /\ q[k] = NodeRef(Named(q[k]))
    <3>1. PICK m \in S : q[k] = NodeRef(m)
      BY <1>2
    <3>2. Named(NodeRef(m)) = m
      BY NodeRefIsElement
    <3>3. QED
      BY <3>1, <3>2
  <2>2. QED
    BY <2>1
<1>5. SUFFICES ASSUME \A k \in D : q[k] # NodeRef(n)
               PROVE  FALSE
  BY <1>1, <1>2, <1>3 DEF q
<1>6. \A k \in D : Named(q[k]) # n
  BY <1>4, <1>5
<1>7. f \in [D -> S \ {n}]
  BY <1>4, <1>6
<1>8. IsFiniteSet(D) /\ Cardinality(D) = Cardinality(S)
  BY <1>1, FS_Interval
<1>9. IsFiniteSet(S \ {n}) /\ Cardinality(S \ {n}) < Cardinality(S)
  <2>1. Cardinality(S \ {n}) = Cardinality(S) - 1 /\ IsFiniteSet(S \ {n})
    BY <1>1, FS_RemoveElement
  <2>2. QED
    BY <1>1, <2>1
<1> HIDE DEF D
<1>10. Cardinality(S \ {n}) < Cardinality(D)
  BY <1>8, <1>9
<1>11. \E x, y \in D : x # y /\ f[x] = f[y]
  <2> HIDE DEF f
  <2>1. QED
    BY <1>7, <1>8, <1>9, <1>10, FS_PigeonHole
<1>12. PICK x \in D, y \in D : x # y /\ f[x] = f[y]
  BY <1>11
<1>13. q[x] = q[y]
  BY <1>4, <1>12
<1>14. QED
  BY <1>2, <1>12, <1>13

\* The relationships of a candidate, in order.
LEMMA RelsOfCandidate ==
    ASSUME NEW c \in Candidates
    PROVE  /\ c.rels = {} => RelsOf(c) = <<>>
           /\ c.rels # {} => RelsOf(c) # <<>> /\ RelsOf(c)[1] \in c.rels
           /\ Formed(c) /\ c.method = "bidirectional_rel_duplicate" =>
                  Len(RelsOf(c)) = 2 /\ RelsOf(c)[2] \in c.rels
<1>1. c.rels \in SUBSET DKs /\ IsFiniteSet(c.rels) /\ Cardinality(c.rels) \in Nat
  BY FiniteDKs, FS_Subset, FS_CardinalityType DEF Candidates
<1>2. ASSUME c.rels = {}
      PROVE  RelsOf(c) = <<>>
  <2>1. Cardinality(c.rels) = 0
    BY <1>2, FS_EmptySet
  <2>2. RelsOf(c) = Listed(c.rels)
    BY <2>1 DEF RelsOf
  <2>3. QED
    BY <1>2, <2>2, NothingListed
<1>3. ASSUME Cardinality(c.rels) < 2, c.rels # {}
      PROVE  RelsOf(c) # <<>> /\ RelsOf(c)[1] \in c.rels
  <2> DEFINE q == Listed(c.rels)
  <2>1. RelsOf(c) = q
    BY <1>3 DEF RelsOf
  <2>2. q \in Seq(c.rels) /\ DOMAIN q = 1 .. Len(q) /\ Len(q) = Cardinality(c.rels)
    BY <1>1, ListedIsSequence
  <2>3. Len(q) # 0
    BY <1>1, <1>3, <2>2, FS_EmptySet
  <2> HIDE DEF q
  <2>4. q # <<>> /\ 1 \in DOMAIN q
    BY <2>2, <2>3
  <2>5. QED
    BY <2>1, <2>2, <2>4
<1>4. ASSUME ~ Cardinality(c.rels) < 2
      PROVE  \E dk \in c.rels : RelsOf(c) = <<dk, <<Type(dk), End(dk), Start(dk)>>>>
  <2> DEFINE dk == CHOOSE d \in c.rels : Start(d) < End(d)
  <2>1. \E d \in c.rels : Start(d) < End(d)
    BY <1>4 DEF Candidates
  <2>2. dk \in c.rels
    BY <2>1
  <2>3. RelsOf(c) = <<dk, <<Type(dk), End(dk), Start(dk)>>>>
    BY <1>4 DEF RelsOf
  <2> HIDE DEF dk
  <2>4. QED
    BY <2>2, <2>3
<1>5. ASSUME ~ Cardinality(c.rels) < 2
      PROVE  RelsOf(c) # <<>> /\ RelsOf(c)[1] \in c.rels
  <2>1. PICK dk \in c.rels : RelsOf(c) = <<dk, <<Type(dk), End(dk), Start(dk)>>>>
    BY <1>4, <1>5
  <2>2. QED
    BY <2>1
<1>6. ASSUME Formed(c), c.method = "bidirectional_rel_duplicate"
      PROVE  Len(RelsOf(c)) = 2 /\ RelsOf(c)[2] \in c.rels
  <2>1. PICK x \in DKs : Start(x) # End(x) /\ c.rels = {x, <<Type(x), End(x), Start(x)>>}
    BY <1>6 DEF Formed
  <2> DEFINE y == <<Type(x), End(x), Start(x)>>
  <2>2. Type(y) = Type(x) /\ Start(y) = End(x) /\ End(y) = Start(x)
    BY DEF Type, Start, End
  <2>3. <<Type(y), End(y), Start(y)>> = x
    BY <2>2, DKShape
  <2>4. x # y
    BY <2>1, <2>2
  <2>5. IsFiniteSet({x}) /\ Cardinality({x}) = 1
    BY FS_Singleton
  <2>6. Cardinality({x} \cup {y}) = 2
    <3> HIDE DEF y
    <3>1. y \notin {x}
      BY <2>4
    <3>2. Cardinality({x} \cup {y}) = 1 + 1
      BY <2>5, <3>1, FS_AddElement
    <3>3. QED
      BY <3>2
  <2>7. c.rels = {x} \cup {y}
    BY <2>1
  <2> HIDE DEF y
  <2>8. Cardinality(c.rels) = 2
    BY <2>6, <2>7
  <2>9. PICK dk \in c.rels : RelsOf(c) = <<dk, <<Type(dk), End(dk), Start(dk)>>>>
    BY <1>4, <2>8
  <2>10. dk = x \/ dk = y
    BY <2>7
  <2>11. <<Type(dk), End(dk), Start(dk)>> \in c.rels
    BY <2>3, <2>7, <2>10 DEF y
  <2>12. QED
    BY <2>9, <2>11
<1>7. QED
  BY <1>2, <1>3, <1>5, <1>6

LEMMA NoNodeRefs == NodeRefs({}) = <<>>
<1>1. Cardinality({}) = 0 /\ {} \in SUBSET Nodes
  BY FS_EmptySet
<1>2. NodeRefs({}) \in Seq(Elements) /\ DOMAIN NodeRefs({}) = 1 .. 0
  BY <1>1, NodeRefsOfSet
<1>3. QED
  BY <1>2

LEMMA KeyOfNode ==
    ASSUME NEW S \in SUBSET Nodes, NEW c, c.nodes \subseteq S, NEW n \in c.nodes
    PROVE  \E ref \in Range(NodeRefs(S)) : NodeIn(ref, c)
<1>1. PICK k \in DOMAIN NodeRefs(S) : NodeRefs(S)[k] = NodeRef(n)
  BY NodeRefsCover
<1>2. NodeIn(NodeRef(n), c)
  BY NodeRefIsElement DEF NodeIn
<1>3. QED
  BY <1>1, <1>2 DEF Range

\* Of two nodes one is behind the first key.
LEMMA BehindTheFirst ==
    ASSUME NEW S \in SUBSET Nodes, NEW c, c.nodes \subseteq S, Cardinality(c.nodes) = 2
    PROVE  /\ Len(NodeRefs(S)) >= 2
           /\ \E ref \in Behind(NodeRefs(S)) : NodeIn(ref, c)
<1> DEFINE q == NodeRefs(S)
<1>1. \E x, y \in c.nodes : x # y
  <2>1. c.nodes # {}
    BY FS_EmptySet
  <2>2. ASSUME NEW x, c.nodes = {x} PROVE FALSE
    <3>1. Cardinality({x}) = 1
      BY FS_Singleton
    <3>2. QED
      BY <2>2, <3>1
  <2>3. PICK x \in c.nodes : TRUE
    BY <2>1
  <2>4. c.nodes # {x}
    BY <2>2
  <2>5. QED
    BY <2>3, <2>4
<1>2. PICK x \in c.nodes, y \in c.nodes : x # y
  BY <1>1
<1>3. PICK j \in DOMAIN q : q[j] = NodeRef(x)
  BY NodeRefsCover
<1>4. PICK k \in DOMAIN q : q[k] = NodeRef(y)
  BY NodeRefsCover
<1>5. q \in Seq(Elements)
  BY NodeRefsOfSet
<1> HIDE DEF q
<1>6. j # k
  BY <1>2, <1>3, <1>4, DifferentNodes
<1>7. Len(q) \in Nat /\ j \in 1 .. Len(q) /\ k \in 1 .. Len(q)
  BY <1>5
<1>8. Len(q) >= 2 /\ (j \in 2 .. Len(q) \/ k \in 2 .. Len(q))
  BY <1>6, <1>7
<1>9. NodeIn(NodeRef(x), c) /\ NodeIn(NodeRef(y), c)
  <2>1. x \in Nodes /\ y \in Nodes
    OBVIOUS
  <2>2. QED
    BY <2>1, NodeRefIsElement DEF NodeIn
<1>10. QED
  BY <1>3, <1>4, <1>8, <1>9 DEF Behind, q

LEMMA TargetsOfOne ==
    ASSUME NEW cluster, IsFiniteSet(cluster), Cardinality(cluster) = 1, NEW c \in cluster,
           NEW targets \in TargetsFor(cluster)
    PROVE  /\ cluster = {c} /\ c = CHOOSE x \in cluster : TRUE
           /\ targets.rels = RelsOf(c) /\ targets.keys = NodeRefs(c.nodes)
<1>1. PICK x : cluster = {x}
  BY FS_Singleton
<1>2. cluster = {c} /\ c = CHOOSE y \in cluster : TRUE
  BY <1>1
<1>3. targets \in TargetsOf(CHOOSE y \in cluster : TRUE)
  BY DEF TargetsFor
<1>4. targets \in TargetsOf(c)
  BY <1>2, <1>3
<1>5. targets = [rels |-> RelsOf(c), keys |-> NodeRefs(c.nodes)]
  BY <1>4 DEF TargetsOf
<1>6. QED
  BY <1>2, <1>5

LEMMA TargetsOfNodes ==
    ASSUME NEW cluster \in SUBSET Candidates, Cardinality(cluster) # 1,
           \A c \in cluster : c.rels = {}, NEW targets \in TargetsFor(cluster)
    PROVE  targets.rels = <<>> /\ targets.keys = NodeRefs(UNION {c.nodes : c \in cluster})
<1> DEFINE nodes == UNION {c.nodes : c \in cluster}
           rels == UNION {c.rels : c \in cluster}
<1>1. nodes \in SUBSET Nodes /\ rels = {}
  BY ElementSets
<1>2. targets \in ClusterTargets(cluster)
  BY DEF TargetsFor
<1>3. PICK keys \in {NodeRefs(nodes) \o Listed(rels), Listed(rels) \o NodeRefs(nodes)} :
            targets = [rels |-> <<>>, keys |-> keys]
  BY <1>2 DEF ClusterTargets
<1> HIDE DEF nodes, rels
<1>4. NodeRefs(nodes) \in Seq(Elements) /\ Listed(rels) = <<>>
  BY <1>1, NodeRefsOfSet, NothingListed
<1>5. keys = NodeRefs(nodes)
  BY <1>3, <1>4
<1>6. QED
  BY <1>3, <1>5 DEF nodes

LEMMA PacketIsApt ==
    ASSUME NEW cands \in SUBSET Candidates, \A c \in cands : Formed(c),
           NEW cluster \in Clusters(cands), NEW class \in Classes,
           NEW targets \in TargetsFor(cluster), NEW type \in TargetTypes(cluster, class),
           NEW p, p = Packet(cluster, class, targets, type)
    PROVE  Apt(p)
<1>1. /\ p.of = cluster /\ p.class = class
      /\ p.rels = targets.rels /\ p.keys = targets.keys
      /\ p.new = IF type = None THEN None ELSE Retyped(CHOOSE c \in cluster : TRUE, type)
  BY DEF Packet
<1>2. /\ cluster \subseteq cands /\ cluster # {} /\ IsFiniteSet(cluster)
      /\ cluster \in SUBSET Candidates
  BY SomeCluster
<1> DEFINE nodes == UNION {c.nodes : c \in cluster}
<1>3. /\ nodes \in SUBSET Nodes
      /\ \A c \in cluster : /\ c.nodes \subseteq nodes /\ c.nodes \in SUBSET Nodes
                            /\ c \in Candidates /\ Formed(c)
  BY <1>2, ElementSets DEF Candidates
<1>4. ASSUME Cardinality(cluster) = 1, NEW c \in cluster
      PROVE  /\ cluster = {c} /\ c = CHOOSE x \in cluster : TRUE
             /\ p.rels = RelsOf(c) /\ p.keys = NodeRefs(c.nodes)
  BY <1>1, <1>2, <1>4, TargetsOfOne
<1>5. ASSUME Cardinality(cluster) # 1, \A c \in cluster : c.rels = {}
      PROVE  p.rels = <<>> /\ p.keys = NodeRefs(nodes)
  BY <1>1, <1>2, <1>5, TargetsOfNodes
<1> HIDE DEF nodes
<1>6. ASSUME p.class = "merge", Remedies(p), NEW c \in cluster
      PROVE  \/ p.keys = <<>> /\ Behind(p.rels) \cap c.rels # {}
             \/ Len(p.keys) >= 2 /\ \E ref \in Behind(p.keys) : NodeIn(ref, c)
  <2>1. \A d \in cluster : d.method \in PairKinds
    BY <1>1, <1>6 DEF Remedies, PairKinds
  <2>2. CASE c.method = "bidirectional_rel_duplicate"
    <3>1. cluster = {c}
      BY <1>2, <2>1, <2>2, OppositesAlone
    <3>2. Cardinality(cluster) = 1
      BY <3>1, FS_Singleton
    <3>3. p.rels = RelsOf(c) /\ p.keys = NodeRefs(c.nodes)
      BY <1>4, <3>2
    <3>4. c.nodes = {} /\ Len(RelsOf(c)) = 2 /\ RelsOf(c)[2] \in c.rels
      BY <1>3, <2>2, RelsOfCandidate DEF Formed
    <3>5. p.keys = <<>>
      BY <3>3, <3>4, NoNodeRefs
    <3>6. RelsOf(c)[2] \in Behind(p.rels)
      BY <3>3, <3>4 DEF Behind
    <3>7. QED
      BY <3>4, <3>5, <3>6
  <2>3. CASE c.method = "probable_duplicate" /\ Cardinality(cluster) = 1
    <3>1. p.keys = NodeRefs(c.nodes)
      BY <1>4, <2>3
    <3>2. Cardinality(c.nodes) = 2 /\ c.nodes \in SUBSET Nodes
      BY <1>3, <2>3 DEF Formed
    <3>3. QED
      BY <3>1, <3>2, BehindTheFirst
  <2>4. CASE c.method = "probable_duplicate" /\ Cardinality(cluster) # 1
    <3>1. \A d \in cluster : d.method = "probable_duplicate"
      <4>1. ASSUME NEW d \in cluster, d.method # "probable_duplicate" PROVE FALSE
        <5>1. d.method = "bidirectional_rel_duplicate"
          BY <2>1, <4>1 DEF PairKinds
        <5>2. cluster = {d}
          BY <1>2, <2>1, <5>1, OppositesAlone
        <5>3. QED
          BY <2>4, <5>2, FS_Singleton
      <4>2. QED
        BY <4>1
    <3>2. \A d \in cluster : d.rels = {}
      BY <1>3, <3>1 DEF Formed
    <3>3. p.keys = NodeRefs(nodes)
      BY <1>5, <2>4, <3>2
    <3>4. Cardinality(c.nodes) = 2 /\ c.nodes \subseteq nodes
      BY <1>3, <2>4 DEF Formed
    <3>5. QED
      BY <1>3, <3>3, <3>4, BehindTheFirst
  <2>5. QED
    BY <2>1, <2>2, <2>3, <2>4 DEF PairKinds
<1>7. ASSUME p.class = "delete", Remedies(p), NEW c \in cluster
      PROVE  \/ Range(p.rels) \cap c.rels # {}
             \/ \E ref \in Range(p.keys) : NodeIn(ref, c)
  <2>1. \A d \in cluster : d.rels = {} \/ Cardinality(cluster) = 1
    BY <1>1, <1>7 DEF Remedies
  <2>2. CASE c.rels # {}
    <3>1. p.rels = RelsOf(c)
      BY <1>4, <2>1, <2>2
    <3>2. RelsOf(c) # <<>> /\ RelsOf(c)[1] \in c.rels /\ RelsOf(c) \in Seq(DKs)
      BY <1>3, <2>2, RelsOfCandidate, RelsInOrder
    <3>3. 1 \in DOMAIN RelsOf(c)
      BY <3>2
    <3>4. RelsOf(c)[1] \in Range(p.rels)
      BY <3>1, <3>3 DEF Range
    <3>5. QED
      BY <3>2, <3>4
  <2>3. CASE c.rels = {}
    <3>1. PICK n \in c.nodes : TRUE
      BY <1>3, <2>3 DEF Formed
    <3>2. CASE Cardinality(cluster) = 1
      <4>1. p.keys = NodeRefs(c.nodes) /\ c.nodes \in SUBSET Nodes
        BY <1>3, <1>4, <3>2
      <4>2. QED
        BY <3>1, <4>1, KeyOfNode
    <3>3. CASE Cardinality(cluster) # 1
      <4>1. p.keys = NodeRefs(nodes) /\ c.nodes \subseteq nodes
        BY <1>3, <1>5, <2>1, <3>3
      <4>2. QED
        BY <1>3, <3>1, <4>1, KeyOfNode
    <3>4. QED
      BY <3>2, <3>3
  <2>4. QED
    BY <2>2, <2>3
<1>8. ASSUME p.class = "normalize", p.new # None, NEW c \in cluster
      PROVE  p.rels # <<>> /\ p.rels[1] \in c.rels
  <2>1. type # None
    BY <1>1, <1>8
  <2>2. Cardinality(cluster) = 1 /\ Canonical(CHOOSE x \in cluster : TRUE)
    BY <2>1 DEF TargetTypes
  <2>3. Canonical(c) /\ p.rels = RelsOf(c)
    BY <1>4, <2>2
  <2>4. c.rels # {}
    BY <1>3, <2>3 DEF Candidates
  <2>5. QED
    BY <1>3, <2>3, <2>4, RelsOfCandidate
<1>9. QED
  BY <1>1, <1>6, <1>7, <1>8 DEF Apt

LEMMA RemedyStays ==
    ASSUME TypeInv, RemedyInv, [Next]_vars
    PROVE  RemedyInv'
<1>1. CASE UNCHANGED vars \/ WriteItem \/ (AgentC /\ ~ Verify)
  <2>1. UNCHANGED <<found, packets>>
    BY <1>1 DEF vars, history, WriteItem, AgentC, StartExecution, DeleteEdge, CreateEdge, DeleteNode,
       Update, MergeNodes, ReadObsolete, Repoint, DropObsolete, DetectAround
  <2>2. QED
    BY <2>1 DEF RemedyInv
<1>2. CASE Verify
  <2>1. found' = found /\ packets' \subseteq packets
    BY <1>2 DEF Verify, Applied
  <2>2. QED
    BY <2>1 DEF RemedyInv
<1>3. CASE Generate
  <2>1. PICK stages \in left.stages : found' = Detect(graph, stages)
    BY <1>3 DEF Generate
  <2>2. graph \in Graphs /\ Whole(graph)
    BY Parts DEF DataOk
  <2>3. \A c \in found' : Formed(c)
    BY <2>1, <2>2, DetectForms
  <2>4. packets' = {}
    BY <1>3 DEF Generate
  <2>5. QED
    BY <2>3, <2>4 DEF RemedyInv
<1>4. CASE Compose
  <2>1. found \in SUBSET Candidates /\ found' = found /\ \A c \in found : Formed(c)
    BY <1>4 DEF TypeInv, RemedyInv, Compose
  <2>2. PICK cluster \in Clusters(found), class \in Classes :
              \E targets \in TargetsFor(cluster), type \in TargetTypes(cluster, class) :
                 packets' = packets \cup {Packet(cluster, class, targets, type)}
    BY <1>4 DEF Compose, TargetsFor
  <2>3. PICK targets \in TargetsFor(cluster), type \in TargetTypes(cluster, class) :
              packets' = packets \cup {Packet(cluster, class, targets, type)}
    BY <2>2
  <2> DEFINE p == Packet(cluster, class, targets, type)
  <2>4. Apt(p)
    BY <2>1, PacketIsApt
  <2> HIDE DEF p
  <2>5. packets' = packets \cup {p}
    BY <2>3 DEF p
  <2>6. QED
    BY <2>1, <2>4, <2>5 DEF RemedyInv
<1>5. QED
  BY <1>1, <1>2, <1>3, <1>4 DEF Next

(***************************************************************************)
(* What the verified steps have put right                                  *)
(***************************************************************************)
AllVerified(p) == \A k \in DOMAIN Steps(p) : Verified(Steps(p)[k])

LEMMA EachVerified ==
    ASSUME NEW S, NEW refs \in Seq(S), NEW op,
           \A k \in DOMAIN Each(op, refs) : Verified(Each(op, refs)[k])
    PROVE  \A ref \in Range(refs) :
              /\ op = "delete_edge" => ref \notin RelKeys(graph)
              /\ op = "delete_node" => Named(ref) \notin graph.nodes
<1>1. ASSUME NEW k \in DOMAIN refs
      PROVE  /\ op = "delete_edge" => refs[k] \notin RelKeys(graph)
             /\ op = "delete_node" => Named(refs[k]) \notin graph.nodes
  <2>1. DOMAIN Each(op, refs) = DOMAIN refs
    BY DEF Each
  <2>2. Each(op, refs)[k] = Step(op, <<refs[k]>>)
    BY DEF Each
  <2>3. Verified(Step(op, <<refs[k]>>))
    BY <2>1, <2>2
  <2>4. Step(op, <<refs[k]>>).op = op /\ Step(op, <<refs[k]>>).refs[1] = refs[k]
    BY DEF Step
  <2>5. QED
    BY <2>3, <2>4 DEF Verified
<1>2. QED
  BY <1>1 DEF Range

LEMMA MergeVerified ==
    ASSUME NEW p, PacketTyped(p), p.class = "merge", AllVerified(p)
    PROVE  /\ p.keys = <<>> => \A ref \in Behind(p.rels) : ref \notin RelKeys(graph)
           /\ Len(p.keys) >= 2 => \A ref \in Behind(p.keys) : Named(ref) \notin graph.nodes
<1>1. Steps(p) = MergeSteps(p) /\ p.rels \in Seq(DKs) /\ p.keys \in Seq(Elements)
  BY DEF Steps, PacketTyped
<1>2. ASSUME p.keys = <<>>, NEW ref \in Behind(p.rels)
      PROVE  ref \notin RelKeys(graph)
  <2>1. PICK k \in 2 .. Len(p.rels) : ref = p.rels[k]
    BY DEF Behind
  <2>2. p.rels # <<>> /\ Len(p.rels) >= 2
    BY <1>1, <2>1
  <2>3. MergeSteps(p) = Each("delete_edge", Tail(p.rels))
    BY <1>2, <2>2 DEF MergeSteps
  <2>4. Tail(p.rels) \in Seq(DKs) /\ Len(Tail(p.rels)) = Len(p.rels) - 1
    BY <1>1, <2>2
  <2>5. k - 1 \in DOMAIN Tail(p.rels) /\ Tail(p.rels)[k - 1] = ref
    BY <1>1, <2>1, <2>2, <2>4
  <2>6. ref \in Range(Tail(p.rels))
    BY <2>5 DEF Range
  <2>7. \A j \in DOMAIN Each("delete_edge", Tail(p.rels)) : Verified(Each("delete_edge", Tail(p.rels))[j])
    BY <1>1, <2>3 DEF AllVerified
  <2>8. QED
    BY <2>4, <2>6, <2>7, EachVerified
<1>3. ASSUME Len(p.keys) >= 2, NEW ref \in Behind(p.keys)
      PROVE  Named(ref) \notin graph.nodes
  <2>1. p.keys # <<>>
    BY <1>1, <1>3
  <2>2. MergeSteps(p) = <<Step("merge_nodes", p.keys)>>
    BY <1>3, <2>1 DEF MergeSteps
  <2>3. Verified(Step("merge_nodes", p.keys))
    BY <1>1, <2>2 DEF AllVerified
  <2>4. Step("merge_nodes", p.keys).op = "merge_nodes" /\ Step("merge_nodes", p.keys).refs = p.keys
    BY DEF Step
  <2>5. \A k \in 2 .. Len(p.keys) : Named(p.keys[k]) \notin graph.nodes
    BY <2>3, <2>4 DEF Verified
  <2>6. QED
    BY <2>5 DEF Behind
<1>4. QED
  BY <1>2, <1>3

LEMMA DeleteVerified ==
    ASSUME NEW p, PacketTyped(p), p.class = "delete", AllVerified(p)
    PROVE  /\ \A ref \in Range(p.rels) : ref \notin RelKeys(graph)
           /\ \A ref \in Range(p.keys) : Named(ref) \notin graph.nodes
<1> DEFINE a == Each("delete_edge", p.rels)
           b == Each("delete_node", p.keys)
<1>1. Steps(p) = a \o b /\ p.rels \in Seq(DKs) /\ p.keys \in Seq(Elements)
  BY DEF Steps, PacketTyped
<1>2. \A op, S : \A refs \in Seq(S) : Each(op, refs) \in Seq({Step(op, <<ref>>) : ref \in S})
  <2>1. ASSUME NEW op, NEW S, NEW refs \in Seq(S)
        PROVE  Each(op, refs) \in Seq({Step(op, <<ref>>) : ref \in S})
    <3>1. Len(refs) \in Nat /\ DOMAIN refs = 1 .. Len(refs) /\ \A k \in DOMAIN refs : refs[k] \in S
      OBVIOUS
    <3>2. Each(op, refs) \in [1 .. Len(refs) -> {Step(op, <<ref>>) : ref \in S}]
      BY <3>1 DEF Each
    <3>3. QED
      BY <3>1, <3>2
  <2>2. QED
    BY <2>1
<1>3. a \in Seq({Step("delete_edge", <<ref>>) : ref \in DKs})
      /\ b \in Seq({Step("delete_node", <<ref>>) : ref \in Elements})
  BY <1>1, <1>2
<1>4. \A k \in DOMAIN (a \o b) : Verified((a \o b)[k])
  BY <1>1 DEF AllVerified
<1> HIDE DEF a, b
<1>5. ASSUME NEW k \in DOMAIN a PROVE Verified(a[k])
  <2>1. k \in DOMAIN (a \o b) /\ (a \o b)[k] = a[k]
    BY <1>3
  <2>2. QED
    BY <1>4, <2>1
<1>6. ASSUME NEW k \in DOMAIN b PROVE Verified(b[k])
  <2>1. Len(a) + k \in DOMAIN (a \o b) /\ (a \o b)[Len(a) + k] = b[k]
    BY <1>3
  <2>2. QED
    BY <1>4, <2>1
<1>7. QED
  BY <1>1, <1>5, <1>6, EachVerified DEF a, b

LEMMA NormalizeVerified ==
    ASSUME NEW p, PacketTyped(p), p.class = "normalize", p.new # None, AllVerified(p)
    PROVE  p.rels[1] \notin RelKeys(graph) /\ p.new \in RelKeys(graph)
<1>1. Steps(p) = RetypeSteps(p)
  BY DEF Steps
<1>2. Steps(p) = <<Step("delete_edge", p.rels), Step("create_edge", <<p.new>>)>>
  BY <1>1 DEF RetypeSteps
<1>3. Verified(Step("delete_edge", p.rels)) /\ Verified(Step("create_edge", <<p.new>>))
  <2>1. 1 \in DOMAIN Steps(p) /\ 2 \in DOMAIN Steps(p)
    BY <1>2
  <2>2. Steps(p)[1] = Step("delete_edge", p.rels) /\ Steps(p)[2] = Step("create_edge", <<p.new>>)
    BY <1>2
  <2>3. QED
    BY <2>1, <2>2 DEF AllVerified
<1>4. /\ Step("delete_edge", p.rels).op = "delete_edge"
      /\ Step("delete_edge", p.rels).refs = p.rels
      /\ Step("create_edge", <<p.new>>).op = "create_edge"
      /\ Step("create_edge", <<p.new>>).refs[1] = p.new
  BY DEF Step
<1>5. QED
  BY <1>3, <1>4 DEF Verified

\* Whatever a packet that may show as applied was to put right, it has.
LEMMA PutRight ==
    ASSUME TypeInv, NEW p, PacketTyped(p), Apt(p), AllVerified(p), Remedies(p), NEW c \in p.of
    PROVE  c \notin Detect(graph, {1, 2, 3})
<1>1. graph \in Graphs /\ Whole(graph)
  BY Parts DEF DataOk
<1>2. SUFFICES ASSUME c.nodes \subseteq graph.nodes, c.rels \subseteq RelKeys(graph)
               PROVE  FALSE
  BY <1>1, DetectPresent
<1>3. ASSUME NEW ref, NodeIn(ref, c)
      PROVE  Named(ref) \in graph.nodes
  BY <1>2, <1>3 DEF NodeIn
<1>4. CASE p.class = "merge"
  <2>1. \/ p.keys = <<>> /\ Behind(p.rels) \cap c.rels # {}
        \/ Len(p.keys) >= 2 /\ \E ref \in Behind(p.keys) : NodeIn(ref, c)
    BY <1>4 DEF Apt
  <2>2. QED
    BY <1>2, <1>3, <1>4, <2>1, MergeVerified
<1>5. CASE p.class = "delete"
  <2>1. \/ Range(p.rels) \cap c.rels # {}
        \/ \E ref \in Range(p.keys) : NodeIn(ref, c)
    BY <1>5 DEF Apt
  <2>2. QED
    BY <1>2, <1>3, <1>5, <2>1, DeleteVerified
<1>6. CASE p.class = "normalize" /\ p.new # None
  <2>1. p.rels[1] \in c.rels
    BY <1>6 DEF Apt
  <2>2. QED
    BY <1>2, <1>6, <2>1, NormalizeVerified
<1>7. QED
  BY <1>4, <1>5, <1>6 DEF Remedies

LEMMA AppliedStep ==
    ASSUME TypeInv, RemedyInv, Next, NEW p \in applied' \ applied
    PROVE  /\ Remedies(p) => p.of \cap Detect(graph', {1, 2, 3}) = {}
           /\ p.class = "normalize" /\ p.new # None => p.new \in RelKeys(graph')
<1>1. Verify
  BY DEF Next, AgentC, WriteItem, Generate, Compose, StartExecution, DeleteEdge, CreateEdge,
     DeleteNode, Update, MergeNodes, ReadObsolete, Repoint, DropObsolete, DetectAround, history
<1>2. /\ p = work.packet /\ graph' = graph /\ work.pc = "step"
      /\ \A k \in DOMAIN work.steps : Verified(work.steps[k])
  BY <1>1 DEF Verify, Applied
<1>3. p \in packets /\ PacketTyped(p)
  BY <1>2, CurrentStep
<1>4. work.steps = Steps(p)
  BY <1>2 DEF TypeInv, Busy, Idle
<1>5. AllVerified(p) /\ Apt(p)
  BY <1>2, <1>3, <1>4 DEF AllVerified, RemedyInv
<1>6. Remedies(p) => p.of \cap Detect(graph, {1, 2, 3}) = {}
  BY <1>3, <1>5, PutRight
<1>7. p.class = "normalize" /\ p.new # None => p.new \in RelKeys(graph)
  BY <1>3, <1>5, NormalizeVerified
<1>8. QED
  BY <1>2, <1>6, <1>7

\* RemedyInv is an invariant: of each candidate a packet is to put right, the steps of
\* the packet take away an element, whatever the candidates it was clustered with.
THEOREM RemedyInvariance == Spec => [](TypeInv /\ RemedyInv)
<1>1. Init => TypeInv /\ RemedyInv
  BY TypesAtFirst DEF Init, RemedyInv
<1>2. TypeInv /\ RemedyInv /\ [Next]_vars => (TypeInv /\ RemedyInv)'
  BY TypesStay, RemedyStays
<1>3. QED
  BY <1>1, <1>2, PTL DEF Spec

\* A packet that is shown as applied has put right what it was proposed for: no
\* detection on the graph it leaves finds its candidates again, however often it had
\* to be repeated and whatever was executed or written since they were found.
THEOREM AppliedIsResolved == Spec => ResolvedWhenApplied
<1>1. (TypeInv /\ RemedyInv) /\ [Next]_vars =>
        [\A p \in applied' \ applied :
          /\ Remedies(p) => p.of \cap Detect(graph', {1, 2, 3}) = {}
          /\ p.class = "normalize" /\ p.new # None => p.new \in RelKeys(graph')]_vars
  BY AppliedStep
<1>2. QED
  BY <1>1, RemedyInvariance, PTL DEF Spec, ResolvedWhenApplied
=============================================================================
