---------------------------- MODULE CurationGraph ----------------------------
(* The knowledge graph under curation: extraction writes it, the detectors    *)
(* find candidates, Agent-P turns them into packets with targets, the diff     *)
(* builder turns an approved packet into steps, and Agent-C applies the steps, *)
(* one transaction at a time, verifies them and looks for what a merge has     *)
(* brought about.  The gate, the stores and the audit are GovernedMutation's;  *)
(* here every packet is approved, and an attempt that fails may be repeated.  *)
EXTENDS GraphDetectors, CandidateGroups, Functions

CONSTANTS
    Nodes,          \* positive numbers, in the order of their dedupe keys
    RelTypes,
    Scenarios,      \* initial graph, what a job still writes, detections,
                    \* packets, faults, stages asked for, clustering or not
    Classes,        \* proposal classes in play
    None            \* a missing value

Nobody == 0

ASSUME GraphAssumption ==
    /\ Nodes \subseteq Nat \ {Nobody} /\ IsFiniteSet(Nodes)
    /\ IsFiniteSet(RelTypes)
    /\ Alike \subseteq SUBSET Nodes /\ \A pair \in Alike : Cardinality(pair) = 2
    /\ Flaws \in [Nodes -> SUBSET {"missing_provenance_node", "qualifier_missing"}]
    /\ Classes \subseteq {"merge", "delete", "normalize", "rename", "canonicalize", "defer"}

VARIABLES
    graph,      \* nodes and relationships in Neo4j
    writes,     \* what an extraction job has still to write, in order
    found,      \* candidates of the last detection
    packets,    \* approved packets that have not been applied
    work,       \* what Agent-C is doing
    scoped,     \* candidates found in the neighbourhood of the last merge
    begun,      \* history: packets Agent-C has begun with
    applied,    \* history: packets whose outcome is applied
    seen,       \* history: nodes that were ever in the graph
    known,      \* history: relationships written and not deleted on purpose,
                \* between what their ends were merged into
    into,       \* history: what a node that was merged is part of now
    deleted,    \* history: nodes that are targets of a delete
    left        \* what is left of the bounds

history == <<begun, applied, seen, known, into, deleted>>
vars == <<graph, writes, found, packets, work, scoped, history, left>>

DKs == RelTypes \X Nodes \X Nodes
Elements == {NodeRef(n) : n \in Nodes} \cup DKs
Graphs == [nodes : SUBSET Nodes, rels : SUBSET [dk : DKs, copy : 1 .. 2]]

\* No relationship without its ends.
Whole(g) == \A r \in g.rels : Ends(r.dk) \subseteq g.nodes

ASSUME ScenarioAssumption ==
    \A s \in Scenarios :
        s.graph \in Graphs /\ Whole(s.graph) /\ s.writes \in Seq(Elements) /\ s.detections \in Nat

Works == left' = left
Fails == left.faults > 0 /\ left' = [left EXCEPT !.faults = @ - 1]

(***************************************************************************)
(* Extraction                                                              *)
(***************************************************************************)
Item(ref) == IF IsNodeRef(ref) THEN MergeNode(graph, ref[1]) ELSE MergeRel(graph, ref)

Idle == [pc |-> "idle", packet |-> None, steps |-> <<>>, i |-> 1, obsolete |-> <<>>,
         out |-> {}, in |-> {}, affected |-> {}, before |-> None]

\* write_extraction_result: nodes, then relationships, each in a transaction of
\* its own; an error ends it.  No job writes while Agent-C is at work.
WriteItem ==
    /\ writes # <<>>
    /\ work = Idle
    /\ \/ /\ Works
          /\ graph' = Item(Head(writes))
          /\ writes' = Tail(writes)
          /\ seen' = seen \cup graph'.nodes
          /\ known' = known \cup (RelKeys(graph') \ RelKeys(graph))
       \/ Fails /\ writes' = <<>> /\ UNCHANGED <<graph, seen, known>>
    /\ UNCHANGED <<found, packets, work, scoped, begun, applied, into, deleted>>

(***************************************************************************)
(* Candidates and packets                                                  *)
(***************************************************************************)
\* A detection; the packets of the one before are archived.
Generate ==
    /\ left.detections > 0
    /\ work = Idle
    /\ \E stages \in left.stages :
          /\ found' = Detect(graph, stages)
          /\ found' # {}
    /\ packets' = {}
    /\ left' = [left EXCEPT !.detections = @ - 1]
    /\ UNCHANGED <<graph, writes, work, scoped, history>>

Listed(S) == CHOOSE q \in [1 .. Cardinality(S) -> S] : Range(q) = S

\* _consolidate_clusters, or each candidate by itself when Agent-B is asked.
Clusters(cands) ==
    IF ~ left.together THEN {{c} : c \in cands}
    ELSE LET list == Listed(cands)
             groups == Groups([i \in DOMAIN list |-> Refs(list[i])])
         IN  {{list[i] : i \in g} : g \in groups}

\* sorted, for the node keys of a set.
Sorted(S) ==
    [i \in 1 .. Cardinality(S) |-> CHOOSE n \in S : Cardinality({m \in S : m <= n}) = i]
NodeRefs(S) == [i \in 1 .. Cardinality(S) |-> NodeRef(Sorted(S)[i])]

\* The targets of a cluster: every ref counts as a node.  The first one survives,
\* and where the key of a relationship sorts depends on the names.
ClusterTargets(cluster) ==
    LET nodes == UNION {c.nodes : c \in cluster}
        rels == UNION {c.rels : c \in cluster}
    IN  {[rels |-> <<>>, keys |-> keys] :
            keys \in {NodeRefs(nodes) \o Listed(rels), Listed(rels) \o NodeRefs(nodes)}}

\* The relationships in the order of their keys.
RelsOf(c) ==
    IF Cardinality(c.rels) < 2 THEN Listed(c.rels)
    ELSE LET dk == CHOOSE d \in c.rels : Start(d) < End(d)
         IN  <<dk, <<Type(dk), End(dk), Start(dk)>>>>

\* _build_proposal_packet, for a candidate by itself.
TargetsOf(c) == {[rels |-> RelsOf(c), keys |-> NodeRefs(c.nodes)]}

\* The relationship a normalisation creates; a backward one is turned round.
Retyped(c, type) ==
    LET dk == CHOOSE d \in c.rels : TRUE
    IN  IF c.method = "canonical_inverse_violation" THEN <<type, End(dk), Start(dk)>>
        ELSE <<type, Start(dk), End(dk)>>

Canonical(c) ==
    c.method \in {"canonical_inverse_violation", "canonical_direction_violation"}

\* _validate_normalize_target: without a target a backward relationship keeps
\* its type, and one between the wrong types becomes a proposal to defer.
TargetTypes(cluster, class) ==
    LET c == CHOOSE x \in cluster : TRUE
    IN  IF class = "normalize" /\ Cardinality(cluster) = 1 /\ Canonical(c)
        THEN RelTypes \ (IF c.method = "canonical_direction_violation"
                         THEN {Type(CHOOSE d \in c.rels : TRUE)} ELSE {})
        ELSE {None}

Packet(cluster, class, targets, type) ==
    [of |-> cluster, class |-> class, rels |-> targets.rels, keys |-> targets.keys,
     new |-> IF type = None THEN None ELSE Retyped(CHOOSE c \in cluster : TRUE, type),
     gen |-> left.detections]

\* A candidate that has a proposal, open or executed, gets no other one.
Compose ==
    /\ Cardinality(packets) < left.packets
    /\ work = Idle
    /\ \E cluster \in Clusters(found), class \in Classes :
          /\ \A p \in packets \cup applied : p.of # cluster
          /\ \E targets \in IF Cardinality(cluster) = 1
                            THEN TargetsOf(CHOOSE c \in cluster : TRUE)
                            ELSE ClusterTargets(cluster),
                type \in TargetTypes(cluster, class) :
                packets' = packets \cup {Packet(cluster, class, targets, type)}
    /\ UNCHANGED <<graph, writes, found, work, scoped, history, left>>

(***************************************************************************)
(* The diff builder                                                        *)
(***************************************************************************)
Step(op, refs) == [op |-> op, refs |-> refs]
Each(op, refs) == [i \in DOMAIN refs |-> Step(op, <<refs[i]>>)]

\* _build_merge: relationships alone keep the first, nodes are collapsed into
\* the first, and one target is nothing to merge.
MergeSteps(p) ==
    CASE p.rels # <<>> /\ p.keys = <<>> -> Each("delete_edge", Tail(p.rels))
      [] Len(p.keys) >= 2 -> <<Step("merge_nodes", p.keys)>>
      [] OTHER -> <<>>

\* wrong: the relationship of the old type stays.
RetypeKeepingOld(p) == <<Step("create_edge", <<p.new>>)>>

\* _build_normalize: the type of a relationship cannot be changed in place.
RetypeSteps(p) == <<Step("delete_edge", p.rels), Step("create_edge", <<p.new>>)>>

\* DiffBuilder.build
Steps(p) ==
    CASE p.class = "defer" -> <<>>
      [] p.class = "merge" -> MergeSteps(p)
      [] p.class = "delete" -> Each("delete_edge", p.rels) \o Each("delete_node", p.keys)
      [] p.class = "normalize" /\ p.new # None -> RetypeSteps(p)
      [] OTHER -> Each("update_edge", p.rels) \o Each("update_node", p.keys)

(***************************************************************************)
(* Agent-C                                                                 *)
(***************************************************************************)
\* The node with a key; the key of a relationship is nobody's.
Named(ref) == IF IsNodeRef(ref) THEN ref[1] ELSE Nobody

StartExecution ==
    /\ work = Idle
    /\ \E p \in packets :
          /\ work' = [Idle EXCEPT !.pc = "step", !.packet = p, !.steps = Steps(p),
                                  !.before = graph]
          /\ begun' = begun \cup {p}
    /\ scoped' = None
    /\ UNCHANGED <<graph, writes, found, packets, applied, seen, known, into, deleted, left>>

\* An exception ends the attempt with the outcome failed.
GiveUp == work' = Idle

NextStep(w) == [w EXCEPT !.pc = "step", !.i = @ + 1]
Current == work.steps[work.i]
At(op) == work.pc = "step" /\ work.i <= Len(work.steps) /\ Current.op = op

DeleteEdge ==
    LET dk == Current.refs[1]
    IN  /\ At("delete_edge")
        /\ \/ /\ Works
              /\ graph' = DeleteRel(graph, dk)
              /\ known' = known \ {dk}
              /\ work' = NextStep(work)
           \/ Fails /\ GiveUp /\ UNCHANGED <<graph, known>>
        /\ UNCHANGED <<writes, found, packets, scoped, begun, applied, seen, into, deleted>>

\* Both ends have to be there.
CreateEdge ==
    LET dk == Current.refs[1]
        there == Ends(dk) \subseteq graph.nodes
    IN  /\ At("create_edge")
        /\ \/ /\ Works
              /\ there
              /\ graph' = MergeRel(graph, dk)
              /\ known' = known \cup {dk}
              /\ work' = NextStep(work)
           \/ ~ there /\ Works /\ GiveUp /\ UNCHANGED <<graph, known>>
           \/ Fails /\ GiveUp /\ UNCHANGED <<graph, known>>
        /\ UNCHANGED <<writes, found, packets, scoped, begun, applied, seen, into, deleted>>

DeleteNode ==
    LET n == Named(Current.refs[1])
    IN  /\ At("delete_node")
        /\ \/ /\ Works
              /\ graph' = DetachDelete(graph, n)
              /\ known' = {d \in known : n \notin Ends(d)}
              /\ deleted' = deleted \cup {n}
              /\ work' = NextStep(work)
           \/ Fails /\ GiveUp /\ UNCHANGED <<graph, known, deleted>>
        /\ UNCHANGED <<writes, found, packets, scoped, begun, applied, seen, into>>

\* A packet of Agent-P sets no properties, so an update only has to find its
\* element.
Update ==
    LET ref == Current.refs[1]
        there == \/ At("update_node") /\ Named(ref) \in graph.nodes
                 \/ At("update_edge") /\ ref \in RelKeys(graph)
    IN  /\ At("update_node") \/ At("update_edge")
        /\ \/ there /\ Works /\ work' = NextStep(work)
           \/ ~ there /\ Works /\ GiveUp
           \/ Fails /\ GiveUp
        /\ UNCHANGED <<graph, writes, found, packets, scoped, history>>

Survivor == Named(Current.refs[1])
Obsolete == Named(Head(work.obsolete))

\* wrong: the survivor is taken for obsolete itself.
ObsoleteAll(refs) == refs

\* The first key survives.
ObsoleteKeys(refs) == Tail(refs)

MergeNodes ==
    /\ At("merge_nodes")
    /\ work' = [work EXCEPT !.pc = "read", !.obsolete = ObsoleteKeys(Current.refs),
                            !.affected = {Survivor}]
    /\ UNCHANGED <<graph, writes, found, packets, scoped, history, left>>

\* wrong: what points at the obsolete node is not read.
ReadOutOnly(w) == [out |-> OutRels(graph, Obsolete, Survivor), in |-> {}]

\* The relationships of the next obsolete node.
ReadBoth(w) == [out |-> OutRels(graph, Obsolete, Survivor),
                in |-> InRels(graph, Obsolete, Survivor)]

ReadObsolete ==
    LET rows == ReadBoth(work)
        far == {End(dk) : dk \in rows.out} \cup {Start(dk) : dk \in rows.in}
    IN  /\ work.pc = "read"
        /\ \/ /\ Works
              /\ work' = [work EXCEPT !.pc = "repoint", !.out = rows.out, !.in = rows.in,
                                      !.affected = @ \cup {Obsolete} \cup far]
           \/ Fails /\ GiveUp
        /\ UNCHANGED <<graph, writes, found, packets, scoped, history>>

\* One relationship is created at the survivor.  The rows come in no order, the
\* outgoing ones first.
Repoint ==
    /\ work.pc = "repoint"
    /\ work.out \cup work.in # {}
    /\ \/ /\ Works
          /\ \/ \E dk \in work.out :
                   /\ graph' = MergeRel(graph, RepointOut(dk, Survivor))
                   /\ work' = [work EXCEPT !.out = @ \ {dk}]
             \/ /\ work.out = {}
                /\ \E dk \in work.in :
                      /\ graph' = MergeRel(graph, RepointIn(dk, Survivor))
                      /\ work' = [work EXCEPT !.in = @ \ {dk}]
       \/ Fails /\ GiveUp /\ UNCHANGED graph
    /\ UNCHANGED <<writes, found, packets, scoped, history>>

\* History of a merge: node o, and whatever went into it before, is part of s.
Merged(m, o, s) == IF m = o THEN s ELSE m
MergedRel(dk, o, s) == <<Type(dk), Merged(Start(dk), o, s), Merged(End(dk), o, s)>>
MergeHistory(o, s) ==
    /\ into' = [n \in Nodes |-> IF n = o THEN s ELSE Merged(into[n], o, s)]
    /\ known' = {MergedRel(dk, o, s) : dk \in known}

DropObsolete ==
    /\ work.pc = "repoint"
    /\ work.out \cup work.in = {}
    /\ \/ /\ Works
          /\ graph' = DetachDelete(graph, Obsolete)
          /\ IF Obsolete \in graph.nodes THEN MergeHistory(Obsolete, Survivor)
             ELSE UNCHANGED <<into, known>>
          /\ work' = IF Len(work.obsolete) > 1
                     THEN [work EXCEPT !.pc = "read", !.obsolete = Tail(@)]
                     ELSE [NextStep(work) EXCEPT !.obsolete = <<>>]
       \/ Fails /\ GiveUp /\ UNCHANGED <<graph, into, known>>
    /\ UNCHANGED <<writes, found, packets, scoped, begun, applied, seen, deleted>>

\* _check_invariant
Verified(step) ==
    LET ref == step.refs[1]
    IN  CASE step.op = "create_edge" \/ step.op = "update_edge" -> ref \in RelKeys(graph)
          [] step.op = "delete_edge" -> ref \notin RelKeys(graph)
          [] step.op = "update_node" -> Named(ref) \in graph.nodes
          [] step.op = "delete_node" -> Named(ref) \notin graph.nodes
          [] step.op = "merge_nodes" ->
                /\ Named(ref) \in graph.nodes
                /\ \A k \in 2 .. Len(step.refs) : Named(step.refs[k]) \notin graph.nodes

Applied(w) ==
    /\ packets' = packets \ {w.packet}
    /\ applied' = applied \cup {w.packet}

Verify ==
    LET holds == \A k \in DOMAIN work.steps : Verified(work.steps[k])
    IN  /\ work.pc = "step"
        /\ work.i > Len(work.steps)
        /\ \/ /\ holds
              /\ Works
              /\ Applied(work)
              /\ work' = IF work.affected = {} THEN Idle ELSE [work EXCEPT !.pc = "scoped"]
           \/ ~ holds /\ Works /\ GiveUp /\ UNCHANGED <<packets, applied>>
           \/ Fails /\ GiveUp /\ UNCHANGED <<packets, applied>>
        /\ UNCHANGED <<graph, writes, found, scoped, begun, seen, known, into, deleted>>

\* wrong: the survivor is not looked at again.
FocusWithout(w) == w.affected \ {Named(w.packet.keys[1])}

\* The keys collected while merging, survivor, obsolete nodes and neighbours.
Focus(w) == w.affected

\* _run_scoped_detection: a failure only means that there is no result.
DetectAround ==
    /\ work.pc = "scoped"
    /\ \/ Works /\ scoped' = DetectScoped(graph, Focus(work))
       \/ Fails /\ scoped' = None
    /\ work' = Idle
    /\ UNCHANGED <<graph, writes, found, packets, history>>

(***************************************************************************)
(* Specification                                                           *)
(***************************************************************************)
Init ==
    /\ \E s \in Scenarios :
          /\ graph = s.graph
          /\ writes = s.writes
          /\ seen = s.graph.nodes
          /\ known = RelKeys(s.graph)
          /\ left = [detections |-> s.detections, packets |-> s.packets,
                     faults |-> s.faults, stages |-> s.stages, together |-> s.together]
    /\ found = {}
    /\ packets = {}
    /\ work = Idle
    /\ scoped = None
    /\ begun = {}
    /\ applied = {}
    /\ into = [n \in Nodes |-> n]
    /\ deleted = {}

AgentC ==
    \/ StartExecution
    \/ DeleteEdge \/ CreateEdge \/ DeleteNode \/ Update
    \/ MergeNodes \/ ReadObsolete \/ Repoint \/ DropObsolete
    \/ Verify \/ DetectAround

Next == WriteItem \/ Generate \/ Compose \/ AgentC

Spec == Init /\ [][Next]_vars

(***************************************************************************)
(* Properties                                                              *)
(***************************************************************************)
\* Every variable has its type, and every relationship both its ends.
TypeOK ==
    /\ graph.nodes \subseteq Nodes
    /\ \A r \in graph.rels : r.dk \in DKs /\ r.copy \in 1 .. 2
    /\ \A r \in graph.rels : Ends(r.dk) \subseteq graph.nodes
    /\ work.pc \in {"idle", "step", "read", "repoint", "scoped"}
    /\ work.i \in 1 .. Len(work.steps) + 1
    /\ work.out \subseteq DKs /\ work.in \subseteq DKs
    /\ seen \subseteq Nodes
    /\ known \subseteq RelTypes \X (Nodes \cup {Nobody}) \X (Nodes \cup {Nobody})
    /\ into \in [Nodes -> Nodes \cup {Nobody}]
    /\ deleted \subseteq Nodes \cup {Nobody}

KeySet(p) == Range(p.keys)

\* A cluster of several candidates is one of nodes.
OfNodes(p) == Cardinality(p.of) > 1 => \A c \in p.of : c.rels = {}

\* The packets Agent-C has begun with are the ones NodeSafe of AgentPipeline is
\* about: no two of a detection merge or delete the same node, and a cluster
\* is one of nodes only.
Orderly ==
    /\ \A p, q \in begun :
          p # q /\ p.gen = q.gen /\ {p.class, q.class} \subseteq {"merge", "delete"} =>
              KeySet(p) \cap KeySet(q) = {}
    /\ \A p \in begun : OfNodes(p)

\* However often an attempt fails half way and is repeated, a node is gone only
\* if it was the target of a delete, or if what it was merged into is there or
\* has gone the same way.
EntitiesKept ==
    Orderly =>
        \A n \in seen : into[n] \in graph.nodes \cup deleted

\* And a merge loses no relationship: what was known between two nodes is in
\* the graph between what they were merged into, at every moment of the merge,
\* unless the two became one or it was deleted on purpose.
ConnectionsKept ==
    Orderly =>
        \A dk \in known : Start(dk) = End(dk) \/ dk \in RelKeys(graph)

\* What a packet is meant to put right.  Not among them: the merge of equal
\* relationships, which has one target and so no steps; the properties, which
\* Agent-P does not set; classes that change no structure.
Remedies(p) ==
    \/ p.class = "merge" /\ \A c \in p.of : c.method \in {"probable_duplicate",
                                                          "bidirectional_rel_duplicate"}
    \/ p.class = "delete" /\ \A c \in p.of : c.rels = {} \/ Cardinality(p.of) = 1
    \/ p.class = "normalize" /\ p.new # None

\* A packet that is shown as applied has put right what it was proposed for: a
\* detection on the graph it leaves does not find its candidates again, and a
\* relationship it normalises is there in its new form.
ResolvedWhenApplied ==
    [][\A p \in applied' \ applied :
          /\ Remedies(p) => p.of \cap Detect(graph', {1, 2, 3}) = {}
          /\ p.class = "normalize" /\ p.new # None => p.new \in RelKeys(graph')]_vars

\* Candidates that a change of the shape can bring about.
OfShape(cands) == {c \in cands : c.rels # {} \/ c.method = "orphan_node"}

\* "Detect new anomalies in the affected neighborhood without a full-graph
\* scan": of the candidates of this shape a merge brought about, the scoped
\* detection misses none, and it finds none that a full detection does not.
ScopedExact ==
    [][work.pc = "scoped" /\ scoped' # None =>
          /\ \A c \in OfShape(Detect(graph, {1, 2, 3}) \ Detect(work.before, {1, 2, 3})) :
                \/ c \in scoped'
                \/ c.method = "orphan_node" /\ c.nodes \subseteq Orphans(work.before)
          /\ scoped' \subseteq Detect(graph, {1, 2, 3})]_vars

\* A cluster is merged "with ALL unique node refs": its targets are nodes.
ClusterIsOfNodes ==
    \A p \in packets : Cardinality(p.of) > 1 => \A k \in KeySet(p) : IsNodeRef(k)

(***************************************************************************)
(* Inductive invariants                                                    *)
(***************************************************************************)
Methods == {"exact_rel_dedupe_key", "bidirectional_rel_duplicate", "probable_duplicate",
            "canonical_inverse_violation", "canonical_direction_violation", "orphan_node",
            "missing_provenance_node", "qualifier_missing"}

\* Relationships in both directions are one forward and one back.
Candidates ==
    {c \in [method : Methods, rels : SUBSET DKs, nodes : SUBSET Nodes] :
        /\ Canonical(c) => c.rels # {}
        /\ Cardinality(c.rels) < 2 \/ \E dk \in c.rels : Start(dk) < End(dk)}

\* The keys of a packet of nodes are different nodes.
PacketTyped(p) ==
    /\ p.class \in Classes /\ p.rels \in Seq(DKs) /\ p.keys \in Seq(Elements)
    /\ p.new \in DKs \cup {None}
    /\ OfNodes(p) => /\ \A k \in DOMAIN p.keys : IsNodeRef(p.keys[k])
                     /\ \A j, k \in DOMAIN p.keys : p.keys[j] = p.keys[k] => j = k

\* A packet that has begun and is not of this detection's any more is older.
Dated ==
    /\ left.detections \in Nat
    /\ \A p \in packets : p.gen = left.detections
    /\ \A p \in begun : \/ p.gen \in Nat /\ p.gen > left.detections
                        \/ p.gen = left.detections /\ p \in packets \cup applied

Shaped ==
    /\ DOMAIN left = {"detections", "packets", "faults", "stages", "together"}
    /\ DOMAIN work = {"pc", "packet", "steps", "i", "obsolete", "out", "in", "affected", "before"}

\* While a merge is under way its step is the current one, and what is left to
\* collapse are keys behind the first.
Merging ==
    work.pc \in {"read", "repoint"} =>
        /\ work.i <= Len(work.steps) /\ Current.op = "merge_nodes"
        /\ work.obsolete \in Seq(Elements) /\ work.obsolete # <<>>
        /\ Range(work.obsolete) \subseteq Range(Tail(work.packet.keys))

Busy ==
    \/ work = Idle
    \/ /\ work.pc # "idle"
       /\ work.packet \in begun /\ (work.pc # "scoped" => work.packet \in packets)
       /\ work.steps = Steps(work.packet)

TypeInv ==
    /\ graph \in Graphs /\ writes \in Seq(Elements)
    /\ found \subseteq Candidates
    /\ \A p \in packets \cup begun : PacketTyped(p)
    /\ Dated /\ Shaped /\ Merging /\ Busy
    /\ TypeOK

\* Node n may be gone because of one of these packets.
Taken(n, by) ==
    \E q \in by : /\ q.gen = left.detections
                  /\ q.class \in {"merge", "delete"} /\ NodeRef(n) \in KeySet(q)

\* What was found is there, and so is what a merge is to keep.
StillThere ==
    /\ \A c \in found : \A n \in c.nodes : n \in graph.nodes \/ Taken(n, begun)
    /\ \A p \in packets :
          p.class = "merge" /\ p.keys # <<>> /\ OfNodes(p) =>
              Named(p.keys[1]) \in graph.nodes \/ Taken(Named(p.keys[1]), begun \ {p})

\* Each relationship of the obsolete node is still to be repointed, or there
\* already at the survivor.
Repointed ==
    work.pc = "repoint" =>
        /\ \A dk \in OutRels(graph, Obsolete, Survivor) :
              dk \in work.out \/ RepointOut(dk, Survivor) \in RelKeys(graph)
        /\ \A dk \in InRels(graph, Obsolete, Survivor) :
              dk \in work.in \/ RepointIn(dk, Survivor) \in RelKeys(graph)

NewIsItself == graph.nodes \subseteq seen /\ \A n \in Nodes \ seen : into[n] = n

MergeInv ==
    /\ TypeInv /\ StillThere /\ NewIsItself
    /\ Orderly => Repointed
    /\ EntitiesKept /\ ConnectionsKept

\* Since a merge began relationships have come only to its survivor, and of those
\* that have gone whatever is still there is in the neighbourhood; the ends of those
\* that go with the obsolete node have been read.
AroundMerge ==
    LET survivor == Named(work.packet.keys[1])
    IN  /\ survivor \in work.affected
        /\ graph.nodes \subseteq work.before.nodes
        /\ \A r \in graph.rels : r \in work.before.rels \/ survivor \in Ends(r.dk)
        /\ \A r \in work.before.rels :
              r.dk \in RelKeys(graph) => r \in graph.rels \/ survivor \in Ends(r.dk)
        /\ \A dk \in RelKeys(work.before) \ RelKeys(graph) :
              Ends(dk) \cap graph.nodes \subseteq work.affected
        /\ work.pc = "repoint" =>
              /\ \A dk \in work.out : End(dk) \in work.affected
              /\ \A dk \in work.in : Start(dk) \in work.affected
              /\ \A dk \in RelKeys(graph) : Obsolete \in Ends(dk) => Ends(dk) \subseteq work.affected

AroundInv ==
    /\ work.pc = "step" /\ work.i = 1 => graph = work.before
    /\ work.pc \in {"read", "repoint", "scoped"} => work.affected # {}
    /\ work.affected # {} =>
          /\ Len(work.steps) = 1 /\ (work.pc = "step" => work.i > 1)
          /\ AroundMerge

\* A probable duplicate is of two nodes, one in both directions of a relationship
\* and the one back, and no candidate is of nothing.
Formed(c) ==
    /\ c.rels # {} \/ c.nodes # {}
    /\ c.method = "probable_duplicate" => c.rels = {} /\ Cardinality(c.nodes) = 2
    /\ c.method = "bidirectional_rel_duplicate" =>
          /\ c.nodes = {}
          /\ \E dk \in DKs : /\ Start(dk) # End(dk)
                             /\ c.rels = {dk, <<Type(dk), End(dk), Start(dk)>>}

\* What is behind the first of a sequence.
Behind(q) == {q[k] : k \in 2 .. Len(q)}

NodeIn(ref, c) == IsNodeRef(ref) /\ Named(ref) \in c.nodes

\* Of each candidate a packet is to put right, its steps take away an element.
Apt(p) ==
    /\ p.class = "merge" /\ Remedies(p) => \A c \in p.of :
          \/ p.keys = <<>> /\ Behind(p.rels) \cap c.rels # {}
          \/ Len(p.keys) >= 2 /\ \E ref \in Behind(p.keys) : NodeIn(ref, c)
    /\ p.class = "delete" /\ Remedies(p) => \A c \in p.of :
          \/ Range(p.rels) \cap c.rels # {}
          \/ \E ref \in Range(p.keys) : NodeIn(ref, c)
    /\ p.class = "normalize" /\ p.new # None => \A c \in p.of :
          p.rels # <<>> /\ p.rels[1] \in c.rels

RemedyInv == (\A c \in found : Formed(c)) /\ \A p \in packets : Apt(p)

=============================================================================
