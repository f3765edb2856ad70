--------------------------- MODULE CandidateGroups ---------------------------
(* Grouping candidates that share a graph element.  The router does it to    *)
(* form batches (_group_by_shared_refs), the review job does it again to     *)
(* merge a cluster into one candidate (_consolidate_clusters).  Both run a   *)
(* union-find over the positions of the list; the paths it compresses do not *)
(* change a root, so only the parent links are kept.                         *)
EXTENDS Naturals, FiniteSets, FiniteSetsExt, SequencesExt

\* A list of candidates is a sequence of their involved_element_refs, each a
\* set; SeqOf is the order in which a loop visits one of them.
Positions(refs) == DOMAIN refs

RootIn(parent) ==
    LET root[i \in DOMAIN parent] == IF parent[i] = i THEN i ELSE root[parent[i]]
    IN  root

\* The first position of the list that holds ref n.
FirstWith(refs, n) == Min({i \in Positions(refs) : n \in refs[i]})

\* wrong: the position is hung below the other, whatever it held before.
UnionForgets(parent, root, i, k) == [parent EXCEPT ![i] = k]

\* union(i, first): the root of i is hung below the root of the other; for two
\* with the same root this changes nothing.
Union(parent, root, i, k) == [parent EXCEPT ![root[i]] = root[k]]

\* Each candidate is united, ref by ref, with the first one that has the ref.
Parents(refs) ==
    FoldLeftDomain(
        LAMBDA parent, i :
            FoldSet(LAMBDA n, p : Union(p, RootIn(p), i, FirstWith(refs, n)), parent, refs[i]),
        [k \in Positions(refs) |-> k], refs)

\* The groups, each a set of positions.
Groups(refs) ==
    LET root == RootIn(Parents(refs))
    IN  {{k \in Positions(refs) : root[k] = root[i]} : i \in Positions(refs)}

\* sorted(groups.values(), key=first position)
InOrder(groups) ==
    [k \in 1 .. Cardinality(groups) |->
        CHOOSE g \in groups : Cardinality({h \in groups : Min(h) <= Min(g)}) = k]

SortedGroups(refs) == InOrder(Groups(refs))

\* The batch that is being filled is closed, unless nothing is in it.
Close(b) == IF b.open = {} THEN b.closed ELSE Append(b.closed, b.open)

\* One group is added to the batches formed so far.
Pack(b, group, max) ==
    CASE Cardinality(group) > max ->
            [closed |-> Append(Close(b), group), open |-> {}]
      [] Cardinality(group) <= max /\ Cardinality(b.open) + Cardinality(group) > max ->
            [closed |-> Close(b), open |-> group]
      [] OTHER -> [closed |-> b.closed, open |-> b.open \cup group]

\* _group_by_shared_refs: the batches, in order, each a set of positions.
BatchesOf(refs, max) ==
    Close(FoldLeft(LAMBDA b, group : Pack(b, group, max),
                   [closed |-> <<>>, open |-> {}], SortedGroups(refs)))
=============================================================================
