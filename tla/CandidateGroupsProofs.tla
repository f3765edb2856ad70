------------------------ MODULE CandidateGroupsProofs ------------------------
(* The grouping of candidates does what it is for, whatever the list: the     *)
(* groups share no graph element and the batches are made of whole groups.    *)
(* A recursive function and a fold are defined by CHOOSE, so the proofs first *)
(* show that there is something to choose, and then take the least exception. *)
EXTENDS CandidateGroups, FiniteSetTheorems, WellFoundedInduction, TLAPS

(***************************************************************************)
(* Induction without a predicate: a set of exceptions has a smallest one.   *)
(***************************************************************************)
LEMMA LeastNatural ==
    ASSUME NEW T, T \subseteq Nat, T # {}
    PROVE  \E x \in T : \A y \in T : x <= y
<1>1. IsWellFoundedOn(OpToRel(<, Nat), Nat)
  BY NatLessThanWellFounded
<1>2. PICK x \in T : \A y \in T : ~ (<<y, x>> \in OpToRel(<, Nat))
  BY <1>1, WFMin
<1>3. \A y \in T : ~ (y < x)
  BY <1>2 DEF OpToRel
<1>4. QED
  BY <1>3

LEMMA LeastSubset ==
    ASSUME NEW S, IsFiniteSet(S), NEW T, T \subseteq SUBSET S, T # {}
    PROVE  \E s \in T : \A t \in SUBSET s : t # s => t \notin T
<1>1. IsWellFoundedOn(StrictSubsetOrdering(S), SUBSET S)
  BY FS_StrictSubsetOrderingWellFounded, FS_FiniteSubsetsOfFinite
<1>2. PICK s \in T : \A t \in T : ~ (<<t, s>> \in StrictSubsetOrdering(S))
  BY <1>1, WFMin
<1>3. ASSUME NEW t \in SUBSET s, t # s, t \in T PROVE FALSE
  BY <1>2, <1>3 DEF StrictSubsetOrdering
<1>4. QED
  BY <1>3

(***************************************************************************)
(* Recursive functions are defined: one that asks at each point of D for its *)
(* value at one other point, until it stops.                                *)
(***************************************************************************)
\* No way from point to point goes on for ever.
Halts(D, stop, pred) ==
    \A T \in SUBSET D : T # {} => \E t \in T : t \in stop \/ pred[t] \notin T

Recursion(D, V, stop, pred, base, step) ==
    /\ pred \in [D -> D] /\ Halts(D, stop, pred)
    /\ base \in [D -> V] /\ step \in [D -> [V -> V]]

Solves(g, D, V, stop, pred, base, step) ==
    /\ g \in [D -> V]
    /\ \A d \in D : g[d] = IF d \in stop THEN base[d] ELSE step[d][g[pred[d]]]

LEMMA RecursionDefined ==
    ASSUME NEW D, NEW V, NEW stop, NEW pred, NEW base, NEW step,
           Recursion(D, V, stop, pred, base, step)
    PROVE  \E g : Solves(g, D, V, stop, pred, base, step)
<1> USE DEF Recursion, Solves
<1> DEFINE All == D \X V
           Closed(G) == /\ \A d \in D : d \in stop => <<d, base[d]>> \in G
                        /\ \A d \in D, v \in V :
                              d \notin stop /\ <<pred[d], v>> \in G => <<d, step[d][v]>> \in G
           G0 == {x \in All : \A G \in SUBSET All : Closed(G) => x \in G}
<1>1. \A d \in D : base[d] \in V /\ pred[d] \in D
  OBVIOUS
<1>2. ASSUME NEW d \in D, NEW v \in V PROVE step[d][v] \in V
  <2>1. step[d] \in [V -> V]
    OBVIOUS
  <2>2. QED
    BY <2>1
<1>3. Closed(G0)
  <2>1. ASSUME NEW d \in D, d \in stop PROVE <<d, base[d]>> \in G0
    BY <1>1, <2>1
  <2>2. ASSUME NEW d \in D, NEW v \in V, d \notin stop, <<pred[d], v>> \in G0
        PROVE  <<d, step[d][v]>> \in G0
    <3>1. <<d, step[d][v]>> \in All
      BY <1>2
    <3>2. ASSUME NEW G \in SUBSET All, Closed(G) PROVE <<d, step[d][v]>> \in G
      BY <2>2, <3>2
    <3>3. QED
      BY <3>1, <3>2
  <2>3. QED
    BY <2>1, <2>2
<1>4. ASSUME NEW x \in G0, Closed(G0 \ {x}) PROVE FALSE
  <2> HIDE DEF Closed
  <2>1. G0 \ {x} \in SUBSET All
    OBVIOUS
  <2>2. x \in G0 \ {x}
    BY <1>4, <2>1
  <2>3. QED
    BY <2>2
<1> HIDE DEF G0
<1> DEFINE One(d) == \E v \in V : <<d, v>> \in G0 /\ \A w \in V : <<d, w>> \in G0 => w = v
           Bad == {d \in D : ~ One(d)}
<1>5. ASSUME Bad # {} PROVE FALSE
  <2> HIDE DEF One
  <2>1. Bad \in SUBSET D
    OBVIOUS
  <2>2. PICK t \in Bad : t \in stop \/ pred[t] \notin Bad
    BY <1>5, <2>1 DEF Halts
  <2>3. t \in D /\ ~ One(t) /\ (t \in stop \/ One(pred[t]))
    BY <1>1, <2>2
  <2> USE DEF One
  <2> HIDE DEF Bad
  <2>4. CASE t \in stop
    <3>1. PICK w \in V : <<t, w>> \in G0 /\ w # base[t]
      BY <1>1, <1>3, <2>3, <2>4
    <3>2. Closed(G0 \ {<<t, w>>})
      BY <1>3, <2>4, <3>1
    <3>3. QED
      BY <1>4, <3>1, <3>2
  <2>5. CASE t \notin stop
    <3>1. PICK v \in V : <<pred[t], v>> \in G0 /\ \A w \in V : <<pred[t], w>> \in G0 => w = v
      BY <2>3, <2>5
    <3>2. step[t][v] \in V /\ <<t, step[t][v]>> \in G0
      BY <1>2, <1>3, <2>3, <2>5, <3>1
    <3>3. PICK w \in V : <<t, w>> \in G0 /\ w # step[t][v]
      BY <2>3, <3>2
    <3>4. Closed(G0 \ {<<t, w>>})
      <4>1. \A d \in D : d \in stop => <<d, base[d]>> \in G0 \ {<<t, w>>}
        BY <1>3, <2>5
      <4>2. ASSUME NEW d \in D, NEW x \in V, d \notin stop,
                   <<pred[d], x>> \in G0 \ {<<t, w>>}, <<d, step[d][x]>> = <<t, w>>
            PROVE  FALSE
        BY <3>1, <3>3, <4>2
      <4>3. \A d \in D, x \in V :
               d \notin stop /\ <<pred[d], x>> \in G0 \ {<<t, w>>}
                  => <<d, step[d][x]>> \in G0 \ {<<t, w>>}
        BY <1>3, <4>2
      <4>4. QED
        BY <4>1, <4>3
    <3>5. QED
      BY <1>4, <3>3, <3>4
  <2>6. QED
    BY <2>4, <2>5
<1>6. \A d \in D : One(d)
  BY <1>5
<1> DEFINE g == [d \in D |-> CHOOSE v \in V : <<d, v>> \in G0]
<1>7. \A d \in D : g[d] \in V /\ <<d, g[d]>> \in G0 /\ \A w \in V : <<d, w>> \in G0 => w = g[d]
  BY <1>6
<1>8. g \in [D -> V]
  BY <1>7
<1> HIDE DEF g
<1>9. ASSUME NEW d \in D
      PROVE  g[d] = IF d \in stop THEN base[d] ELSE step[d][g[pred[d]]]
  <2>1. CASE d \in stop
    BY <1>1, <1>3, <1>7, <2>1
  <2>2. CASE d \notin stop
    <3>1. g[pred[d]] \in V /\ <<pred[d], g[pred[d]]>> \in G0
      BY <1>1, <1>7
    <3>2. <<d, step[d][g[pred[d]]]>> \in G0 /\ step[d][g[pred[d]]] \in V
      BY <1>2, <1>3, <2>2, <3>1
    <3>3. QED
      BY <1>7, <2>2, <3>2
  <2>3. QED
    BY <2>1, <2>2
<1>10. QED
  BY <1>8, <1>9

\* A fold over a finite set asks for its value at the set without one element.
Fold(S, V, base, pick, step) ==
    /\ IsFiniteSet(S) /\ base \in V
    /\ \A s \in SUBSET S : s # {} => pick[s] \in s
    /\ step \in [SUBSET S -> [V -> V]]

Folded(g, S, V, base, pick, step) ==
    /\ g \in [SUBSET S -> V]
    /\ \A s \in SUBSET S : g[s] = IF s = {} THEN base ELSE step[s][g[s \ {pick[s]}]]

LEMMA FoldDefined ==
    ASSUME NEW S, NEW V, NEW base, NEW pick, NEW step, Fold(S, V, base, pick, step)
    PROVE  \E g : Folded(g, S, V, base, pick, step)
<1> USE DEF Fold
<1> DEFINE D == SUBSET S
           pred == [s \in D |-> s \ {pick[s]}]
           bases == [s \in D |-> base]
<1>1. pred \in [D -> D] /\ bases \in [D -> V]
  OBVIOUS
<1>2. Halts(D, {{}}, pred)
  <2> SUFFICES ASSUME NEW T \in SUBSET D, T # {}
               PROVE  \E t \in T : t \in {{}} \/ pred[t] \notin T
    BY DEF Halts
  <2>1. PICK t \in T : \A u \in SUBSET t : u # t => u \notin T
    BY LeastSubset
  <2>2. t # {} => pred[t] \in SUBSET t /\ pred[t] # t
    BY <2>1
  <2>3. QED
    BY <2>1, <2>2
<1>3. Recursion(D, V, {{}}, pred, bases, step)
  BY <1>1, <1>2 DEF Recursion
<1> HIDE DEF D, pred, bases
<1>4. PICK g : Solves(g, D, V, {{}}, pred, bases, step)
  BY <1>3, RecursionDefined
<1>5. \A s \in D : bases[s] = base /\ pred[s] = s \ {pick[s]}
  BY DEF bases, pred
<1>6. g \in [D -> V] /\ \A s \in D : g[s] = IF s = {} THEN base ELSE step[s][g[s \ {pick[s]}]]
  BY <1>4, <1>5 DEF Solves
<1>7. QED
  BY <1>6 DEF D, Folded

(***************************************************************************)
(* The parent links                                                        *)
(***************************************************************************)
\* Links upwards in a ranking of the positions P.
Ranked(p, P, r, N) ==
    /\ r \in [P -> 0 .. N]
    /\ \A i \in P : p[i] # i => r[p[i]] > r[i]

Forest(p, P) ==
    /\ p \in [P -> P]
    /\ \E N \in Nat : \E r \in [P -> 0 .. N] : Ranked(p, P, r, N)

\* Each position has a root, which is its own parent and that of its parent too.
RootsOf(p, P, root) ==
    /\ root \in [P -> P]
    /\ \A i \in P : /\ root[i] = IF p[i] = i THEN i ELSE root[p[i]]
                    /\ p[root[i]] = root[i]

LEMMA ForestEnds ==
    ASSUME NEW P, NEW p, Forest(p, P)
    PROVE  Halts(P, {i \in P : p[i] = i}, p)
<1> SUFFICES ASSUME NEW T \in SUBSET P, T # {}
             PROVE  \E t \in T : t \in {i \in P : p[i] = i} \/ p[t] \notin T
  BY DEF Halts
<1>1. PICK N \in Nat : \E r \in [P -> 0 .. N] : Ranked(p, P, r, N)
  BY DEF Forest
<1>2. PICK r \in [P -> 0 .. N] : Ranked(p, P, r, N)
  BY <1>1
<1> DEFINE heights == {N - r[t] : t \in T}
<1>3. heights \subseteq Nat /\ heights # {}
  OBVIOUS
<1>4. PICK h \in heights : \A y \in heights : h <= y
  BY <1>3, LeastNatural
<1>5. PICK t \in T : h = N - r[t]
  BY <1>4
<1>6. CASE p[t] \in T /\ p[t] # t
  <2>1. r[p[t]] > r[t] /\ r[t] \in 0 .. N /\ r[p[t]] \in 0 .. N
    BY <1>2, <1>6 DEF Ranked
  <2>2. h <= N - r[p[t]]
    BY <1>4, <1>6
  <2>3. QED
    BY <1>5, <2>1, <2>2
<1>7. QED
  BY <1>6

LEMMA RootDefined ==
    ASSUME NEW P, NEW p, Forest(p, P)
    PROVE  RootsOf(p, P, RootIn(p))
<1> DEFINE stop == {i \in P : p[i] = i}
           base == [i \in P |-> i]
           step == [i \in P |-> base]
<1>1. p \in [P -> P] /\ DOMAIN p = P
  BY DEF Forest
<1>2. base \in [P -> P] /\ step \in [P -> [P -> P]]
  OBVIOUS
<1>3. Halts(P, stop, p)
  BY ForestEnds
<1>4. PICK g : Solves(g, P, P, stop, p, base, step)
  <2>1. Recursion(P, P, stop, p, base, step)
    BY <1>1, <1>2, <1>3 DEF Recursion
  <2> HIDE DEF stop, base, step
  <2>2. QED
    BY <2>1, RecursionDefined
<1>5. g \in [P -> P] /\ \A i \in P : g[i] = IF p[i] = i THEN i ELSE g[p[i]]
  BY <1>1, <1>4 DEF Solves
<1>6. g = [i \in DOMAIN p |-> IF p[i] = i THEN i ELSE g[p[i]]]
  BY <1>1, <1>5
<1> DEFINE root == RootIn(p)
<1>7. root = [i \in DOMAIN p |-> IF p[i] = i THEN i ELSE root[p[i]]]
  BY <1>6 DEF RootIn
<1> HIDE DEF root
<1>8. \A i \in P : root[i] = IF p[i] = i THEN i ELSE root[p[i]]
  BY <1>1, <1>7
<1> DEFINE Bad == {i \in P : ~ (root[i] \in P /\ p[root[i]] = root[i])}
<1>9. Bad = {}
  <2> SUFFICES ASSUME Bad # {} PROVE FALSE
    OBVIOUS
  <2>1. PICK t \in Bad : t \in stop \/ p[t] \notin Bad
    <3>1. Bad \in SUBSET P
      OBVIOUS
    <3> HIDE DEF Bad, stop
    <3>2. QED
      BY <1>3, <3>1 DEF Halts
  <2>2. QED
    BY <1>1, <1>8, <2>1
<1>10. root \in [P -> P]
  BY <1>1, <1>7, <1>9
<1>11. QED
  BY <1>8, <1>9, <1>10 DEF RootsOf, root

\* No link leads into a set of positions or out of it.
Stays(p, P, X) == \A i \in P : i \in X <=> p[i] \in X

\* Then a position and its root are both in the set, or neither is.
LEMMA RootStays ==
    ASSUME NEW P, NEW p, Forest(p, P), NEW X, Stays(p, P, X), NEW i \in P
    PROVE  i \in X <=> RootIn(p)[i] \in X
<1> DEFINE root == RootIn(p)
           Bad == {x \in P : ~ (x \in X <=> root[x] \in X)}
<1>1. RootsOf(p, P, root)
  BY RootDefined
<1> HIDE DEF root
<1>2. ASSUME Bad # {} PROVE FALSE
  <2>1. PICK t \in Bad : p[t] = t \/ p[t] \notin Bad
    <3>1. Halts(P, {x \in P : p[x] = x}, p) /\ Bad \in SUBSET P
      BY ForestEnds
    <3> HIDE DEF Bad
    <3>2. QED
      BY <1>2, <3>1 DEF Halts
  <2>2. root[t] = IF p[t] = t THEN t ELSE root[p[t]]
    BY <1>1 DEF RootsOf
  <2>3. t \in P /\ p[t] \in P /\ (t \in X <=> p[t] \in X)
    BY DEF Forest, Stays
  <2>4. QED
    BY <2>1, <2>2, <2>3
<1>3. QED
  BY <1>2 DEF root

\* union keeps the links a forest, in which the two have one root, parts none that
\* had the same one, and joins none that are apart like the two are not.
LEMMA UnionJoins ==
    ASSUME NEW P, NEW p, Forest(p, P), NEW i \in P, NEW k \in P
    PROVE  LET root == RootIn(p)
               q == Union(p, root, i, k)
           IN  /\ Forest(q, P)
               /\ RootIn(q)[i] = RootIn(q)[k]
               /\ \A x \in P, y \in P : root[x] = root[y] => RootIn(q)[x] = RootIn(q)[y]
               /\ \A X \in SUBSET P : Stays(p, P, X) /\ (i \in X <=> k \in X) => Stays(q, P, X)
<1> DEFINE root == RootIn(p)
           a == root[i]
           b == root[k]
           q == Union(p, root, i, k)
           after == RootIn(q)
<1>1. RootsOf(p, P, root)
  BY RootDefined
<1>2. p \in [P -> P] /\ a \in P /\ b \in P /\ p[a] = a /\ p[b] = b /\ root[a] = a /\ root[b] = b
  BY <1>1 DEF RootsOf, Forest
<1>3. q = [p EXCEPT ![a] = b]
  BY DEF Union
<1> HIDE DEF root, q
<1>4. q \in [P -> P] /\ q[a] = b /\ \A x \in P : x # a => q[x] = p[x]
  BY <1>2, <1>3
<1>5. Forest(q, P)
  <2>1. PICK N \in Nat : \E r \in [P -> 0 .. N] : Ranked(p, P, r, N)
    BY DEF Forest
  <2>2. PICK r \in [P -> 0 .. N] : Ranked(p, P, r, N)
    BY <2>1
  <2> DEFINE M == N + N + 1
             s == [x \in P |-> IF root[x] = b THEN r[x] + N + 1 ELSE r[x]]
  <2>3. M \in Nat /\ s \in [P -> 0 .. M]
    BY <2>2
  <2>4. ASSUME NEW x \in P, q[x] # x PROVE s[q[x]] > s[x]
    <3>1. r[x] \in 0 .. N /\ r[q[x]] \in 0 .. N
      BY <1>4, <2>2
    <3>2. CASE x = a
      <4>1. a # b /\ root[x] # b /\ q[x] = b
        BY <1>2, <1>4, <2>4, <3>2
      <4>2. s[q[x]] = r[b] + N + 1 /\ s[x] = r[x]
        BY <1>2, <4>1
      <4>3. QED
        BY <3>1, <4>1, <4>2
    <3>3. CASE x # a
      <4>1. q[x] = p[x] /\ r[p[x]] > r[x] /\ root[x] = root[p[x]]
        BY <1>1, <1>4, <2>2, <2>4, <3>3 DEF Ranked, RootsOf
      <4>2. p[x] \in P
        BY <1>2
      <4>3. QED
        BY <3>1, <4>1, <4>2
    <3>4. QED
      BY <3>2, <3>3
  <2> HIDE DEF M, s
  <2>5. Ranked(q, P, s, M)
    BY <2>3, <2>4 DEF Ranked
  <2>6. QED
    BY <1>4, <2>3, <2>5 DEF Forest
<1>6. RootsOf(q, P, after)
  BY <1>5, RootDefined
<1> HIDE DEF after
<1>7. after[b] = b /\ after[a] = b
  <2>1. q[b] = b
    BY <1>2, <1>4
  <2>2. QED
    BY <1>2, <1>4, <1>6, <2>1 DEF RootsOf
<1> DEFINE to(v) == IF v = a THEN b ELSE v
           Bad == {x \in P : after[x] # to(root[x])}
<1>8. Bad = {}
  <2> SUFFICES ASSUME Bad # {} PROVE FALSE
    OBVIOUS
  <2>1. PICK t \in Bad : p[t] = t \/ p[t] \notin Bad
    <3>1. Halts(P, {x \in P : p[x] = x}, p) /\ Bad \in SUBSET P
      BY ForestEnds
    <3> HIDE DEF Bad
    <3>2. QED
      BY <3>1 DEF Halts
  <2>2. t \in P /\ after[t] # to(root[t])
    OBVIOUS
  <2>3. t # a
    BY <1>2, <1>7, <2>2
  <2>4. CASE p[t] = t
    <3>1. root[t] = t /\ q[t] = t
      BY <1>1, <1>4, <2>2, <2>3, <2>4 DEF RootsOf
    <3>2. after[t] = t
      BY <1>6, <2>2, <3>1 DEF RootsOf
    <3>3. QED
      BY <2>2, <2>3, <3>1, <3>2
  <2>5. CASE p[t] # t
    <3>1. q[t] = p[t] /\ root[t] = root[p[t]] /\ p[t] \in P
      BY <1>1, <1>2, <1>4, <2>2, <2>3, <2>5 DEF RootsOf
    <3>2. after[t] = after[p[t]]
      BY <1>6, <2>2, <2>5, <3>1 DEF RootsOf
    <3>3. after[p[t]] = to(root[p[t]])
      BY <2>1, <2>5, <3>1
    <3>4. QED
      BY <2>2, <3>1, <3>2, <3>3
  <2>6. QED
    BY <2>4, <2>5
<1>9. \A x \in P : after[x] = to(root[x])
  BY <1>8
<1>10. after[i] = after[k]
  BY <1>9
<1>11. \A x \in P, y \in P : root[x] = root[y] => after[x] = after[y]
  BY <1>9
<1>12. ASSUME NEW X \in SUBSET P, Stays(p, P, X), i \in X <=> k \in X PROVE Stays(q, P, X)
  <2>1. a \in X <=> b \in X
    BY <1>12, RootStays DEF root
  <2>2. QED
    BY <1>2, <1>4, <1>12, <2>1 DEF Stays
<1>13. QED
  BY <1>5, <1>10, <1>11, <1>12 DEF root, q, after

(***************************************************************************)
(* The union of all                                                        *)
(***************************************************************************)
LEMMA MinOfSet ==
    ASSUME NEW T, T \subseteq Nat, T # {}
    PROVE  Min(T) \in T /\ \A y \in T : Min(T) <= y
BY LeastNatural DEF Min

LEMMA MaxOfSet ==
    ASSUME NEW N \in Nat, NEW T, T \subseteq 0 .. N, T # {}
    PROVE  Max(T) \in T /\ \A y \in T : y <= Max(T)
<1> DEFINE U == {N - t : t \in T}
<1>1. U \subseteq Nat /\ U # {}
  <2>1. \A t \in T : N - t \in Nat
    OBVIOUS
  <2>2. QED
    BY <2>1
<1>2. PICK u \in U : \A y \in U : u <= y
  BY <1>1, LeastNatural
<1>3. PICK t \in T : u = N - t
  BY <1>2
<1>4. \A y \in T : t >= y
  BY <1>2, <1>3
<1>5. Max(T) \in T /\ \A y \in T : Max(T) >= y
  BY <1>3, <1>4 DEF Max
<1>6. QED
  BY <1>5

\* A list of candidates: its positions are numbers, and each has finitely many refs.
IsList(refs) ==
    /\ IsFiniteSet(DOMAIN refs)
    /\ \E N \in Nat : DOMAIN refs \subseteq 0 .. N
    /\ \A i \in DOMAIN refs : IsFiniteSet(refs[i])

\* A set of positions that shares no ref with the others.
Separate(refs, X) ==
    \A i, k \in DOMAIN refs : refs[i] \cap refs[k] # {} => (i \in X <=> k \in X)

LEMMA FirstHasRef ==
    ASSUME NEW refs, IsList(refs), NEW i \in DOMAIN refs, NEW n \in refs[i]
    PROVE  /\ FirstWith(refs, n) \in DOMAIN refs
           /\ \A X : Separate(refs, X) => (i \in X <=> FirstWith(refs, n) \in X)
<1> DEFINE T == {k \in Positions(refs) : n \in refs[k]}
<1>1. T \subseteq Nat /\ T # {}
  BY DEF IsList, Positions
<1>2. Min(T) \in T
  BY <1>1, MinOfSet
<1>3. FirstWith(refs, n) \in DOMAIN refs /\ n \in refs[FirstWith(refs, n)]
  BY <1>2 DEF FirstWith, Positions
<1>4. QED
  BY <1>3 DEF Separate

\* What a set of links must have become.
Joins(p, q, P, i, refs, s) ==
    /\ Forest(q, P)
    /\ \A n \in s : RootIn(q)[i] = RootIn(q)[FirstWith(refs, n)]
    /\ \A x \in P, y \in P : RootIn(p)[x] = RootIn(p)[y] => RootIn(q)[x] = RootIn(q)[y]
    /\ \A X \in SUBSET P : Separate(refs, X) /\ Stays(p, P, X) => Stays(q, P, X)

Unite(refs, parent, i) ==
    FoldSet(LAMBDA n, p : Union(p, RootIn(p), i, FirstWith(refs, n)), parent, refs[i])

LEMMA UniteJoins ==
    ASSUME NEW refs, IsList(refs), NEW i \in DOMAIN refs,
           NEW p, Forest(p, DOMAIN refs)
    PROVE  Joins(p, Unite(refs, p, i), DOMAIN refs, i, refs, refs[i])
<1> DEFINE P == DOMAIN refs
           S == refs[i]
           V == {q \in [P -> P] : Forest(q, P)}
           pick == [s \in SUBSET S |-> CHOOSE x \in s : TRUE]
           united(q, n) == Union(q, RootIn(q), i, FirstWith(refs, n))
           step == [s \in SUBSET S |-> [q \in V |-> IF s = {} THEN q ELSE united(q, pick[s])]]
<1>1. IsFiniteSet(S) /\ p \in V
  BY DEF IsList, Forest
<1>2. \A s \in SUBSET S : s # {} => pick[s] \in s
  OBVIOUS
<1>3. ASSUME NEW q \in V, NEW n \in S
      PROVE  /\ united(q, n) \in V
             /\ RootIn(united(q, n))[i] = RootIn(united(q, n))[FirstWith(refs, n)]
             /\ \A x \in P, y \in P : RootIn(q)[x] = RootIn(q)[y]
                  => RootIn(united(q, n))[x] = RootIn(united(q, n))[y]
             /\ \A X \in SUBSET P : Separate(refs, X) /\ Stays(q, P, X)
                  => Stays(united(q, n), P, X)
  <2>1. FirstWith(refs, n) \in P /\ i \in P /\ Forest(q, P)
    BY FirstHasRef
  <2>2. /\ Forest(united(q, n), P)
        /\ RootIn(united(q, n))[i] = RootIn(united(q, n))[FirstWith(refs, n)]
        /\ \A x \in P, y \in P : RootIn(q)[x] = RootIn(q)[y]
             => RootIn(united(q, n))[x] = RootIn(united(q, n))[y]
        /\ \A X \in SUBSET P : Stays(q, P, X) /\ (i \in X <=> FirstWith(refs, n) \in X)
             => Stays(united(q, n), P, X)
    BY <2>1, UnionJoins
  <2>3. united(q, n) \in [P -> P]
    BY <2>2 DEF Forest
  <2>4. \A X \in SUBSET P : Separate(refs, X) => (i \in X <=> FirstWith(refs, n) \in X)
    BY FirstHasRef
  <2>5. QED
    BY <2>2, <2>3, <2>4
<1> HIDE DEF V, united, pick
<1>4. step \in [SUBSET S -> [V -> V]]
  BY <1>2, <1>3
<1>5. PICK g : Folded(g, S, V, p, pick, step)
  <2>1. Fold(S, V, p, pick, step)
    BY <1>1, <1>2, <1>4 DEF Fold
  <2> HIDE DEF step, S
  <2>2. QED
    BY <2>1, FoldDefined
<1>14. g \in [SUBSET S -> V]
  BY <1>5 DEF Folded
<1>6. \A s \in SUBSET S : g[s] = IF s = {} THEN p ELSE united(g[s \ {pick[s]}], pick[s])
  BY <1>5, <1>14 DEF Folded
<1>7. g = [s \in SUBSET S |-> IF s = {} THEN p
                              ELSE united(g[s \ {CHOOSE x \in s : TRUE}], CHOOSE x \in s : TRUE)]
  BY <1>14, <1>6 DEF pick
<1> DEFINE iter == CHOOSE f : f = [s \in SUBSET S |-> IF s = {} THEN p
                              ELSE united(f[s \ {CHOOSE x \in s : TRUE}], CHOOSE x \in s : TRUE)]
<1>8. Unite(refs, p, i) = iter[S]
  BY DEF Unite, FoldSet, MapThenFoldSet, united
<1>9. iter = [s \in SUBSET S |-> IF s = {} THEN p
                              ELSE united(iter[s \ {CHOOSE x \in s : TRUE}], CHOOSE x \in s : TRUE)]
  BY <1>7
<1> HIDE DEF iter
<1>10. \A s \in SUBSET S : iter[s] = IF s = {} THEN p ELSE united(iter[s \ {pick[s]}], pick[s])
  BY <1>9 DEF pick
<1> DEFINE Good(s) == iter[s] \in V /\ Joins(p, iter[s], P, i, refs, s)
           Bad == {s \in SUBSET S : ~ Good(s)}
<1>11. ASSUME Bad # {} PROVE FALSE
  <2> HIDE DEF Good
  <2>1. Bad \subseteq SUBSET S
    OBVIOUS
  <2>2. PICK t \in Bad : \A u \in SUBSET t : u # t => u \notin Bad
    <3> HIDE DEF Bad, S
    <3>1. QED
      BY <1>1, <1>11, <2>1, LeastSubset
  <2>3. t \in SUBSET S /\ ~ Good(t) /\ \A u \in SUBSET t : u # t => Good(u)
    BY <2>2
  <2> HIDE DEF Bad
  <2>4. CASE t = {}
    <3>1. iter[t] = p
      BY <1>10, <2>3, <2>4
    <3>2. Forest(p, P)
      OBVIOUS
    <3>3. Good(t)
      BY <1>1, <2>4, <3>1, <3>2 DEF Good, Joins
    <3>4. QED
      BY <2>3, <3>3
  <2>5. CASE t # {}
    <3> DEFINE n == pick[t]
               u == t \ {n}
               q == iter[u]
               w == iter[t]
    <3>1. n \in t /\ n \in S /\ u \in SUBSET t /\ u # t
      BY <1>2, <2>3, <2>5
    <3>2. Good(u)
      BY <2>3, <3>1
    <3>3. w = united(q, n)
      BY <1>10, <2>3, <2>5
    <3> HIDE DEF n, u, q, w
    <3>4. q \in V /\ Joins(p, q, P, i, refs, u)
      BY <3>2 DEF Good, q
    <3>5. /\ w \in V
          /\ RootIn(w)[i] = RootIn(w)[FirstWith(refs, n)]
          /\ \A x \in P, y \in P : RootIn(q)[x] = RootIn(q)[y] => RootIn(w)[x] = RootIn(w)[y]
          /\ \A X \in SUBSET P : Separate(refs, X) /\ Stays(q, P, X) => Stays(w, P, X)
      BY <1>3, <3>1, <3>3, <3>4
    <3>6. \A m \in t : RootIn(w)[i] = RootIn(w)[FirstWith(refs, m)]
      <4>1. ASSUME NEW m \in u PROVE RootIn(w)[i] = RootIn(w)[FirstWith(refs, m)]
        <5>1. RootIn(q)[i] = RootIn(q)[FirstWith(refs, m)]
          BY <3>4 DEF Joins
        <5>2. m \in S
          BY <2>3, <3>1
        <5>3. FirstWith(refs, m) \in P
          BY <5>2, FirstHasRef
        <5>4. QED
          BY <3>5, <5>1, <5>3
      <4>2. QED
        BY <3>5, <4>1 DEF u
    <3>7. Forest(w, P)
      BY <3>5 DEF V
    <3>8. \A x \in P, y \in P : RootIn(p)[x] = RootIn(p)[y] => RootIn(w)[x] = RootIn(w)[y]
      BY <3>4, <3>5 DEF Joins
    <3>9. \A X \in SUBSET P : Separate(refs, X) /\ Stays(p, P, X) => Stays(w, P, X)
      BY <3>4, <3>5 DEF Joins
    <3>10. Good(t)
      BY <3>5, <3>6, <3>7, <3>8, <3>9 DEF Good, Joins, w
    <3>11. QED
      BY <2>3, <3>10
  <2>6. QED
    BY <2>4, <2>5
<1>12. Good(S)
  BY <1>11
<1>13. QED
  BY <1>8, <1>12

\* In the end each position has the root of the first position with the same ref,
\* and no other root than those of positions it is tied to.
LEMMA ParentsJoin ==
    ASSUME NEW refs, IsList(refs)
    PROVE  LET P == DOMAIN refs
               root == RootIn(Parents(refs))
           IN  /\ Forest(Parents(refs), P)
               /\ \A i \in P : \A n \in refs[i] : root[i] = root[FirstWith(refs, n)]
               /\ \A X \in SUBSET P : Separate(refs, X) => Stays(Parents(refs), P, X)
<1> DEFINE P == DOMAIN refs
           V == {q \in [P -> P] : Forest(q, P)}
           start == [k \in Positions(refs) |-> k]
           pick == [s \in SUBSET P |-> Max(s)]
           step == [s \in SUBSET P |-> [q \in V |-> IF s = {} THEN q ELSE Unite(refs, q, pick[s])]]
<1>1. start \in V /\ \A X : Stays(start, P, X)
  <2>1. start \in [P -> P] /\ \A i \in P : start[i] = i
    BY DEF Positions
  <2> DEFINE r == [i \in P |-> 0]
  <2>2. Ranked(start, P, r, 0) /\ r \in [P -> 0 .. 0] /\ 0 \in Nat
    BY <2>1 DEF Ranked
  <2>3. Forest(start, P)
    BY <2>1, <2>2 DEF Forest
  <2>4. QED
    BY <2>1, <2>3 DEF Stays
<1>2. \A s \in SUBSET P : s # {} => pick[s] \in s
  <2>1. PICK N \in Nat : P \subseteq 0 .. N
    BY DEF IsList
  <2>2. QED
    BY <2>1, MaxOfSet
<1>3. ASSUME NEW q \in V, NEW i \in P
      PROVE  Unite(refs, q, i) \in V /\ Joins(q, Unite(refs, q, i), P, i, refs, refs[i])
  <2>1. Joins(q, Unite(refs, q, i), P, i, refs, refs[i])
    BY UniteJoins
  <2>2. QED
    BY <2>1 DEF Joins, Forest
<1> HIDE DEF V, pick, start
<1>4. step \in [SUBSET P -> [V -> V]]
  BY <1>2, <1>3
<1>5. PICK g : Folded(g, P, V, start, pick, step)
  <2>1. Fold(P, V, start, pick, step)
    BY <1>1, <1>2, <1>4 DEF Fold, IsList
  <2> HIDE DEF step, P
  <2>2. QED
    BY <2>1, FoldDefined
<1>6. g \in [SUBSET P -> V]
  BY <1>5 DEF Folded
<1>7. \A s \in SUBSET P : g[s] = IF s = {} THEN start ELSE Unite(refs, g[s \ {pick[s]}], pick[s])
  BY <1>5, <1>6 DEF Folded
<1> DEFINE seq == [i \in DOMAIN refs |-> i]
<1>8. \A s \in SUBSET P : s # {} => seq[Max(s)] = Max(s)
  BY <1>2 DEF pick
<1>9. g = [s \in SUBSET P |-> IF s = {} THEN start ELSE Unite(refs, g[s \ {Max(s)}], seq[Max(s)])]
  BY <1>6, <1>7, <1>8 DEF pick
<1> DEFINE iter == CHOOSE f : f = [s \in SUBSET P |-> IF s = {} THEN start
                                        ELSE Unite(refs, f[s \ {Max(s)}], seq[Max(s)])]
<1>10. Parents(refs) = iter[P]
  BY DEF Parents, FoldLeftDomain, FoldLeft, MapThenFoldSet, Unite, start
<1>11. iter = [s \in SUBSET P |-> IF s = {} THEN start
                                  ELSE Unite(refs, iter[s \ {Max(s)}], seq[Max(s)])]
  BY <1>9
<1> HIDE DEF iter
<1>12. \A s \in SUBSET P :
          iter[s] = IF s = {} THEN start ELSE Unite(refs, iter[s \ {pick[s]}], pick[s])
  BY <1>8, <1>11 DEF pick
<1> DEFINE Joined(q, i) == \A n \in refs[i] : RootIn(q)[i] = RootIn(q)[FirstWith(refs, n)]
           Kept(q) == \A X \in SUBSET P : Separate(refs, X) => Stays(q, P, X)
           Good(s) == iter[s] \in V /\ Kept(iter[s]) /\ \A i \in s : Joined(iter[s], i)
           Bad == {s \in SUBSET P : ~ Good(s)}
<1>13. ASSUME Bad # {} PROVE FALSE
  <2> HIDE DEF Good
  <2>1. Bad \subseteq SUBSET P
    OBVIOUS
  <2>2. PICK t \in Bad : \A u \in SUBSET t : u # t => u \notin Bad
    <3>1. IsFiniteSet(P)
      BY DEF IsList
    <3> HIDE DEF Bad, P
    <3>2. QED
      BY <1>13, <2>1, <3>1, LeastSubset
  <2>3. t \in SUBSET P /\ ~ Good(t) /\ \A u \in SUBSET t : u # t => Good(u)
    BY <2>2
  <2> HIDE DEF Bad
  <2>4. CASE t = {}
    BY <1>1, <1>12, <2>3, <2>4 DEF Good
  <2>5. CASE t # {}
    <3> DEFINE k == pick[t]
               u == t \ {k}
               q == iter[u]
               w == iter[t]
    <3>1. k \in t /\ k \in P /\ u \in SUBSET t /\ u # t
      BY <1>2, <2>3, <2>5
    <3>2. Good(u)
      BY <2>3, <3>1
    <3>3. w = Unite(refs, q, k)
      BY <1>12, <2>3, <2>5
    <3> HIDE DEF k, u, q, w
    <3>4. q \in V /\ Kept(q) /\ \A i \in u : Joined(q, i)
      BY <3>2 DEF Good, q
    <3>5. w \in V /\ Joins(q, w, P, k, refs, refs[k])
      BY <1>3, <3>1, <3>3, <3>4
    <3>6. ASSUME NEW i \in t PROVE Joined(w, i)
      <4>1. CASE i = k
        BY <3>5, <4>1 DEF Joins
      <4>2. CASE i # k
        <5> SUFFICES ASSUME NEW n \in refs[i] PROVE RootIn(w)[i] = RootIn(w)[FirstWith(refs, n)]
          OBVIOUS
        <5>1. i \in u /\ i \in P
          BY <2>3, <4>2 DEF u
        <5>2. RootIn(q)[i] = RootIn(q)[FirstWith(refs, n)] /\ FirstWith(refs, n) \in P
          BY <3>4, <5>1, FirstHasRef
        <5>3. QED
          BY <3>5, <5>1, <5>2 DEF Joins
      <4>3. QED
        BY <4>1, <4>2
    <3>7. Kept(w)
      BY <3>4, <3>5 DEF Joins
    <3> HIDE DEF Joined, Kept
    <3>8. Good(t)
      BY <3>5, <3>6, <3>7 DEF Good, w
    <3>9. QED
      BY <2>3, <3>8
  <2>6. QED
    BY <2>4, <2>5
<1>14. Good(P)
  BY <1>13
<1>15. QED
  BY <1>10, <1>14 DEF V

\* Two positions with a ref in common are in one group, and a position is in one only:
\* what the union-find of _group_by_shared_refs is for.
THEOREM GroupsApart ==
    ASSUME NEW refs, IsList(refs), NEW g \in Groups(refs), NEW h \in Groups(refs),
           NEW i \in g, NEW k \in h, i = k \/ refs[i] \cap refs[k] # {}
    PROVE  g = h
<1> DEFINE root == RootIn(Parents(refs))
<1>1. PICK a \in DOMAIN refs : g = {x \in DOMAIN refs : root[x] = root[a]}
  BY DEF Groups, Positions
<1>2. PICK b \in DOMAIN refs : h = {x \in DOMAIN refs : root[x] = root[b]}
  BY DEF Groups, Positions
<1> HIDE DEF root
<1>3. root[i] = root[k]
  <2>1. CASE i = k
    BY <2>1
  <2>2. CASE refs[i] \cap refs[k] # {}
    <3>1. PICK n : n \in refs[i] /\ n \in refs[k]
      BY <2>2
    <3>2. i \in DOMAIN refs /\ k \in DOMAIN refs
      BY <1>1, <1>2
    <3>3. root[i] = root[FirstWith(refs, n)] /\ root[k] = root[FirstWith(refs, n)]
      BY <3>1, <3>2, ParentsJoin DEF root
    <3>4. QED
      BY <3>3
  <2>3. QED
    BY <2>1, <2>2
<1>4. QED
  BY <1>1, <1>2, <1>3

\* A group holds nothing that is not tied to it: it is part of every set of positions
\* it has a position in, if that set shares no ref with the rest.
THEOREM GroupsTied ==
    ASSUME NEW refs, IsList(refs), NEW X \in SUBSET DOMAIN refs, Separate(refs, X),
           NEW g \in Groups(refs), NEW i \in g, i \in X
    PROVE  g \subseteq X
<1> DEFINE P == DOMAIN refs
           p == Parents(refs)
           root == RootIn(p)
<1>1. PICK a \in P : g = {x \in P : root[x] = root[a]}
  BY DEF Groups, Positions
<1>2. Forest(p, P) /\ Stays(p, P, X)
  BY ParentsJoin
<1> HIDE DEF p, P
<1>3. \A x \in P : x \in X <=> root[x] \in X
  BY <1>2, RootStays
<1> HIDE DEF root
<1>4. QED
  BY <1>1, <1>3

\* The groups cover the list.
LEMMA GroupsCover ==
    ASSUME NEW refs
    PROVE  UNION Groups(refs) = DOMAIN refs /\ {} \notin Groups(refs)
BY DEF Groups, Positions

(***************************************************************************)
(* The groups in order                                                     *)
(***************************************************************************)
LEMMA GroupsFinite ==
    ASSUME NEW refs, IsList(refs)
    PROVE  IsFiniteSet(Groups(refs)) /\ \A g \in Groups(refs) : Min(g) \in g /\ g \subseteq Nat
<1> DEFINE root == RootIn(Parents(refs))
           group == [i \in DOMAIN refs |-> {k \in DOMAIN refs : root[k] = root[i]}]
<1>1. group \in Surjection(DOMAIN refs, Groups(refs))
  BY DEF Surjection, Groups, Positions
<1>2. IsFiniteSet(Groups(refs))
  <2> HIDE DEF group
  <2>1. QED
    BY <1>1, FS_Surjection DEF IsList
<1>3. ASSUME NEW g \in Groups(refs) PROVE Min(g) \in g /\ g \subseteq Nat
  <2>1. g \subseteq DOMAIN refs /\ g # {}
    BY GroupsCover
  <2>2. PICK N \in Nat : DOMAIN refs \subseteq 0 .. N
    BY DEF IsList
  <2>3. g \subseteq Nat
    BY <2>1, <2>2
  <2>4. QED
    BY <2>1, <2>3, MinOfSet
<1>4. QED
  BY <1>2, <1>3

\* Every group has its place, and every place a group.
LEMMA InOrderIsOrder ==
    ASSUME NEW refs, IsList(refs)
    PROVE  LET groups == Groups(refs)
               seq == SortedGroups(refs)
           IN  /\ seq \in [1 .. Cardinality(groups) -> groups]
               /\ Cardinality(groups) \in Nat
               /\ \A j, k \in DOMAIN seq : seq[j] = seq[k] => j = k
               /\ \A g \in groups : \E k \in DOMAIN seq : seq[k] = g
<1> DEFINE groups == Groups(refs)
           n == Cardinality(groups)
           below == [g \in groups |-> {h \in groups : Min(h) <= Min(g)}]
           rank == [g \in groups |-> Cardinality(below[g])]
           seq == SortedGroups(refs)
<1>1. IsFiniteSet(groups) /\ \A g \in groups : Min(g) \in g /\ g \subseteq Nat
  BY GroupsFinite
<1>2. \A g, h \in groups : Min(g) = Min(h) => g = h
  BY <1>1, GroupsApart
<1>3. n \in Nat
  BY <1>1, FS_CardinalityType
<1> HIDE DEF groups
<1>4. ASSUME NEW g \in groups PROVE rank[g] \in 1 .. n /\ IsFiniteSet(below[g])
  <2>1. below[g] \in SUBSET groups /\ g \in below[g]
    BY <1>1
  <2> HIDE DEF below
  <2>2. IsFiniteSet(below[g]) /\ Cardinality(below[g]) <= n /\ Cardinality(below[g]) \in Nat
    BY <1>1, <2>1, FS_Subset, FS_CardinalityType
  <2>3. Cardinality(below[g]) # 0
    BY <2>1, <2>2, FS_EmptySet
  <2>4. QED
    BY <2>2, <2>3, <1>3
<1>5. ASSUME NEW g \in groups, NEW h \in groups, g # h, rank[g] = rank[h] PROVE FALSE
  <2>1. ASSUME NEW x \in groups, NEW y \in groups, Min(x) < Min(y), rank[x] = rank[y] PROVE FALSE
    <3>1. below[x] \in SUBSET below[y] /\ y \in below[y] /\ y \notin below[x]
      BY <1>1, <2>1
    <3>2. IsFiniteSet(below[y]) /\ Cardinality(below[y]) = Cardinality(below[x])
      BY <1>4, <2>1
    <3> HIDE DEF below
    <3>3. below[y] = below[x]
      BY <3>1, <3>2, FS_Subset
    <3>4. QED
      BY <3>1, <3>3
  <2>2. Min(g) < Min(h) \/ Min(h) < Min(g)
    BY <1>1, <1>2, <1>5
  <2>3. QED
    BY <1>5, <2>1, <2>2
<1>6. rank \in Injection(groups, 1 .. n)
  <2>1. rank \in [groups -> 1 .. n]
    BY <1>4
  <2>2. QED
    BY <2>1, <1>5 DEF Injection, IsInjective
<1>7. rank \in Surjection(groups, 1 .. n)
  <2>1. IsFiniteSet(1 .. n) /\ Cardinality(1 .. n) = n
    BY <1>3, FS_Interval
  <2> HIDE DEF rank, n
  <2>2. Cardinality(groups) = Cardinality(1 .. n)
    BY <2>1 DEF n
  <2>3. QED
    BY <1>6, <2>1, <2>2, FS_Injection
<1>8. \A k \in 1 .. n : \E g \in groups : rank[g] = k
  BY <1>7 DEF Surjection
<1>9. seq = [k \in 1 .. n |-> CHOOSE g \in groups : Cardinality({h \in groups : Min(h) <= Min(g)}) = k]
  BY DEF SortedGroups, InOrder, groups
<1>10. \A g \in groups : rank[g] = Cardinality({h \in groups : Min(h) <= Min(g)})
  OBVIOUS
<1> HIDE DEF rank, seq, n
<1>11. \A k \in 1 .. n : seq[k] \in groups /\ rank[seq[k]] = k
  BY <1>8, <1>9, <1>10
<1>12. seq \in [1 .. n -> groups]
  BY <1>9, <1>11
<1>13. ASSUME NEW g \in groups PROVE \E k \in DOMAIN seq : seq[k] = g
  <2>1. rank[g] \in 1 .. n
    BY <1>4
  <2>2. rank[seq[rank[g]]] = rank[g] /\ seq[rank[g]] \in groups
    BY <1>11, <2>1
  <2>3. QED
    BY <1>5, <1>12, <2>1, <2>2
<1>14. \A j, k \in DOMAIN seq : seq[j] = seq[k] => j = k
  BY <1>11, <1>12
<1>15. QED
  BY <1>3, <1>12, <1>13, <1>14 DEF groups, n, seq

(***************************************************************************)
(* The batches                                                             *)
(***************************************************************************)
\* Some positions, with all of the group of each.
IsBatch(refs, x) ==
    /\ x \in SUBSET DOMAIN refs /\ x # {}
    /\ \A g \in Groups(refs) : g \cap x # {} => g \subseteq x

\* Batches that share no position and together hold those of W.
Pieces(refs, c, W) ==
    /\ c \in Seq(SUBSET DOMAIN refs)
    /\ \A k \in DOMAIN c : IsBatch(refs, c[k])
    /\ \A j, k \in DOMAIN c : j # k => c[j] \cap c[k] = {}
    /\ \A x : x \in W <=> \E k \in DOMAIN c : x \in c[k]

\* Closed batches and the open one, which together hold the positions of U.
Packed(refs, b, U) ==
    /\ b \in [closed : Seq(SUBSET DOMAIN refs), open : SUBSET DOMAIN refs]
    /\ b.open = {} \/ IsBatch(refs, b.open)
    /\ \E W : Pieces(refs, b.closed, W) /\ W \cap b.open = {} /\ U = W \cup b.open

\* A batch of more than max candidates is one group.
WithinLimit(refs, c, max) ==
    \A k \in DOMAIN c : Cardinality(c[k]) > max => c[k] \in Groups(refs)

\* The limit is kept by the closed batches and by the open one.
Fits(refs, b, max) ==
    /\ WithinLimit(refs, b.closed, max)
    /\ IsFiniteSet(b.open) /\ Cardinality(b.open) <= max

LEMMA AppendPiece ==
    ASSUME NEW refs, NEW c, NEW W, NEW x,
           Pieces(refs, c, W), IsBatch(refs, x), x \cap W = {}
    PROVE  Pieces(refs, Append(c, x), W \cup x)
<1> DEFINE d == Append(c, x)
<1>1. c \in Seq(SUBSET DOMAIN refs) /\ x \in SUBSET DOMAIN refs
  BY DEF Pieces, IsBatch
<1>2. /\ d \in Seq(SUBSET DOMAIN refs)
      /\ DOMAIN d = DOMAIN c \cup {Len(c) + 1}
      /\ Len(c) + 1 \notin DOMAIN c
      /\ d[Len(c) + 1] = x
      /\ \A k \in DOMAIN c : d[k] = c[k]
  BY <1>1
<1> HIDE DEF d
<1>3. \A k \in DOMAIN d : IsBatch(refs, d[k])
  BY <1>2 DEF Pieces
<1>4. \A j, k \in DOMAIN d : j # k => d[j] \cap d[k] = {}
  <2>1. \A j \in DOMAIN c : c[j] \cap x = {}
    BY DEF Pieces
  <2>2. QED
    BY <1>2, <2>1 DEF Pieces
<1>5. ASSUME NEW y PROVE y \in W \cup x <=> \E k \in DOMAIN d : y \in d[k]
  BY <1>2 DEF Pieces
<1>6. QED
  BY <1>2, <1>3, <1>4, <1>5 DEF Pieces, d

LEMMA CloseIsPieces ==
    ASSUME NEW refs, NEW b, NEW U, Packed(refs, b, U)
    PROVE  Pieces(refs, Close(b), U)
<1>1. PICK W : Pieces(refs, b.closed, W) /\ W \cap b.open = {} /\ U = W \cup b.open
  BY DEF Packed
<1>2. CASE b.open = {}
  <2>1. W = U /\ Close(b) = b.closed
    BY <1>1, <1>2 DEF Close
  <2>2. QED
    BY <1>1, <2>1
<1>3. CASE b.open # {}
  <2>1. IsBatch(refs, b.open) /\ Close(b) = Append(b.closed, b.open)
    BY <1>3 DEF Packed, Close
  <2>2. QED
    BY <1>1, <2>1, AppendPiece
<1>4. QED
  BY <1>2, <1>3

LEMMA GroupIsBatch ==
    ASSUME NEW refs, IsList(refs), NEW g \in Groups(refs)
    PROVE  IsBatch(refs, g)
<1>1. g \in SUBSET DOMAIN refs /\ g # {}
  BY GroupsCover
<1>2. ASSUME NEW h \in Groups(refs), h \cap g # {} PROVE h \subseteq g
  <2>1. PICK i : i \in h /\ i \in g
    BY <1>2
  <2>2. h = g
    BY <2>1, GroupsApart
  <2>3. QED
    BY <2>2
<1>3. QED
  BY <1>1, <1>2 DEF IsBatch

LEMMA PackKeeps ==
    ASSUME NEW refs, IsList(refs), NEW max, NEW b, NEW U, Packed(refs, b, U),
           NEW group \in Groups(refs), group \cap U = {}
    PROVE  Packed(refs, Pack(b, group, max), U \cup group)
<1>1. IsBatch(refs, group)
  BY GroupIsBatch
<1>2. Pieces(refs, Close(b), U)
  BY CloseIsPieces
<1>3. Pack(b, group, max) \in {[closed |-> Append(Close(b), group), open |-> {}],
                               [closed |-> Close(b), open |-> group],
                               [closed |-> b.closed, open |-> b.open \cup group]}
  BY DEF Pack
<1>4. CASE Pack(b, group, max) = [closed |-> Append(Close(b), group), open |-> {}]
  <2> DEFINE c == Append(Close(b), group)
  <2>1. Pieces(refs, c, U \cup group)
    BY <1>1, <1>2, AppendPiece
  <2> HIDE DEF c
  <2> DEFINE Z == U \cup group
             d == [closed |-> c, open |-> {}]
  <2>4. c \in Seq(SUBSET DOMAIN refs)
    BY <2>1 DEF Pieces
  <2>5. d \in [closed : Seq(SUBSET DOMAIN refs), open : SUBSET DOMAIN refs]
        /\ d.closed = c /\ d.open = {}
    BY <2>4
  <2>6. Pieces(refs, d.closed, Z) /\ Z \cap d.open = {} /\ Z = Z \cup d.open
    BY <2>1, <2>5
  <2> HIDE DEF Z, d
  <2>7. Packed(refs, d, Z)
    BY <2>5, <2>6 DEF Packed
  <2>2. Packed(refs, [closed |-> c, open |-> {}], U \cup group)
    BY <2>7 DEF d, Z
  <2>3. QED
    BY <1>4, <2>2 DEF c
<1>5. CASE Pack(b, group, max) = [closed |-> Close(b), open |-> group]
  <2> DEFINE c == Close(b)
  <2>1. Pieces(refs, c, U)
    BY <1>2
  <2> HIDE DEF c
  <2> DEFINE Z == U \cup group
             d == [closed |-> c, open |-> group]
  <2>4. c \in Seq(SUBSET DOMAIN refs) /\ group \in SUBSET DOMAIN refs
    BY <1>1, <2>1 DEF Pieces, IsBatch
  <2>5. d \in [closed : Seq(SUBSET DOMAIN refs), open : SUBSET DOMAIN refs]
        /\ d.closed = c /\ d.open = group
    BY <2>4
  <2>6. Pieces(refs, d.closed, U) /\ U \cap d.open = {} /\ Z = U \cup d.open
    BY <2>1, <2>5
  <2> HIDE DEF Z, d
  <2>7. Packed(refs, d, Z)
    BY <1>1, <2>5, <2>6 DEF Packed
  <2>2. Packed(refs, [closed |-> c, open |-> group], U \cup group)
    BY <2>7 DEF d, Z
  <2>3. QED
    BY <1>5, <2>2 DEF c
<1>6. CASE Pack(b, group, max) = [closed |-> b.closed, open |-> b.open \cup group]
  <2>1. PICK W : Pieces(refs, b.closed, W) /\ W \cap b.open = {} /\ U = W \cup b.open
    BY DEF Packed
  <2>2. IsBatch(refs, b.open \cup group)
    BY <1>1 DEF Packed, IsBatch
  <2>3. /\ b.closed \in Seq(SUBSET DOMAIN refs)
        /\ b.open \cup group \in SUBSET DOMAIN refs
        /\ W \cap (b.open \cup group) = {}
        /\ U \cup group = W \cup (b.open \cup group)
    BY <2>1, <2>2 DEF Packed, IsBatch
  <2> DEFINE o == b.open \cup group
             c == b.closed
  <2> HIDE DEF o, c
  <2>4. Packed(refs, [closed |-> c, open |-> o], U \cup group)
    BY <2>1, <2>2, <2>3 DEF Packed, o, c
  <2>5. QED
    BY <1>6, <2>4 DEF o, c
<1>7. QED
  BY <1>3, <1>4, <1>5, <1>6

LEMMA AppendFits ==
    ASSUME NEW refs, NEW P, NEW c \in Seq(P), NEW x \in P, NEW max,
           WithinLimit(refs, c, max), Cardinality(x) > max => x \in Groups(refs)
    PROVE  WithinLimit(refs, Append(c, x), max)
<1> DEFINE d == Append(c, x)
<1>1. /\ DOMAIN d = DOMAIN c \cup {Len(c) + 1}
      /\ d[Len(c) + 1] = x
      /\ \A k \in DOMAIN c : d[k] = c[k]
  OBVIOUS
<1> HIDE DEF d
<1>2. WithinLimit(refs, d, max)
  BY <1>1 DEF WithinLimit
<1>3. QED
  BY <1>2 DEF d

LEMMA CloseFits ==
    ASSUME NEW refs, NEW b, NEW U, Packed(refs, b, U), NEW max \in Nat, Fits(refs, b, max)
    PROVE  Close(b) \in Seq(SUBSET DOMAIN refs) /\ WithinLimit(refs, Close(b), max)
<1>1. b.closed \in Seq(SUBSET DOMAIN refs) /\ b.open \in SUBSET DOMAIN refs
  BY DEF Packed
<1>2. Cardinality(b.open) \in Nat /\ Cardinality(b.open) <= max
  BY FS_CardinalityType DEF Fits
<1> DEFINE P == SUBSET DOMAIN refs
           c == b.closed
           x == b.open
<1> HIDE DEF P, c, x
<1>3. c \in Seq(P) /\ x \in P /\ WithinLimit(refs, c, max) /\ ~ (Cardinality(x) > max)
  BY <1>1, <1>2 DEF P, c, x, Fits
<1>4. WithinLimit(refs, Append(c, x), max) /\ Append(c, x) \in Seq(P)
  <2>1. Append(c, x) \in Seq(P)
    BY <1>3
  <2>2. WithinLimit(refs, Append(c, x), max)
    BY <1>3, AppendFits
  <2>3. QED
    BY <2>1, <2>2
<1>5. Close(b) = IF x = {} THEN c ELSE Append(c, x)
  BY DEF Close, c, x
<1>6. QED
  BY <1>3, <1>4, <1>5 DEF P

LEMMA PackFits ==
    ASSUME NEW refs, IsList(refs), NEW max \in Nat, NEW b, NEW U, Packed(refs, b, U),
           Fits(refs, b, max), NEW group \in Groups(refs)
    PROVE  Fits(refs, Pack(b, group, max), max)
<1>1. IsFiniteSet(group) /\ group \in SUBSET DOMAIN refs /\ Cardinality(group) \in Nat
  <2>1. group \in SUBSET DOMAIN refs
    BY GroupsCover
  <2>2. QED
    BY <2>1, FS_Subset, FS_CardinalityType DEF IsList
<1>2. IsFiniteSet({}) /\ Cardinality({}) = 0
  BY FS_EmptySet
<1>3. Close(b) \in Seq(SUBSET DOMAIN refs) /\ WithinLimit(refs, Close(b), max)
  BY CloseFits
<1> DEFINE n == Cardinality(group)
           o == b.open
           P == SUBSET DOMAIN refs
           c == Close(b)
           a == b.closed
<1>4. IsFiniteSet(o) /\ Cardinality(o) \in Nat /\ Cardinality(o) <= max /\ WithinLimit(refs, a, max)
  BY FS_CardinalityType DEF Fits
<1>5. Pack(b, group, max) =
         IF n > max THEN [closed |-> Append(c, group), open |-> {}]
         ELSE IF Cardinality(o) + n > max THEN [closed |-> c, open |-> group]
         ELSE [closed |-> a, open |-> o \cup group]
  BY <1>1, <1>4 DEF Pack
<1> HIDE DEF n, o, P, c, a
<1>6. CASE n > max
  <2>1. WithinLimit(refs, Append(c, group), max)
    BY <1>1, <1>3, AppendFits DEF P, c
  <2>2. Fits(refs, [closed |-> Append(c, group), open |-> {}], max)
    BY <1>2, <2>1 DEF Fits
  <2>3. QED
    BY <1>5, <1>6, <2>2
<1>7. CASE ~ (n > max) /\ Cardinality(o) + n > max
  <2>1. Fits(refs, [closed |-> c, open |-> group], max)
    BY <1>1, <1>3, <1>7 DEF Fits, c, n
  <2>2. QED
    BY <1>5, <1>7, <2>1
<1>8. CASE ~ (n > max) /\ ~ (Cardinality(o) + n > max)
  <2> DEFINE both == o \cup group
  <2>1. /\ IsFiniteSet(both)
        /\ Cardinality(both) = Cardinality(o) + Cardinality(group) - Cardinality(o \cap group)
    BY <1>1, <1>4, FS_Union
  <2>2. IsFiniteSet(o \cap group)
    BY <1>1, FS_Subset
  <2>3. Cardinality(o \cap group) \in Nat
    BY <2>2, FS_CardinalityType
  <2> HIDE DEF both
  <2>4. Cardinality(both) <= max
    BY <1>1, <1>4, <1>8, <2>1, <2>3 DEF n
  <2>5. Fits(refs, [closed |-> a, open |-> both], max)
    BY <1>4, <2>1, <2>4 DEF Fits
  <2>6. QED
    BY <1>5, <1>8, <2>5 DEF both
<1>9. QED
  BY <1>6, <1>7, <1>8

\* The batches of _group_by_shared_refs hold whole groups, no position is in two of
\* them, and each is in one, whatever the limit; only a batch that is one group, which
\* may not be cut, exceeds it.
THEOREM BatchesArePieces ==
    ASSUME NEW refs, IsList(refs), NEW max
    PROVE  /\ Pieces(refs, BatchesOf(refs, max), DOMAIN refs)
           /\ max \in Nat => WithinLimit(refs, BatchesOf(refs, max), max)
<1> DEFINE P == DOMAIN refs
           groups == Groups(refs)
           seq == SortedGroups(refs)
           S == DOMAIN seq
           start == [closed |-> <<>>, open |-> {}]
           V == [closed : Seq(SUBSET P), open : SUBSET P]
           pick == [s \in SUBSET S |-> Max(s)]
           step == [s \in SUBSET S |-> [b \in V |-> IF s = {} THEN b ELSE Pack(b, seq[pick[s]], max)]]
           upto(s) == UNION {seq[k] : k \in s}
<1>1. /\ seq \in [1 .. Cardinality(groups) -> groups]
      /\ Cardinality(groups) \in Nat
      /\ \A j, k \in S : seq[j] = seq[k] => j = k
      /\ \A g \in groups : \E k \in S : seq[k] = g
  BY InOrderIsOrder
<1>2. UNION groups = P
  BY GroupsCover
<1> HIDE DEF seq, groups, P
<1>3. S = 1 .. Cardinality(groups) /\ IsFiniteSet(S)
  BY <1>1, FS_Interval
<1>4. \A k \in S : seq[k] \in groups /\ seq[k] \in SUBSET P
  BY <1>1, <1>2
<1>5. upto(S) = P
  BY <1>1, <1>2, <1>4
<1>6. \A s \in SUBSET S : s # {} => pick[s] \in s
  <2>1. ASSUME NEW s \in SUBSET S, s # {} PROVE Max(s) \in s
    <3>1. s \subseteq 0 .. Cardinality(groups)
      BY <1>3
    <3>2. QED
      BY <1>1, <2>1, <3>1, MaxOfSet
  <2>2. QED
    BY <2>1
<1>7. start \in V
  OBVIOUS
<1>8. ASSUME NEW b \in V PROVE b.closed \in Seq(SUBSET P) /\ b.open \in SUBSET P /\ Close(b) \in Seq(SUBSET P)
  BY DEF Close
<1>9. ASSUME NEW b \in V, NEW g \in SUBSET P PROVE Pack(b, g, max) \in V
  <2>1. Pack(b, g, max) \in {[closed |-> Append(Close(b), g), open |-> {}],
                               [closed |-> Close(b), open |-> g],
                               [closed |-> b.closed, open |-> b.open \cup g]}
    BY DEF Pack
  <2>2. b.closed \in Seq(SUBSET P) /\ b.open \in SUBSET P /\ Close(b) \in Seq(SUBSET P)
    BY <1>8
  <2>3. Append(Close(b), g) \in Seq(SUBSET P)
    BY <2>2
  <2>4. b.open \cup g \in SUBSET P
    BY <2>2
  <2> DEFINE x == Append(Close(b), g)
             y == Close(b)
             z == b.closed
             o == b.open \cup g
  <2> HIDE DEF x, y, z, o
  <2>5. x \in Seq(SUBSET P) /\ y \in Seq(SUBSET P) /\ z \in Seq(SUBSET P) /\ o \in SUBSET P
    BY <2>2, <2>3, <2>4 DEF x, y, z, o
  <2>6. [closed |-> x, open |-> {}] \in V /\ [closed |-> y, open |-> g] \in V
        /\ [closed |-> z, open |-> o] \in V
    BY <2>5
  <2>7. QED
    BY <2>1, <2>6 DEF x, y, z, o
<1> HIDE DEF V, start, S, pick
<1>10. step \in [SUBSET S -> [V -> V]]
  BY <1>4, <1>6, <1>9
<1>11. PICK f : Folded(f, S, V, start, pick, step)
  <2>1. Fold(S, V, start, pick, step)
    BY <1>3, <1>6, <1>7, <1>10 DEF Fold
  <2> HIDE DEF step
  <2>2. QED
    BY <2>1, FoldDefined
<1>12. f \in [SUBSET S -> V]
  BY <1>11 DEF Folded
<1>13. \A s \in SUBSET S : f[s] = IF s = {} THEN start ELSE Pack(f[s \ {pick[s]}], seq[pick[s]], max)
  BY <1>11, <1>12 DEF Folded
<1>14. f = [s \in SUBSET S |-> IF s = {} THEN start ELSE Pack(f[s \ {Max(s)}], seq[Max(s)], max)]
  BY <1>12, <1>13 DEF pick
<1> DEFINE iter == CHOOSE h : h = [s \in SUBSET S |-> IF s = {} THEN start
                                        ELSE Pack(h[s \ {Max(s)}], seq[Max(s)], max)]
<1>15. BatchesOf(refs, max) = Close(iter[S])
  BY DEF BatchesOf, FoldLeft, MapThenFoldSet, start, S, seq
<1>16. iter = [s \in SUBSET S |-> IF s = {} THEN start
                                  ELSE Pack(iter[s \ {Max(s)}], seq[Max(s)], max)]
  BY <1>14
<1> HIDE DEF iter
<1>17. \A s \in SUBSET S :
          iter[s] = IF s = {} THEN start ELSE Pack(iter[s \ {pick[s]}], seq[pick[s]], max)
  BY <1>16 DEF pick
<1> DEFINE Good(s) == /\ Packed(refs, iter[s], upto(s))
                      /\ max \in Nat => Fits(refs, iter[s], max)
           Bad == {s \in SUBSET S : ~ Good(s)}
<1>18. ASSUME Bad # {} PROVE FALSE
  <2> HIDE DEF Good
  <2>1. Bad \subseteq SUBSET S
    OBVIOUS
  <2>2. PICK t \in Bad : \A u \in SUBSET t : u # t => u \notin Bad
    <3> HIDE DEF Bad
    <3>1. QED
      BY <1>3, <1>18, <2>1, LeastSubset
  <2>3. t \in SUBSET S /\ ~ Good(t) /\ \A u \in SUBSET t : u # t => Good(u)
    BY <2>2
  <2> HIDE DEF Bad
  <2>4. CASE t = {}
    <3>1. iter[t] = start /\ upto(t) = {}
      BY <1>17, <2>3, <2>4
    <3>2. start.closed = <<>> /\ start.open = {} /\ <<>> \in Seq(SUBSET DOMAIN refs)
      BY DEF start
    <3>3. Pieces(refs, <<>>, {})
      BY DEF Pieces
    <3>4. start \in [closed : Seq(SUBSET DOMAIN refs), open : SUBSET DOMAIN refs]
      BY DEF start
    <3>5. Packed(refs, start, {})
      BY <3>2, <3>3, <3>4 DEF Packed
    <3>6. max \in Nat => Fits(refs, start, max)
      BY <3>2, FS_EmptySet DEF Fits, WithinLimit
    <3>7. QED
      BY <2>3, <3>1, <3>5, <3>6 DEF Good
  <2>5. CASE t # {}
    <3> DEFINE k == pick[t]
               u == t \ {k}
               b == iter[u]
    <3>1. k \in t /\ k \in S /\ u \in SUBSET t /\ u # t
      BY <1>6, <2>3, <2>5
    <3>2. Packed(refs, b, upto(u)) /\ (max \in Nat => Fits(refs, b, max))
      BY <2>3, <3>1 DEF Good
    <3>3. iter[t] = Pack(b, seq[k], max)
      BY <1>17, <2>3, <2>5
    <3>4. upto(t) = upto(u) \cup seq[k]
      BY <3>1
    <3>5. seq[k] \cap upto(u) = {}
      <4>1. ASSUME NEW j \in u, seq[j] \cap seq[k] # {} PROVE FALSE
        <5>1. j \in S /\ j # k
          BY <2>3, <4>1
        <5>2. PICK i : i \in seq[j] /\ i \in seq[k]
          BY <4>1
        <5>3. seq[j] \in Groups(refs) /\ seq[k] \in Groups(refs)
          BY <1>4, <3>1, <5>1 DEF groups
        <5>4. seq[j] = seq[k]
          BY <5>2, <5>3, GroupsApart
        <5>5. QED
          BY <1>1, <3>1, <5>1, <5>4
      <4>2. QED
        BY <4>1
    <3>6. seq[k] \in Groups(refs)
      BY <1>4, <3>1 DEF groups
    <3> DEFINE U == upto(u)
    <3> HIDE DEF k, u, b, U
    <3>7. Packed(refs, Pack(b, seq[k], max), U \cup seq[k])
      BY <3>2, <3>5, <3>6, PackKeeps DEF U
    <3>8. max \in Nat => Fits(refs, Pack(b, seq[k], max), max)
      BY <3>2, <3>6, PackFits
    <3>9. QED
      BY <2>3, <3>3, <3>4, <3>7, <3>8 DEF Good, U
  <2>6. QED
    BY <2>4, <2>5
<1>19. Packed(refs, iter[S], P) /\ (max \in Nat => Fits(refs, iter[S], max))
  BY <1>5, <1>18
<1> DEFINE last == iter[S]
<1> HIDE DEF last
<1>20. Packed(refs, last, DOMAIN refs) /\ (max \in Nat => Fits(refs, last, max))
  BY <1>19 DEF last, P
<1>21. Pieces(refs, Close(last), DOMAIN refs)
  BY <1>20, CloseIsPieces
<1>22. max \in Nat => WithinLimit(refs, Close(last), max)
  BY <1>20, CloseFits
<1>23. QED
  BY <1>15, <1>21, <1>22 DEF last
=============================================================================
