----------------------- MODULE CandidateReviewProofs -----------------------
(* Theorems about CandidateReview, for any graphs, values, candidates and     *)
(* answers: what the detector finds, how a score and a recommendation come    *)
(* about, that the router and the pipeline cluster alike, and what Agent-B    *)
(* may spend.  The scores are those of the texts, so the proofs begin with    *)
(* what the similarity measures are worth at most.                            *)
EXTENDS CandidateReview, CandidateGroupsProofs, SequenceTheorems

(***************************************************************************)
(* How much alike two values are: never more than one, in thousandths      *)
(***************************************************************************)
AtMost(n, max) == n \in Nat /\ n <= max

LEMMA Fraction ==
    ASSUME NEW a \in Nat, NEW b \in Nat \ {0}, a <= b
    PROVE  AtMost(Thousandths(a, b), 1000)
BY DEF Thousandths, AtMost

LEMMA MaxOfTwo ==
    ASSUME NEW a \in Int, NEW b \in Int
    PROVE  Max({a, b}) = IF a >= b THEN a ELSE b
BY DEF Max

LEMMA MinOfTwo ==
    ASSUME NEW a \in Int, NEW b \in Int
    PROVE  Min({a, b}) = IF a <= b THEN a ELSE b
BY DEF Min

LEMMA MinOfThree ==
    ASSUME NEW a \in Nat, NEW b \in Nat, NEW c \in Nat
    PROVE  Min({a, b, c}) \in Nat /\ Min({a, b, c}) <= a
BY MinOfSet

\* A recursion that counts down ends.
LEMMA CountEnds ==
    ASSUME NEW N \in Nat, NEW pred, pred = [k \in 0 .. N |-> IF k = 0 THEN 0 ELSE k - 1]
    PROVE  Halts(0 .. N, {0}, pred)
<1> SUFFICES ASSUME NEW T \in SUBSET (0 .. N), T # {}
             PROVE  \E t \in T : t \in {0} \/ pred[t] \notin T
  BY DEF Halts
<1>1. T \subseteq Nat
  OBVIOUS
<1>2. PICK t \in T : \A y \in T : t <= y
  BY <1>1, LeastNatural
<1>3. CASE t = 0
  BY <1>3
<1>4. CASE t # 0
  <2>1. pred[t] = t - 1 /\ t \in Nat
    BY <1>1, <1>4
  <2>2. pred[t] \notin T
    BY <1>2, <2>1
  <2>3. QED
    BY <2>2
<1>5. QED
  BY <1>3, <1>4

\* A word is a part of the text, and a text has finitely many parts.
LEMMA TokensFinite ==
    ASSUME NEW s, s \in Seq(Range(s))
    PROVE  IsFiniteSet(Tokens(s)) /\ IsFiniteSet(ContentTokens(s))
<1> DEFINE D == DOMAIN s
           parts == {at \in D \X D :
                        /\ at[1] <= at[2]
                        /\ Blank \notin Range(SubSeq(s, at[1], at[2]))
                        /\ at[1] > 1 => s[at[1] - 1] = Blank
                        /\ at[2] < Len(s) => s[at[2] + 1] = Blank}
           part == [p \in parts |-> SubSeq(s, p[1], p[2])]
<1>1. IsFiniteSet(parts)
  <2>1. D = 1 .. Len(s) /\ Len(s) \in Nat
    OBVIOUS
  <2>2. IsFiniteSet(D)
    BY <2>1, FS_Interval
  <2>3. IsFiniteSet(D \X D)
    BY <2>2, FS_Product
  <2>4. parts \in SUBSET (D \X D)
    OBVIOUS
  <2> HIDE DEF parts, D
  <2>5. QED
    BY <2>3, <2>4, FS_Subset
<1>2. Tokens(s) = {part[p] : p \in parts}
  BY DEF Tokens
<1> HIDE DEF parts
<1>3. part \in Surjection(parts, Tokens(s))
  BY <1>2 DEF Surjection
<1> HIDE DEF part
<1>4. IsFiniteSet(Tokens(s))
  BY <1>1, <1>3, FS_Surjection
<1>5. QED
  BY <1>4, FS_Subset DEF ContentTokens

\* What two texts share is no more than what they have.
LEMMA OverlapRange ==
    ASSUME NEW s, NEW t, s \in Seq(Range(s)), t \in Seq(Range(t))
    PROVE  AtMost(TokenOverlap(s, t), 1000)
<1> DEFINE A == Tokens(s)
           B == Tokens(t)
           x == Cardinality(A \cap B)
           a == Cardinality(A)
           b == Cardinality(B)
<1>1. IsFiniteSet(A) /\ IsFiniteSet(B)
  BY TokensFinite
<1>2. a \in Nat /\ b \in Nat
  BY <1>1, FS_CardinalityType
<1>3. x \in Nat /\ x <= a /\ x <= b
  <2>1. A \cap B \in SUBSET A /\ A \cap B \in SUBSET B
    OBVIOUS
  <2> HIDE DEF A, B
  <2>2. QED
    BY <1>1, <2>1, FS_Subset, FS_CardinalityType
<1>4. TokenOverlap(s, t) = IF a + b = 0 THEN 0 ELSE Thousandths(2 * x, a + b)
  BY DEF TokenOverlap
<1> HIDE DEF a, b, x
<1>5. a + b # 0 => 2 * x \in Nat /\ a + b \in Nat \ {0} /\ 2 * x <= a + b
  BY <1>2, <1>3
<1>6. a + b # 0 => AtMost(Thousandths(2 * x, a + b), 1000)
  BY <1>5, Fraction
<1>7. QED
  BY <1>4, <1>6 DEF AtMost

LEMMA JaccardRange ==
    ASSUME NEW A, NEW B, IsFiniteSet(A), IsFiniteSet(B)
    PROVE  AtMost(Jaccard(A, B), 1000)
<1> DEFINE x == Cardinality(A \cap B)
           y == Cardinality(A \cup B)
<1>1. IsFiniteSet(A \cup B)
  BY FS_Union
<1>2. A \cap B \in SUBSET (A \cup B)
  OBVIOUS
<1>3. x \in Nat /\ y \in Nat /\ x <= y
  BY <1>1, <1>2, FS_Subset, FS_CardinalityType
<1>4. A \cup B # {} => y # 0
  BY <1>1, FS_EmptySet
<1>5. Jaccard(A, B) = IF A \cup B = {} THEN 0 ELSE Thousandths(x, y)
  BY DEF Jaccard
<1> HIDE DEF x, y
<1>6. ASSUME A \cup B # {} PROVE AtMost(Thousandths(x, y), 1000)
  <2>1. y \in Nat \ {0}
    BY <1>3, <1>4, <1>6
  <2>2. QED
    BY <1>3, <2>1 DEF Thousandths, AtMost
<1>7. QED
  BY <1>5, <1>6 DEF AtMost

\* Characters are matched one to one.
Matching(s, t, M) ==
    /\ M \subseteq (DOMAIN s) \X (DOMAIN t)
    /\ \A p, q \in M : p[1] = q[1] \/ p[2] = q[2] => p = q

\* The loop over the characters of s keeps to that.
LEMMA MatchedIsMatching ==
    ASSUME NEW s, NEW t, s \in Seq(Range(s)), t \in Seq(Range(t))
    PROVE  Matching(s, t, Matched(s, t))
<1> DEFINE n == Len(s)
           D == 0 .. n
           V == SUBSET ((DOMAIN s) \X (DOMAIN t))
           near(i) == i - MatchWindow(s, t) .. i + MatchWindow(s, t)
           free(v, i) == {j \in DOMAIN t : /\ j \in near(i)
                                           /\ s[i] = t[j]
                                           /\ \A p \in v : p[2] # j}
           more(v, i) == IF free(v, i) = {} THEN v ELSE v \cup {<<i, Min(free(v, i))>>}
           pred == [i \in D |-> IF i = 0 THEN 0 ELSE i - 1]
           base == [i \in D |-> {}]
           step == [i \in D |-> [v \in V |-> IF i = 0 THEN v ELSE more(v, i)]]
           matched == CHOOSE f : f = [i \in D |-> IF i = 0 THEN {} ELSE more(f[i - 1], i)]
<1>1. n \in Nat /\ DOMAIN s = 1 .. n /\ DOMAIN t \subseteq Nat
  OBVIOUS
<1>2. ASSUME NEW v, NEW i \in D, free(v, i) # {} PROVE Min(free(v, i)) \in free(v, i)
  <2>1. free(v, i) \subseteq Nat
    BY <1>1
  <2> HIDE DEF free
  <2>2. QED
    BY <1>2, <2>1, MinOfSet
<1>3. ASSUME NEW v \in V, NEW i \in D, i # 0 PROVE more(v, i) \in V
  <2>1. i \in DOMAIN s /\ free(v, i) \subseteq DOMAIN t
    BY <1>1, <1>3
  <2> HIDE DEF free
  <2>2. QED
    BY <1>2, <2>1
<1> HIDE DEF more
<1>4. PICK g : Solves(g, D, V, {0}, pred, base, step)
  <2>1. Halts(D, {0}, pred)
    BY <1>1, CountEnds
  <2>2. base \in [D -> V] /\ pred \in [D -> D]
    BY <1>1
  <2>3. step \in [D -> [V -> V]]
    BY <1>3
  <2> HIDE DEF D, V, pred, base, step
  <2>4. Recursion(D, V, {0}, pred, base, step)
    BY <2>1, <2>2, <2>3 DEF Recursion
  <2>5. QED
    BY <2>4, RecursionDefined
<1>5. g \in [D -> V]
  BY <1>4 DEF Solves
<1>6. g = [i \in D |-> IF i = 0 THEN {} ELSE more(g[i - 1], i)]
  <2>1. ASSUME NEW i \in D PROVE g[i] = IF i = 0 THEN {} ELSE more(g[i - 1], i)
    <3>1. g[i] = IF i \in {0} THEN base[i] ELSE step[i][g[pred[i]]]
      BY <1>4 DEF Solves
    <3>2. CASE i = 0
      BY <3>1, <3>2
    <3>3. CASE i # 0
      <4>1. pred[i] = i - 1 /\ i - 1 \in D
        BY <1>1, <3>3
      <4>2. g[i - 1] \in V
        BY <1>5, <4>1
      <4>3. step[i][g[i - 1]] = more(g[i - 1], i)
        BY <3>3, <4>2
      <4>4. QED
        BY <3>1, <3>3, <4>1, <4>3
    <3>4. QED
      BY <3>2, <3>3
  <2>2. QED
    BY <1>5, <2>1
<1>7. matched = [i \in D |-> IF i = 0 THEN {} ELSE more(matched[i - 1], i)]
  BY <1>6
<1>8. Matched(s, t) = matched[n]
  BY DEF Matched, more
<1> HIDE DEF matched
<1> DEFINE Good(i) == Matching(s, t, matched[i]) /\ \A p \in matched[i] : p[1] <= i
           Bad == {i \in D : ~ Good(i)}
<1>9. ASSUME Bad # {} PROVE FALSE
  <2>1. Bad \subseteq Nat
    OBVIOUS
  <2>2. PICK i \in Bad : \A y \in Bad : i <= y
    <3> HIDE DEF Bad
    <3>1. QED
      BY <1>9, <2>1, LeastNatural
  <2>3. i \in D /\ ~ Good(i)
    OBVIOUS
  <2>4. i # 0
    BY <1>7, <2>3 DEF Matching
  <2>5. i - 1 \in D /\ Good(i - 1)
    <3>1. i - 1 \in D /\ ~ (i <= i - 1)
      BY <1>1, <2>4
    <3>2. QED
      BY <2>2, <3>1
  <2> DEFINE v == matched[i - 1]
             j == Min(free(v, i))
  <2>6. matched[i] = more(v, i)
    BY <1>7, <2>3, <2>4
  <2> HIDE DEF v
  <2>7. Matching(s, t, v) /\ \A p \in v : p[1] <= i - 1
    BY <2>5 DEF v
  <2>8. CASE free(v, i) = {}
    <3>1. matched[i] = v
      BY <2>6, <2>8 DEF more
    <3>2. \A p \in v : p[1] <= i
      <4>1. \A p \in v : p[1] \in Nat
        BY <1>1, <2>7 DEF Matching
      <4>2. QED
        BY <1>1, <2>7, <4>1
    <3>3. QED
      BY <2>3, <2>7, <3>1, <3>2
  <2>9. CASE free(v, i) # {}
    <3>1. matched[i] = v \cup {<<i, j>>}
      BY <2>6, <2>9 DEF more
    <3>2. j \in free(v, i)
      <4> HIDE DEF free
      <4>1. QED
        BY <1>2, <2>3, <2>9
    <3> HIDE DEF j
    <3>3. j \in DOMAIN t /\ \A p \in v : p[2] # j
      BY <3>2
    <3>4. i \in DOMAIN s
      BY <1>1, <2>4
    <3>5. \A p \in v : p[1] \in 1 .. i - 1
      BY <1>1, <2>7 DEF Matching
    <3>6. Matching(s, t, matched[i])
      <4>1. matched[i] \subseteq (DOMAIN s) \X (DOMAIN t)
        BY <2>7, <3>1, <3>3, <3>4 DEF Matching
      <4>2. \A p \in v : p[1] # i /\ p[2] # j
        BY <3>3, <3>5
      <4>3. \A p, q \in matched[i] : p[1] = q[1] \/ p[2] = q[2] => p = q
        BY <2>7, <3>1, <4>2 DEF Matching
      <4>4. QED
        BY <4>1, <4>3 DEF Matching
    <3>7. \A p \in matched[i] : p[1] <= i
      BY <3>1, <3>5
    <3>8. QED
      BY <2>3, <3>6, <3>7
  <2>10. QED
    BY <2>8, <2>9
<1>10. Good(n)
  BY <1>1, <1>9
<1>11. QED
  BY <1>8, <1>10

\* So neither text has fewer characters than are matched.
LEMMA MatchingIsSmall ==
    ASSUME NEW s, NEW t, s \in Seq(Range(s)), t \in Seq(Range(t)), NEW M, Matching(s, t, M)
    PROVE  /\ Cardinality(M) \in Nat
           /\ Cardinality(M) <= Len(s) /\ Cardinality(M) <= Len(t)
<1> DEFINE left == [p \in M |-> p[1]]
           right == [p \in M |-> p[2]]
<1>1. Len(s) \in Nat /\ DOMAIN s = 1 .. Len(s) /\ Len(t) \in Nat /\ DOMAIN t = 1 .. Len(t)
  OBVIOUS
<1>2. left \in Injection(M, DOMAIN s) /\ right \in Injection(M, DOMAIN t)
  BY DEF Matching, Injection, IsInjective
<1>3. /\ IsFiniteSet(DOMAIN s) /\ Cardinality(DOMAIN s) = Len(s)
      /\ IsFiniteSet(DOMAIN t) /\ Cardinality(DOMAIN t) = Len(t)
  <2>1. \A n \in Nat : IsFiniteSet(1 .. n) /\ Cardinality(1 .. n) = n
    BY FS_Interval
  <2>2. QED
    BY <1>1, <2>1
<1> HIDE DEF left, right
<1>4. IsFiniteSet(M) /\ Cardinality(M) <= Cardinality(DOMAIN s)
  BY <1>2, <1>3, FS_Injection
<1>5. Cardinality(M) <= Cardinality(DOMAIN t)
  BY <1>2, <1>3, FS_Injection
<1>6. QED
  BY <1>3, <1>4, <1>5, FS_CardinalityType

LEMMA TransposedRange ==
    ASSUME NEW s, NEW t, NEW M, Cardinality(M) \in Nat
    PROVE  Transposed(s, t, M) \in 0 .. Cardinality(M)
<1> DEFINE m == Cardinality(M)
           T == {k \in 1 .. m : s[Nth({p[1] : p \in M}, k)] # t[Nth({p[2] : p \in M}, k)]}
<1>1. IsFiniteSet(1 .. m) /\ Cardinality(1 .. m) = m
  BY FS_Interval
<1>2. T \in SUBSET (1 .. m)
  OBVIOUS
<1> HIDE DEF T, m
<1>3. Cardinality(T) \in Nat /\ Cardinality(T) <= m
  BY <1>1, <1>2, FS_Subset, FS_CardinalityType
<1>4. Transposed(s, t, M) = Cardinality(T)
  BY DEF Transposed, T, m
<1>5. QED
  BY <1>3, <1>4 DEF m

LEMMA PrefixRange ==
    ASSUME NEW s, NEW t, s \in Seq(Range(s)), t \in Seq(Range(t))
    PROVE  CommonPrefix(s, t) \in 0 .. 4
<1> DEFINE n == Min({4, Len(s), Len(t)})
           T == {k \in 0 .. n : SubSeq(s, 1, k) = SubSeq(t, 1, k)}
<1>1. n \in Nat /\ n <= 4
  <2>1. Len(s) \in Nat /\ Len(t) \in Nat /\ 4 \in Nat
    OBVIOUS
  <2>2. QED
    BY <2>1, MinOfThree
<1> HIDE DEF n
<1>2. 0 \in T
  <2>1. SubSeq(s, 1, 0) = <<>> /\ SubSeq(t, 1, 0) = <<>>
    BY SubSeqEmpty
  <2>2. QED
    BY <1>1, <2>1
<1>3. T \subseteq 0 .. n /\ T # {}
  BY <1>2
<1>4. Max(T) \in T
  <2> HIDE DEF T
  <2>1. QED
    BY <1>1, <1>3, MaxOfSet
<1>5. CommonPrefix(s, t) = Max(T)
  BY DEF CommonPrefix, n
<1>6. QED
  BY <1>1, <1>4, <1>5

\* The numbers of the fraction: it is at most one, and the prefix only adds a part of
\* what is missing to one.
LEMMA JaroNumbers ==
    ASSUME NEW a \in Nat, NEW b \in Nat, NEW m \in Nat \ {0}, NEW x \in 0 .. m, NEW p \in 0 .. 4,
           m <= a, m <= b
    PROVE  LET num == 2 * m * m * (a + b) + a * b * (2 * m - x)
               den == 6 * m * a * b
           IN  /\ 10 * num + p * (den - num) \in Nat
               /\ 10 * den \in Nat \ {0}
               /\ 10 * num + p * (den - num) <= 10 * den
<1> DEFINE num == 2 * m * m * (a + b) + a * b * (2 * m - x)
           den == 6 * m * a * b
           ab == a * b
           mab == m * ab
           maa == m * m * a
           mbb == m * m * b
           xab == ab * x
<1>1. ab \in Nat /\ mab \in Nat /\ maa \in Nat /\ mbb \in Nat /\ xab \in Nat
  OBVIOUS
<1>2. a > 0 /\ b > 0 /\ ab > 0 /\ mab > 0
  OBVIOUS
<1>3. maa <= mab
  <2>1. m * m <= m * b
    OBVIOUS
  <2>2. (m * m) * a <= (m * b) * a
    BY <2>1
  <2>3. QED
    BY <2>2
<1>4. mbb <= mab
  <2>1. m * m <= m * a
    OBVIOUS
  <2>2. (m * m) * b <= (m * a) * b
    BY <2>1
  <2>3. QED
    BY <2>2
<1>5. xab <= mab
  BY <1>1
<1>6. num = 2 * maa + 2 * mbb + 2 * mab - xab /\ den = 6 * mab
  OBVIOUS
<1> HIDE DEF num, den, ab, mab, maa, mbb, xab
<1>7. num \in Nat /\ den \in Nat /\ num <= den /\ den > 0
  BY <1>1, <1>2, <1>3, <1>4, <1>5, <1>6
<1>8. p * (den - num) \in Nat /\ p * (den - num) <= 4 * (den - num)
  <2>1. den - num \in Nat
    BY <1>7
  <2> DEFINE d == den - num
  <2> HIDE DEF d
  <2>2. d \in Nat => p * d \in Nat /\ p * d <= 4 * d
    OBVIOUS
  <2>3. QED
    BY <2>1, <2>2 DEF d
<1>9. QED
  <2>1. /\ 10 * num + p * (den - num) \in Nat
        /\ 10 * den \in Nat \ {0}
        /\ 10 * num + p * (den - num) <= 10 * den
    BY <1>7, <1>8
  <2>2. QED
    BY <2>1 DEF num, den

LEMMA JaroWinklerRange ==
    ASSUME NEW s, NEW t, s \in Seq(Range(s)), t \in Seq(Range(t))
    PROVE  AtMost(JaroWinkler(s, t), 1000)
<1> DEFINE M == Matched(s, t)
           m == Cardinality(M)
           a == Len(s)
           b == Len(t)
           x == Transposed(s, t, M)
           p == CommonPrefix(s, t)
           num == 2 * m * m * (a + b) + a * b * (2 * m - x)
           den == 6 * m * a * b
           up == 10 * num + p * (den - num)
<1>1. m \in Nat /\ m <= a /\ m <= b /\ a \in Nat /\ b \in Nat
  BY MatchedIsMatching, MatchingIsSmall
<1>2. x \in 0 .. m
  BY <1>1, TransposedRange
<1>3. p \in 0 .. 4
  BY PrefixRange
<1>4. JaroWinkler(s, t) = CASE s = t -> 1000
                            [] s # t /\ m = 0 -> 0
                            [] OTHER -> Thousandths(up, 10 * den)
  BY DEF JaroWinkler
<1> HIDE DEF m, a, b, x, p
<1>5. ASSUME m # 0 PROVE AtMost(Thousandths(up, 10 * den), 1000)
  <2>1. m \in Nat \ {0}
    BY <1>1, <1>5
  <2>2. up \in Nat /\ 10 * den \in Nat \ {0} /\ up <= 10 * den
    BY <1>1, <1>2, <1>3, <2>1, JaroNumbers
  <2> DEFINE d == 10 * den
  <2>3. up \in Nat /\ d \in Nat \ {0} /\ up <= d
    BY <2>2
  <2> HIDE DEF up, d
  <2>4. AtMost(Thousandths(up, d), 1000)
    BY <2>3 DEF Thousandths, AtMost
  <2>5. QED
    BY <2>4 DEF d
<1> HIDE DEF up, den
<1>6. CASE s = t
  BY <1>4, <1>6 DEF AtMost
<1>7. CASE s # t /\ m = 0
  BY <1>4, <1>7 DEF AtMost
<1>8. CASE s # t /\ m # 0
  <2>1. JaroWinkler(s, t) = Thousandths(up, 10 * den)
    BY <1>4, <1>8
  <2>2. QED
    BY <1>5, <1>8, <2>1
<1>9. QED
  BY <1>6, <1>7, <1>8

(***************************************************************************)
(* What is detected                                                        *)
(***************************************************************************)
LEMMA PairIsOrdered ==
    ASSUME NEW value, NEW type, DOMAIN value \subseteq Nat, NEW p \in PairsOf(value, type)
    PROVE  /\ p = <<p[1], p[2]>> /\ p[1] \in DOMAIN value /\ p[2] \in DOMAIN value
           /\ p[1] \in Nat /\ p[2] \in Nat /\ p[1] < p[2]
           /\ Min({p[1], p[2]}) = p[1] /\ Max({p[1], p[2]}) = p[2]
<1>1. /\ p = <<p[1], p[2]>> /\ p[1] \in DOMAIN value /\ p[2] \in DOMAIN value
      /\ p[1] \in Nat /\ p[2] \in Nat /\ p[1] < p[2]
  BY DEF PairsOf
<1>2. QED
  BY <1>1, MinOfTwo, MaxOfTwo

\* The refs of a candidate tell the pair.
LEMMA SamePair ==
    ASSUME NEW value, NEW type, DOMAIN value \subseteq Nat,
           NEW p \in PairsOf(value, type), NEW q \in PairsOf(value, type),
           {p[1], p[2]} = {q[1], q[2]}
    PROVE  p = q
<1>1. \A r \in PairsOf(value, type) :
         r = <<r[1], r[2]>> /\ r[1] \in Nat /\ r[2] \in Nat /\ r[1] < r[2]
  BY PairIsOrdered
<1>2. p[1] = q[1] /\ p[2] = q[2]
  BY <1>1
<1>3. QED
  BY <1>1, <1>2

\* The two ways in which a pair is detected; not both.
AsSimilar(value, type, adj, p, c) ==
    /\ p \in WindowPairs(value, type)
    /\ c = Pair(value, adj, p, "jaro_winkler") /\ JWPass(c)

AsContained(value, type, adj, p, c) ==
    /\ c = Pair(value, adj, p, "token_containment")
    /\ TokenContainment(value[p[1]], value[p[2]])
    /\ \A d : ~ AsSimilar(value, type, adj, p, d)

\* A candidate comes about in one of them.
LEMMA Detected ==
    ASSUME NEW value, NEW type, NEW adj, DOMAIN value \subseteq Nat,
           NEW c \in Duplicates(value, type, adj)
    PROVE  \E p \in PairsOf(value, type) :
              AsSimilar(value, type, adj, p, c) \/ AsContained(value, type, adj, p, c)
<1> DEFINE window == WindowPairs(value, type)
           similar == Similar(value, window, adj)
           rest == {p \in window : \A d \in similar : d.refs # {p[1], p[2]}}
           others == TokenPairs(value, type) \ window
<1>1. window \subseteq PairsOf(value, type) /\ others \subseteq PairsOf(value, type)
  BY DEF WindowPairs, TokenPairs
<1>2. CASE c \in similar
  <2>1. PICK p \in window : c = Pair(value, adj, p, "jaro_winkler") /\ JWPass(c)
    BY <1>2 DEF Similar
  <2>2. QED
    BY <1>1, <2>1 DEF AsSimilar
<1>3. CASE c \in Contained(value, rest \cup others, adj)
  <2>1. PICK p \in rest \cup others :
            /\ c = Pair(value, adj, p, "token_containment")
            /\ TokenContainment(value[p[1]], value[p[2]])
    BY <1>3 DEF Contained
  <2>2. ASSUME NEW d, AsSimilar(value, type, adj, p, d) PROVE FALSE
    <3>1. p \in rest
      BY <2>1, <2>2 DEF AsSimilar
    <3>2. d \in similar /\ d.refs = {p[1], p[2]}
      BY <2>2 DEF AsSimilar, Similar, Pair
    <3>3. QED
      BY <3>1, <3>2
  <2>3. QED
    BY <1>1, <2>1, <2>2 DEF AsContained
<1>4. QED
  BY <1>2, <1>3 DEF Duplicates

\* No pair is a candidate twice.
LEMMA DetectedOnce ==
    ASSUME NEW value, NEW type, NEW adj, DOMAIN value \subseteq Nat,
           NEW c \in Duplicates(value, type, adj), NEW d \in Duplicates(value, type, adj),
           c.refs = d.refs
    PROVE  c = d
<1>1. PICK p \in PairsOf(value, type) :
          AsSimilar(value, type, adj, p, c) \/ AsContained(value, type, adj, p, c)
  BY Detected
<1>2. PICK q \in PairsOf(value, type) :
          AsSimilar(value, type, adj, q, d) \/ AsContained(value, type, adj, q, d)
  BY Detected
<1>3. c.refs = {p[1], p[2]} /\ d.refs = {q[1], q[2]}
  BY <1>1, <1>2 DEF AsSimilar, AsContained, Pair
<1>4. p = q
  BY <1>3, SamePair
<1>5. QED
  BY <1>1, <1>2, <1>4 DEF AsSimilar, AsContained

\* A word of the shorter value is in both.
LEMMA ContainmentShares ==
    ASSUME NEW s, NEW t, TokenContainment(s, t)
    PROVE  ContentTokens(s) \cap ContentTokens(t) # {}
BY DEF TokenContainment

HasPair(cands, p) == \E c \in cands : c.refs = {p[1], p[2]}

\* Pairs of contained names share a word, so pass 2 sees those that the window does not.
LEMMA ContainmentDetected ==
    ASSUME NEW value, NEW type, NEW adj, DOMAIN value \subseteq Nat,
           NEW p \in PairsOf(value, type), TokenContainment(value[p[1]], value[p[2]])
    PROVE  HasPair(Duplicates(value, type, adj), p)
<1> DEFINE window == WindowPairs(value, type)
           similar == Similar(value, window, adj)
           rest == {q \in window : \A d \in similar : d.refs # {q[1], q[2]}}
           others == TokenPairs(value, type) \ window
           c == Pair(value, adj, p, "token_containment")
<1>1. p \in window \/ p \in others
  BY ContainmentShares DEF TokenPairs
<1>2. CASE \E d \in similar : d.refs = {p[1], p[2]}
  BY <1>2 DEF Duplicates, HasPair
<1>3. CASE \A d \in similar : d.refs # {p[1], p[2]}
  <2>1. p \in rest \cup others
    BY <1>1, <1>3
  <2>2. c \in Contained(value, rest \cup others, adj)
    BY <2>1 DEF Contained
  <2>3. c \in Duplicates(value, type, adj)
    BY <2>2 DEF Duplicates
  <2>4. c.refs = {p[1], p[2]}
    BY DEF Pair
  <2>5. QED
    BY <2>3, <2>4 DEF HasPair
<1>4. QED
  BY <1>2, <1>3

\* The scoped detection finds nothing the full one does not.
LEMMA ScopedIsPart ==
    ASSUME NEW value, NEW type, NEW adj, NEW focus, DOMAIN value \subseteq Nat
    PROVE  DuplicatesScoped(value, type, adj, focus) \subseteq Duplicates(value, type, adj)
<1> DEFINE all == WindowPairs(value, type)
           window == {p \in all : {p[1], p[2]} \cap focus # {}}
           similarAll == Similar(value, all, adj)
           similar == Similar(value, window, adj)
           restAll == {p \in all : \A c \in similarAll : c.refs # {p[1], p[2]}}
           rest == {p \in window : \A c \in similar : c.refs # {p[1], p[2]}}
<1>1. similar \subseteq similarAll
  BY DEF Similar
<1>2. ASSUME NEW p \in rest, NEW c \in similarAll, c.refs = {p[1], p[2]} PROVE FALSE
  <2>1. PICK q \in all : c = Pair(value, adj, q, "jaro_winkler") /\ JWPass(c)
    BY DEF Similar
  <2>2. p \in PairsOf(value, type) /\ q \in PairsOf(value, type)
    BY DEF WindowPairs
  <2>3. q = p
    BY <1>2, <2>1, <2>2, SamePair DEF Pair
  <2>4. c \in similar
    BY <2>1, <2>3 DEF Similar
  <2>5. QED
    BY <1>2, <2>4
<1>3. rest \subseteq restAll
  BY <1>2
<1> HIDE DEF rest, restAll
<1>4. Contained(value, rest, adj)
         \subseteq Contained(value, restAll \cup (TokenPairs(value, type) \ all), adj)
  BY <1>3 DEF Contained
<1>5. QED
  BY <1>1, <1>4 DEF Duplicates, DuplicatesScoped, rest, restAll

(***************************************************************************)
(* What the pipeline adds                                                  *)
(***************************************************************************)
Enrichment(is, cands, props, type) ==
    /\ \A s \in is :
          /\ s.candidate \in cands
          /\ s.score = Scored(s.candidate, props).score
          /\ s.conflicts = Scored(s.candidate, props).conflicts
          /\ s.band \in {"high", "medium", "low"}
          /\ s.band = "high" =>
                ~ Incoherent(Scored(s.candidate, props), {Scored(c, props) : c \in cands}, type)
    /\ \A c \in cands : \E s \in is : s.candidate = c
    /\ \A r, s \in is : r.candidate = s.candidate => r = s

\* Enrichment changes no candidate, and leaves the high band to coherent clusters.
LEMMA EnrichedOf ==
    ASSUME NEW cands, NEW props, NEW type
    PROVE  Enrichment(Enriched(cands, props, type), cands, props, type)
<1> DEFINE scored == {Scored(c, props) : c \in cands}
           is == Enriched(cands, props, type)
           of(c) == Scored(c, props)
           out(c) == IF of(c).band = "high" /\ Incoherent(of(c), scored, type)
                     THEN [of(c) EXCEPT !.band = "medium"] ELSE of(c)
<1>1. is = {out(c) : c \in cands}
  BY DEF Enriched
<1>2. ASSUME NEW c
      PROVE  /\ of(c).candidate = c /\ of(c).band \in {"high", "medium", "low"}
             /\ DOMAIN of(c) = {"candidate", "score", "conflicts", "band"}
  BY DEF Scored, Band
<1> HIDE DEF of, scored
<1>3. ASSUME NEW c
      PROVE  /\ out(c).candidate = c /\ out(c).score = of(c).score
             /\ out(c).conflicts = of(c).conflicts
             /\ out(c).band \in {"high", "medium", "low"}
             /\ out(c).band = "high" => ~ Incoherent(of(c), scored, type)
  BY <1>2
<1> HIDE DEF out
<1>4. \A s \in is : /\ s.candidate \in cands /\ s = out(s.candidate)
  BY <1>1, <1>3
<1>5. \A c \in cands : \E s \in is : s.candidate = c
  BY <1>1, <1>3
<1>6. \A r, s \in is : r.candidate = s.candidate => r = s
  BY <1>4
<1>7. \A s \in is :
          /\ s.candidate \in cands
          /\ s.score = of(s.candidate).score /\ s.conflicts = of(s.candidate).conflicts
          /\ s.band \in {"high", "medium", "low"}
          /\ s.band = "high" => ~ Incoherent(of(s.candidate), scored, type)
  BY <1>3, <1>4
<1>8. QED
  BY <1>5, <1>6, <1>7 DEF of, scored, Enrichment

(***************************************************************************)
(* Scores and recommendations                                              *)
(***************************************************************************)
\* A candidate of the detector.
Measured(c) ==
    /\ {"type", "method", "values", "jw", "tok", "cj"} \subseteq DOMAIN c
    /\ c.type = "probable_duplicate"
    /\ AtMost(c.jw, 1000) /\ AtMost(c.tok, 1000) /\ AtMost(c.cj, 1000)
    /\ \/ c.method = "jaro_winkler" /\ JWPass(c)
       \/ c.method = "token_containment"

\* What the detector returns is measured.
LEMMA CandidatesMeasured ==
    ASSUME NEW g \in Graphs, NEW c \in Duplicates(g.value, g.type, g.adj)
    PROVE  /\ Measured(c)
           /\ \E p \in PairsOf(g.value, g.type) : c.refs = {p[1], p[2]}
<1>1. DOMAIN g.value \subseteq Nat
  BY GraphsAssumption
<1>2. PICK p \in PairsOf(g.value, g.type) :
          AsSimilar(g.value, g.type, g.adj, p, c) \/ AsContained(g.value, g.type, g.adj, p, c)
  BY <1>1, Detected
<1> DEFINE s == g.value[p[1]]
           t == g.value[p[2]]
           A == g.adj[p[1]]
           B == g.adj[p[2]]
<1>3. p[1] \in DOMAIN g.value /\ p[2] \in DOMAIN g.value
  BY <1>1, PairIsOrdered
<1>4. /\ s \in Seq(Range(s)) /\ t \in Seq(Range(t))
      /\ IsFiniteSet(A) /\ IsFiniteSet(B)
  BY <1>3, GraphsAssumption
<1>5. /\ AtMost(JaroWinkler(s, t), 1000)
      /\ AtMost(TokenOverlap(s, t), 1000)
      /\ AtMost(Jaccard(A, B), 1000)
  BY <1>4, JaroWinklerRange, OverlapRange, JaccardRange
<1>6. /\ {"type", "method", "values", "jw", "tok", "cj"} \subseteq DOMAIN c
      /\ c.type = "probable_duplicate" /\ c.refs = {p[1], p[2]}
      /\ c.jw = JaroWinkler(s, t) /\ c.tok = TokenOverlap(s, t) /\ c.cj = Jaccard(A, B)
      /\ \/ c.method = "jaro_winkler" /\ JWPass(c)
         \/ c.method = "token_containment"
  BY <1>2 DEF AsSimilar, AsContained, Pair
<1>7. QED
  BY <1>5, <1>6 DEF Measured, AtMost

LEMMA PropertiesRange ==
    ASSUME NEW p, NEW q, IsFiniteSet(DOMAIN p), IsFiniteSet(DOMAIN q)
    PROVE  AtMost(Overlap(p, q), 1000)
<1> DEFINE all == DOMAIN p \cup DOMAIN q
           same == {k \in DOMAIN p \cap DOMAIN q : p[k] = q[k]}
           x == Cardinality(same)
           y == Cardinality(all)
<1>1. IsFiniteSet(all)
  BY FS_Union
<1>2. same \in SUBSET all
  OBVIOUS
<1>3. x \in Nat /\ y \in Nat /\ x <= y
  BY <1>1, <1>2, FS_Subset, FS_CardinalityType
<1>4. all # {} => y # 0
  BY <1>1, FS_EmptySet
<1>5. Overlap(p, q) = IF all = {} THEN 0 ELSE Thousandths(x, y)
  BY DEF Overlap
<1> HIDE DEF x, y
<1>6. ASSUME all # {} PROVE AtMost(Thousandths(x, y), 1000)
  <2>1. y \in Nat \ {0}
    BY <1>3, <1>4, <1>6
  <2>2. QED
    BY <1>3, <2>1 DEF Thousandths, AtMost
<1>7. QED
  BY <1>5, <1>6 DEF AtMost

\* The weights of the composite score are those of a mean.
LEMMA ScoreRange ==
    ASSUME NEW c, Measured(c), NEW po, AtMost(po, 1000)
    PROVE  AtMost(CompositeScore(c, po), 100000)
<1>1. c.cj \in Nat /\ c.jw \in Nat /\ c.tok \in Nat /\ c.cj <= 1000 /\ c.jw <= 1000 /\ c.tok <= 1000
  BY DEF Measured, AtMost
<1>2. AtMost(Min({15 * c.cj + 10 * po, 25000}), 25000)
  BY <1>1, MinOfTwo DEF AtMost
<1>3. CASE c.method = "token_containment"
  <2>1. CompositeScore(c, po) = 70000 + Min({15 * c.cj + 10 * po, 25000})
    BY <1>3 DEF CompositeScore
  <2>2. QED
    BY <1>2, <2>1 DEF AtMost
<1>4. CASE c.method # "token_containment" /\ c.cj = 0
  <2>1. CompositeScore(c, po) = 65 * c.jw + 25 * c.tok + 10 * po
    BY <1>4 DEF CompositeScore
  <2>2. QED
    BY <1>1, <2>1 DEF AtMost
<1>5. CASE c.method # "token_containment" /\ c.cj # 0
  <2>1. CompositeScore(c, po) = 50 * c.jw + 25 * c.tok + 15 * c.cj + 10 * po
    BY <1>5 DEF CompositeScore
  <2>2. QED
    BY <1>1, <2>1 DEF AtMost
<1>6. QED
  BY <1>3, <1>4, <1>5

Confidence(c) == ((750 + Min({c.cj, 150}) + 5) \div 10) * 10

\* The parts of a recommendation.
Recommended(c) ==
    /\ Recommendation(c) = RecommendProbable(c)
    /\ c.cj > 0 => GeneralCase(c) = Suggest("merge", Confidence(c))
    /\ c.cj = 0 /\ c.tok >= 800 => GeneralCase(c) = Suggest("merge", 650)
    /\ c.cj = 0 /\ ~ (c.tok >= 800) => GeneralCase(c) = Suggest("defer", 450)
    /\ Confidence(c) \in Nat /\ Confidence(c) >= 750 /\ Confidence(c) <= 900
    /\ Min({c.cj, 150}) = IF c.cj <= 150 THEN c.cj ELSE 150
    /\ Min({950, Max({c.jw, 900})}) =
          IF 950 <= c.jw THEN 950 ELSE IF c.jw >= 900 THEN c.jw ELSE 900

LEMMA RecommendationIs ==
    ASSUME NEW c, Measured(c)
    PROVE  Recommended(c)
<1>1. c.cj \in Nat /\ c.jw \in Nat /\ c.tok \in Nat
  BY DEF Measured, AtMost
<1>2. Recommendation(c) = RecommendProbable(c)
  BY DEF Recommendation, Measured
<1>3. /\ Min({c.cj, 150}) = IF c.cj <= 150 THEN c.cj ELSE 150
      /\ Min({950, Max({c.jw, 900})}) = IF 950 <= c.jw THEN 950
                                             ELSE IF c.jw >= 900 THEN c.jw ELSE 900
  <2> DEFINE x == Max({c.jw, 900})
  <2>1. x \in Int /\ x = IF c.jw >= 900 THEN c.jw ELSE 900
    BY <1>1, MaxOfTwo
  <2> HIDE DEF x
  <2>2. Min({950, x}) = IF 950 <= x THEN 950 ELSE x
    BY <2>1, MinOfTwo
  <2>3. Min({c.cj, 150}) = IF c.cj <= 150 THEN c.cj ELSE 150
    BY <1>1, MinOfTwo
  <2>4. QED
    BY <1>1, <2>1, <2>2, <2>3 DEF x
<1>4. Confidence(c) \in Nat /\ Confidence(c) >= 750 /\ Confidence(c) <= 900
  BY <1>1, <1>3 DEF Confidence
<1>5. c.cj > 0 => GeneralCase(c) = Suggest("merge", Confidence(c))
  BY <1>1 DEF GeneralCase, Confidence
<1>6. c.cj = 0 /\ c.tok >= 800 => GeneralCase(c) = Suggest("merge", 650)
  BY <1>1 DEF GeneralCase, Confidence
<1>7. c.cj = 0 /\ ~ (c.tok >= 800) => GeneralCase(c) = Suggest("defer", 450)
  BY <1>1 DEF GeneralCase, Confidence
<1>8. QED
  BY <1>2, <1>3, <1>4, <1>5, <1>6, <1>7 DEF Recommended

\* The branches, each with its condition.
Branched(c, is, one, contained, named) ==
    /\ one => is = Suggest("merge", Min({950, Max({c.jw, 900})}))
    /\ ~ one /\ contained /\ c.cj > 0 => is = Suggest("merge", 800)
    /\ ~ one /\ contained /\ ~ (c.cj > 0) => is = Suggest("defer", 550)
    /\ ~ one /\ ~ contained => c.jw >= 900
    /\ ~ one /\ ~ contained /\ c.jw >= 950 /\ c.cj > 0 => is = Suggest("merge", 900)
    /\ ~ one /\ ~ contained /\ c.jw >= 950 /\ ~ (c.cj > 0) => is = Suggest("merge", 850)
    /\ ~ one /\ ~ contained /\ ~ (c.jw >= 950) /\ named /\ c.cj > 0 => is = Suggest("merge", 800)
    /\ ~ one /\ ~ contained /\ ~ (c.jw >= 950) /\ named /\ ~ (c.cj > 0) => is = Suggest("defer", 500)
    /\ ~ one /\ ~ contained /\ ~ (c.jw >= 950) /\ ~ named => is = GeneralCase(c)

LEMMA Branches ==
    ASSUME NEW c, Measured(c)
    PROVE  Branched(c, Recommendation(c), Cardinality(c.values) = 1,
                    c.method = "token_containment", NameContainment(c.values))
<1>1. Recommendation(c) = RecommendProbable(c)
  <2>1. Recommended(c)
    BY RecommendationIs
  <2>2. QED
    BY <2>1 DEF Recommended
<1>2. c.method # "token_containment" => c.jw >= 900
  BY DEF Measured, JWPass
<1>3. QED
  BY <1>1, <1>2 DEF RecommendProbable, Branched

\* The last branch is never taken.
LEMMA AboveThreshold ==
    ASSUME NEW c, Measured(c)
    PROVE  Recommendation(c) # BelowThreshold
<1>1. c.cj \in Nat /\ c.jw \in Nat /\ c.tok \in Nat
  BY DEF Measured, AtMost
<1>2. \A a, n : Suggest(a, n) = BelowThreshold => a = "defer" /\ n = 300
  BY DEF Suggest, BelowThreshold
<1>3. Recommended(c)
  BY RecommendationIs
<1>4. GeneralCase(c) # BelowThreshold
  BY <1>1, <1>2, <1>3 DEF Recommended
<1>5. Branched(c, Recommendation(c), Cardinality(c.values) = 1,
               c.method = "token_containment", NameContainment(c.values))
  BY Branches
<1>6. QED
  BY <1>1, <1>2, <1>4, <1>5 DEF Branched

NoWeaker(is, was) ==
    /\ was.action = "merge" => is.action = "merge"
    /\ was.action = is.action => is.confidence >= was.confidence

\* The general case takes shared neighbours before shared words.
LEMMA GeneralMonotone ==
    ASSUME NEW c, Measured(c), NEW d, Measured(d), AtLeastAsAlike(d, c)
    PROVE  NoWeaker(GeneralCase(d), GeneralCase(c))
<1>1. /\ c.cj \in Nat /\ c.tok \in Nat /\ d.cj \in Nat /\ d.tok \in Nat
      /\ d.cj >= c.cj /\ d.tok >= c.tok
  BY DEF Measured, AtMost, AtLeastAsAlike
<1>2. Confidence(d) \in Nat /\ Confidence(c) \in Nat /\ Confidence(c) >= 750 /\ Confidence(d) >= Confidence(c)
  <2>1. Recommended(c) /\ Recommended(d)
    BY RecommendationIs
  <2>2. /\ Min({c.cj, 150}) = IF c.cj <= 150 THEN c.cj ELSE 150
        /\ Min({d.cj, 150}) = IF d.cj <= 150 THEN d.cj ELSE 150
    BY <2>1 DEF Recommended
  <2>3. Confidence(d) >= Confidence(c)
    BY <1>1, <2>2 DEF Confidence
  <2>4. QED
    BY <2>1, <2>3 DEF Recommended
<1>3. \A e \in {c, d} :
         /\ e.cj > 0 => GeneralCase(e) = Suggest("merge", Confidence(e))
         /\ e.cj = 0 /\ e.tok >= 800 => GeneralCase(e) = Suggest("merge", 650)
         /\ e.cj = 0 /\ ~ (e.tok >= 800) => GeneralCase(e) = Suggest("defer", 450)
  <2>1. \A e \in {c, d} : Recommended(e)
    BY RecommendationIs
  <2>2. QED
    BY <2>1 DEF Recommended
<1>4. CASE c.cj > 0
  <2>1. d.cj > 0
    BY <1>1, <1>4
  <2>2. QED
    BY <1>2, <1>3, <1>4, <2>1 DEF NoWeaker, Suggest
<1>5. CASE c.cj = 0 /\ c.tok >= 800
  <2>1. d.tok >= 800
    BY <1>1, <1>5
  <2>2. CASE d.cj > 0
    BY <1>2, <1>3, <1>5, <2>2 DEF NoWeaker, Suggest
  <2>3. CASE d.cj = 0
    BY <1>3, <1>5, <2>1, <2>3 DEF NoWeaker, Suggest
  <2>4. QED
    BY <1>1, <2>2, <2>3
<1>6. CASE c.cj = 0 /\ ~ (c.tok >= 800)
  <2>1. CASE d.cj > 0
    BY <1>3, <1>6, <2>1 DEF NoWeaker, Suggest
  <2>2. CASE d.cj = 0 /\ d.tok >= 800
    BY <1>3, <1>6, <2>2 DEF NoWeaker, Suggest
  <2>3. CASE d.cj = 0 /\ ~ (d.tok >= 800)
    BY <1>3, <1>6, <2>3 DEF NoWeaker, Suggest
  <2>4. QED
    BY <1>1, <2>1, <2>2, <2>3
<1>7. QED
  BY <1>1, <1>4, <1>5, <1>6

\* A pair that is more alike, with the same names, gets no weaker recommendation.
LEMMA RecommendationMonotone ==
    ASSUME NEW c, Measured(c), NEW d, Measured(d), AtLeastAsAlike(d, c),
           d.values = c.values, d.method = c.method
    PROVE  NoWeaker(Recommendation(d), Recommendation(c))
<1> DEFINE is == Recommendation(d)
           was == Recommendation(c)
           one == Cardinality(c.values) = 1
           contained == c.method = "token_containment"
           named == NameContainment(c.values)
<1>1. /\ c.cj \in Nat /\ c.jw \in Nat /\ d.cj \in Nat /\ d.jw \in Nat
      /\ d.cj >= c.cj /\ d.jw >= c.jw
  BY DEF Measured, AtMost, AtLeastAsAlike
<1>2. ASSUME NEW a, NEW b, NEW m \in Int, NEW n \in Int, a = "merge" \/ b # "merge",
             a = b => m >= n
      PROVE  NoWeaker(Suggest(a, m), Suggest(b, n))
  BY <1>2 DEF NoWeaker, Suggest
<1> HIDE DEF is, was, one, contained, named
<1>8. Branched(c, was, one, contained, named)
  BY Branches DEF was, one, contained, named
<1>9. Branched(d, is, one, contained, named)
  <2>1. Branched(d, Recommendation(d), Cardinality(d.values) = 1,
                 d.method = "token_containment", NameContainment(d.values))
    BY Branches
  <2>2. QED
    BY <2>1 DEF is, one, contained, named
<1>10. Recommended(c) /\ Recommended(d)
  BY RecommendationIs
<1>3. CASE one
  <2>1. /\ was = Suggest("merge", Min({950, Max({c.jw, 900})}))
        /\ is = Suggest("merge", Min({950, Max({d.jw, 900})}))
    BY <1>3, <1>8, <1>9 DEF Branched
  <2>2. /\ Min({950, Max({c.jw, 900})}) = IF 950 <= c.jw THEN 950 ELSE IF c.jw >= 900 THEN c.jw ELSE 900
        /\ Min({950, Max({d.jw, 900})}) = IF 950 <= d.jw THEN 950 ELSE IF d.jw >= 900 THEN d.jw ELSE 900
    BY <1>10 DEF Recommended
  <2> DEFINE m == Min({950, Max({d.jw, 900})})
             n == Min({950, Max({c.jw, 900})})
  <2> HIDE DEF m, n
  <2>3. m \in Int /\ n \in Int /\ m >= n
    BY <1>1, <2>2 DEF m, n
  <2>4. NoWeaker(Suggest("merge", m), Suggest("merge", n))
    BY <1>2, <2>3
  <2>5. QED
    BY <2>1, <2>4 DEF m, n, is, was
<1>4. CASE ~ one /\ contained
  <2>1. was \in {Suggest("merge", 800), Suggest("defer", 550)}
    BY <1>1, <1>4, <1>8, <1>9 DEF Branched
  <2>2. was = Suggest("merge", 800) => c.cj > 0
    <3>1. Suggest("merge", 800) # Suggest("defer", 550)
      BY DEF Suggest
    <3>2. QED
      BY <1>1, <1>4, <3>1, <1>8, <1>9 DEF Branched
  <2>3. is = IF d.cj > 0 THEN Suggest("merge", 800) ELSE Suggest("defer", 550)
    BY <1>1, <1>4, <1>8, <1>9 DEF Branched
  <2>4. NoWeaker(is, was)
    BY <1>1, <1>2, <2>1, <2>2, <2>3
  <2>5. QED
    BY <2>4 DEF is, was
<1>5. CASE ~ one /\ ~ contained /\ d.jw >= 950
  <2>1. is = IF d.cj > 0 THEN Suggest("merge", 900) ELSE Suggest("merge", 850)
    BY <1>1, <1>5, <1>8, <1>9 DEF Branched
  <2>2. \E b \in {"merge", "defer"} : \E n \in Int :
           was = Suggest(b, n) /\ (b = "merge" => n <= IF c.cj > 0 THEN 900 ELSE 850)
    <3>1. CASE c.jw >= 950
      BY <1>1, <1>5, <3>1, <1>8, <1>9 DEF Branched
    <3>2. CASE ~ (c.jw >= 950) /\ named
      BY <1>1, <1>5, <3>2, <1>8, <1>9 DEF Branched
    <3>3. CASE ~ (c.jw >= 950) /\ ~ named
      <4>1. was = GeneralCase(c)
        BY <1>5, <3>3, <1>8, <1>9 DEF Branched
      <4> DEFINE n == Confidence(c)
      <4> HIDE DEF n
      <4>2. /\ n \in Nat /\ n <= 900
            /\ c.cj > 0 => GeneralCase(c) = Suggest("merge", n)
        BY <1>10 DEF n, Recommended
      <4>3. CASE c.cj > 0
        BY <4>1, <4>2, <4>3
      <4>4. CASE c.cj = 0 /\ c.tok >= 800
        <5>1. was = Suggest("merge", 650)
          BY <4>1, <4>4, <1>10 DEF Recommended
        <5>2. QED
          BY <5>1
      <4>5. CASE c.cj = 0 /\ ~ (c.tok >= 800)
        <5>1. was = Suggest("defer", 450)
          BY <4>1, <4>5, <1>10 DEF Recommended
        <5>2. QED
          BY <5>1
      <4>6. QED
        BY <1>1, <4>3, <4>4, <4>5
    <3>4. QED
      BY <3>1, <3>2, <3>3
  <2>3. PICK b \in {"merge", "defer"}, n \in Int :
           was = Suggest(b, n) /\ (b = "merge" => n <= IF c.cj > 0 THEN 900 ELSE 850)
    BY <2>2
  <2>4. NoWeaker(is, was)
    BY <1>1, <1>2, <2>1, <2>3
  <2>5. QED
    BY <2>4 DEF is, was
<1>6. CASE ~ one /\ ~ contained /\ ~ (d.jw >= 950)
  <2>1. ~ (c.jw >= 950)
    BY <1>1, <1>6
  <2>2. CASE named
    <3>1. /\ was = IF c.cj > 0 THEN Suggest("merge", 800) ELSE Suggest("defer", 500)
          /\ is = IF d.cj > 0 THEN Suggest("merge", 800) ELSE Suggest("defer", 500)
      BY <1>1, <1>6, <2>1, <2>2, <1>8, <1>9 DEF Branched
    <3>2. NoWeaker(is, was)
      BY <1>1, <1>2, <3>1
    <3>3. QED
      BY <3>2 DEF is, was
  <2>3. CASE ~ named
    <3>1. was = GeneralCase(c) /\ is = GeneralCase(d)
      BY <1>6, <2>1, <2>3, <1>8, <1>9 DEF Branched
    <3>2. QED
      BY <3>1, GeneralMonotone DEF is, was
  <2>4. QED
    BY <2>2, <2>3
<1>7. QED
  BY <1>3, <1>4, <1>5, <1>6

(***************************************************************************)
(* Components                                                              *)
(***************************************************************************)
Touching(pairs, X) == {p \in pairs : p \cap X # {}}

\* The nodes reached from n in at most k rounds.
Reached(f, pairs, n, N) ==
    /\ DOMAIN f = 0 .. N
    /\ f[0] = {n}
    /\ \A k \in 1 .. N : f[k] = f[k - 1] \cup UNION Touching(pairs, f[k - 1])

\* The recursion of Component, unrolled.
LEMMA ReachDefined ==
    ASSUME NEW pairs, NEW n, NEW N \in Nat, N = Cardinality(pairs)
    PROVE  \E f : Reached(f, pairs, n, N) /\ Component(pairs, n) = f[N]
<1> DEFINE D == 0 .. N
           V == SUBSET ({n} \cup UNION pairs)
           pred == [k \in D |-> IF k = 0 THEN 0 ELSE k - 1]
           base == [k \in D |-> {n}]
           step == [k \in D |-> [v \in V |-> v \cup UNION Touching(pairs, v)]]
           IsReach(f) == f = [k \in D |->
                                 IF k = 0 THEN {n}
                                 ELSE f[k - 1] \cup UNION {p \in pairs : p \cap f[k - 1] # {}}]
           reach == CHOOSE f : IsReach(f)
<1>1. pred \in [D -> D] /\ base \in [D -> V]
  OBVIOUS
<1>2. step \in [D -> [V -> V]]
  BY DEF Touching
<1>3. Recursion(D, V, {0}, pred, base, step)
  BY <1>1, <1>2, CountEnds DEF Recursion
<1>4. PICK g : Solves(g, D, V, {0}, pred, base, step)
  <2> HIDE DEF D, V, pred, base, step
  <2>1. QED
    BY <1>3, RecursionDefined
<1>5. IsReach(g)
  <2>1. g \in [D -> V]
    BY <1>4 DEF Solves
  <2>2. ASSUME NEW k \in D
        PROVE  g[k] = IF k = 0 THEN {n}
                      ELSE g[k - 1] \cup UNION {p \in pairs : p \cap g[k - 1] # {}}
    <3>1. g[k] = IF k \in {0} THEN base[k] ELSE step[k][g[pred[k]]]
      <4> HIDE DEF D, V, pred, base, step
      <4>1. QED
        BY <1>4 DEF Solves
    <3>2. CASE k = 0
      BY <3>1, <3>2
    <3>3. CASE k # 0
      <4>1. pred[k] = k - 1 /\ k - 1 \in D
        BY <3>3
      <4>2. g[k - 1] \in V
        BY <2>1, <4>1
      <4>3. step[k][g[k - 1]] = g[k - 1] \cup UNION Touching(pairs, g[k - 1])
        <5> HIDE DEF V
        <5>1. QED
          BY <4>2
      <4>4. QED
        BY <3>1, <3>3, <4>1, <4>3 DEF Touching
    <3>4. QED
      BY <3>2, <3>3
  <2>3. DOMAIN g = D
    BY <2>1
  <2> HIDE DEF V
  <2>4. QED
    BY <2>1, <2>2
<1> HIDE DEF IsReach
<1>6. IsReach(reach)
  BY <1>5
<1>7. Component(pairs, n) = reach[N]
  BY DEF Component, IsReach
<1>8. Reached(reach, pairs, n, N)
  <2>1. reach = [k \in D |-> IF k = 0 THEN {n}
                             ELSE reach[k - 1] \cup UNION {p \in pairs : p \cap reach[k - 1] # {}}]
    BY <1>6 DEF IsReach
  <2> HIDE DEF reach
  <2>2. DOMAIN reach = 0 .. N /\ reach[0] = {n}
    BY <2>1
  <2>3. ASSUME NEW k \in 1 .. N PROVE reach[k] = reach[k - 1] \cup UNION Touching(pairs, reach[k - 1])
    BY <2>1 DEF Touching
  <2>4. QED
    BY <2>2, <2>3 DEF Reached
<1>9. QED
  BY <1>7, <1>8

\* A set of nodes that no pair leaves.
Whole(pairs, X) == \A p \in pairs : p \cap X # {} => p \subseteq X

\* The reached sets grow until one is whole, and from then on stay.
LEMMA ReachGrows ==
    ASSUME NEW pairs, NEW n, NEW N \in Nat, NEW f, Reached(f, pairs, n, N)
    PROVE  /\ \A k \in 0 .. N : n \in f[k]
           /\ \A U : n \in U /\ Whole(pairs, U) => \A k \in 0 .. N : f[k] \subseteq U
<1>1. ASSUME NEW T, T = {k \in 0 .. N : n \notin f[k]}, T # {} PROVE FALSE
  <2>1. T \subseteq Nat
    BY <1>1
  <2>2. PICK t \in T : \A y \in T : t <= y
    BY <1>1, <2>1, LeastNatural
  <2>3. t \in 0 .. N /\ t # 0
    BY <1>1, <2>2 DEF Reached
  <2>4. t - 1 \in 0 .. N /\ t - 1 \notin T /\ t \in 1 .. N
    BY <1>1, <2>2, <2>3
  <2>5. n \in f[t - 1]
    BY <1>1, <2>4
  <2>6. n \in f[t]
    BY <2>4, <2>5 DEF Reached
  <2>7. QED
    BY <1>1, <2>6
<1>2. ASSUME NEW U, n \in U, Whole(pairs, U),
             NEW T, T = {k \in 0 .. N : ~ (f[k] \subseteq U)}, T # {}
      PROVE  FALSE
  <2>1. T \subseteq Nat
    BY <1>2
  <2>2. PICK t \in T : \A y \in T : t <= y
    BY <1>2, <2>1, LeastNatural
  <2>3. t \in 0 .. N /\ t # 0
    BY <1>2, <2>2 DEF Reached
  <2>4. t - 1 \in 0 .. N /\ t - 1 \notin T /\ t \in 1 .. N
    BY <1>2, <2>2, <2>3
  <2>5. f[t - 1] \subseteq U
    BY <1>2, <2>4
  <2>6. UNION Touching(pairs, f[t - 1]) \subseteq U
    BY <1>2, <2>5 DEF Touching, Whole
  <2>7. f[t] \subseteq U
    BY <2>4, <2>5, <2>6 DEF Reached
  <2>8. QED
    BY <1>2, <2>7
<1>3. \A k \in 0 .. N : n \in f[k]
  BY <1>1
<1>4. ASSUME NEW U, n \in U, Whole(pairs, U) PROVE \A k \in 0 .. N : f[k] \subseteq U
  <2> DEFINE T == {k \in 0 .. N : ~ (f[k] \subseteq U)}
  <2>1. T = {}
    BY <1>2, <1>4
  <2>2. QED
    BY <2>1
<1>5. QED
  BY <1>3, <1>4

\* What is not whole is left by a pair, so each round adds one to the pairs touched,
\* and there are only so many.
LEMMA ReachEnds ==
    ASSUME NEW pairs, IsFiniteSet(pairs), NEW n, NEW N \in Nat, N = Cardinality(pairs),
           NEW f, Reached(f, pairs, n, N)
    PROVE  Whole(pairs, f[N])
<1>1. ASSUME NEW k \in 1 .. N, Whole(pairs, f[k - 1]) PROVE f[k] = f[k - 1]
  <2>1. UNION Touching(pairs, f[k - 1]) \subseteq f[k - 1]
    BY <1>1 DEF Touching, Whole
  <2>2. f[k] = f[k - 1] \cup UNION Touching(pairs, f[k - 1])
    BY DEF Reached
  <2> DEFINE more == UNION Touching(pairs, f[k - 1])
  <2> HIDE DEF more
  <2>3. f[k] = f[k - 1] \cup more /\ more \subseteq f[k - 1]
    BY <2>1, <2>2 DEF more
  <2>4. QED
    BY <2>3
<1>2. ASSUME ~ Whole(pairs, f[N]), NEW k \in 0 .. N, Whole(pairs, f[k]) PROVE FALSE
  <2> DEFINE T == {N - j : j \in {i \in 0 .. N : Whole(pairs, f[i])}}
  <2>1. T \subseteq Nat /\ T # {}
    <3>1. \A j \in 0 .. N : N - j \in Nat
      OBVIOUS
    <3>2. N - k \in T
      BY <1>2
    <3>3. QED
      BY <3>1, <3>2
  <2>2. PICK t \in T : \A y \in T : t <= y
    BY <2>1, LeastNatural
  <2>3. PICK j \in 0 .. N : Whole(pairs, f[j]) /\ t = N - j
    BY <2>2
  <2>4. j # N
    BY <1>2, <2>3
  <2>5. j + 1 \in 1 .. N /\ (j + 1) - 1 = j /\ j + 1 \in 0 .. N
    BY <2>3, <2>4
  <2>6. f[j + 1] = f[j]
    BY <1>1, <2>3, <2>5
  <2>7. N - (j + 1) \in T
    BY <2>3, <2>5, <2>6
  <2> HIDE DEF T
  <2>8. t <= N - (j + 1)
    BY <2>2, <2>7
  <2>9. QED
    BY <2>3, <2>8
<1> DEFINE touched(k) == Touching(pairs, f[k])
<1>3. \A k \in 0 .. N : touched(k) \in SUBSET pairs /\ IsFiniteSet(touched(k))
                        /\ Cardinality(touched(k)) \in Nat /\ Cardinality(touched(k)) <= N
  <2>1. ASSUME NEW k PROVE touched(k) \in SUBSET pairs
    BY DEF Touching
  <2> HIDE DEF touched
  <2>2. QED
    BY <2>1, FS_Subset, FS_CardinalityType
<1>4. ASSUME NEW k \in 0 .. N, ~ Whole(pairs, f[k]) PROVE touched(k) # {}
  BY <1>4 DEF Whole, Touching
<1>5. ASSUME NEW k \in 1 .. N, ~ Whole(pairs, f[k]) PROVE Cardinality(touched(k - 1)) < Cardinality(touched(k))
  <2>1. k - 1 \in 0 .. N /\ k \in 0 .. N
    OBVIOUS
  <2>2. f[k] = f[k - 1] \cup UNION touched(k - 1)
    BY DEF Reached
  <2>3. touched(k - 1) \subseteq touched(k)
    BY <2>2 DEF Touching
  <2>4. PICK p \in pairs : p \cap f[k] # {} /\ ~ (p \subseteq f[k])
    BY <1>5 DEF Whole
  <2>5. p \in touched(k) /\ p \notin touched(k - 1)
    BY <2>2, <2>4 DEF Touching
  <2> HIDE DEF touched
  <2>6. /\ IsFiniteSet(touched(k)) /\ touched(k - 1) \in SUBSET touched(k)
        /\ touched(k - 1) # touched(k)
    BY <1>3, <2>1, <2>3, <2>5
  <2>7. /\ Cardinality(touched(k - 1)) \in Nat /\ Cardinality(touched(k)) \in Nat
    BY <1>3, <2>1
  <2>8. QED
    BY <2>6, <2>7, FS_Subset
<1> HIDE DEF touched
<1>6. ASSUME ~ Whole(pairs, f[N]), NEW k \in 0 .. N, Cardinality(touched(k)) <= k PROVE FALSE
  <2> DEFINE T == {i \in 0 .. N : Cardinality(touched(i)) <= i}
  <2>1. T \subseteq Nat /\ T # {}
    BY <1>6
  <2>2. PICK t \in T : \A y \in T : t <= y
    BY <2>1, LeastNatural
  <2>3. t \in 0 .. N /\ ~ Whole(pairs, f[t]) /\ Cardinality(touched(t)) \in Nat
        /\ Cardinality(touched(t)) <= t
    BY <1>2, <1>3, <1>6, <2>2
  <2>4. CASE t = 0
    <3>1. Cardinality(touched(t)) = 0
      BY <2>3, <2>4
    <3>2. touched(t) = {}
      BY <1>3, <2>3, <3>1, FS_EmptySet
    <3>3. QED
      BY <1>4, <2>3, <3>2
  <2>5. CASE t # 0
    <3>1. t \in 1 .. N /\ t - 1 \in 0 .. N
      BY <2>3, <2>5
    <3>2. Cardinality(touched(t - 1)) < Cardinality(touched(t)) /\ Cardinality(touched(t - 1)) \in Nat
      BY <1>3, <1>5, <2>3, <3>1
    <3>3. t - 1 \in T
      BY <2>3, <3>1, <3>2
    <3>4. QED
      BY <2>2, <3>1, <3>3
  <2>6. QED
    BY <2>4, <2>5
<1>7. N \in 0 .. N /\ Cardinality(touched(N)) <= N
  BY <1>3
<1>8. QED
  BY <1>6, <1>7

\* The component of a node: the least set with it that no pair leaves.
LEMMA ComponentIs ==
    ASSUME NEW pairs, IsFiniteSet(pairs), NEW n
    PROVE  /\ n \in Component(pairs, n)
           /\ Whole(pairs, Component(pairs, n))
           /\ \A U : n \in U /\ Whole(pairs, U) => Component(pairs, n) \subseteq U
<1> DEFINE N == Cardinality(pairs)
<1>1. N \in Nat
  BY FS_CardinalityType
<1> HIDE DEF N
<1>2. PICK f : Reached(f, pairs, n, N) /\ Component(pairs, n) = f[N]
  BY <1>1, ReachDefined DEF N
<1>3. N \in 0 .. N
  BY <1>1
<1>4. /\ n \in f[N]
      /\ \A U : n \in U /\ Whole(pairs, U) => f[N] \subseteq U
  BY <1>1, <1>2, <1>3, ReachGrows
<1>5. N = Cardinality(pairs)
  BY DEF N
<1>6. Whole(pairs, f[N])
  BY <1>1, <1>2, <1>5, ReachEnds
<1>7. QED
  BY <1>2, <1>4, <1>6

(***************************************************************************)
(* Two union-finds, one partition                                          *)
(***************************************************************************)
ClusterOf(refs, k) ==
    {i \in DOMAIN refs : refs[i] \subseteq Component(Range(refs), Min(refs[k]))}

LEMMA RangeFinite ==
    ASSUME NEW refs, IsFiniteSet(DOMAIN refs)
    PROVE  IsFiniteSet(Range(refs))
<1> DEFINE at == [i \in DOMAIN refs |-> refs[i]]
<1>1. at \in Surjection(DOMAIN refs, Range(refs))
  BY DEF Surjection, Range
<1> HIDE DEF at
<1>2. QED
  BY <1>1, FS_Surjection

\* Each group of the positions is what one component of the nodes takes in.
LEMMA GroupIsCluster ==
    ASSUME NEW refs, IsList(refs), NEW g \in Groups(refs), NEW k \in g,
           \A i \in DOMAIN refs : refs[i] # {} /\ refs[i] \subseteq Nat
    PROVE  g = ClusterOf(refs, k)
<1> DEFINE pairs == Range(refs)
           n == Min(refs[k])
           C == Component(pairs, n)
           X == ClusterOf(refs, k)
           U == UNION {refs[i] : i \in g}
<1>1. g \subseteq DOMAIN refs /\ k \in DOMAIN refs
  BY GroupsCover
<1>2. n \in refs[k]
  BY <1>1, MinOfSet
<1>3. \A i \in DOMAIN refs : refs[i] \in pairs
  BY DEF Range
<1>4. \A p \in pairs : \E i \in DOMAIN refs : p = refs[i]
  BY DEF Range
<1>5. IsFiniteSet(pairs)
  BY RangeFinite DEF IsList
<1>6. X = {i \in DOMAIN refs : refs[i] \subseteq C}
  BY DEF ClusterOf
<1> HIDE DEF pairs, n, X
<1>7. n \in C /\ Whole(pairs, C) /\ \A V : n \in V /\ Whole(pairs, V) => C \subseteq V
  BY <1>5, ComponentIs
<1> HIDE DEF C
<1>8. \A i \in DOMAIN refs : refs[i] \cap C # {} => i \in X
  BY <1>3, <1>6, <1>7 DEF Whole
<1>9. \A i \in X : i \in DOMAIN refs /\ refs[i] \subseteq C
  BY <1>6
<1>10. g \subseteq X
  <2>1. k \in X
    BY <1>1, <1>2, <1>7, <1>8
  <2>2. Separate(refs, X)
    <3>1. ASSUME NEW i \in DOMAIN refs, NEW j \in DOMAIN refs, refs[i] \cap refs[j] # {}, i \in X
          PROVE  j \in X
      BY <1>8, <1>9, <3>1
    <3>2. \A i, j \in DOMAIN refs : refs[i] \cap refs[j] = refs[j] \cap refs[i]
      OBVIOUS
    <3>3. QED
      BY <3>1, <3>2 DEF Separate
  <2>3. X \in SUBSET DOMAIN refs
    BY <1>9
  <2>4. QED
    BY <2>1, <2>2, <2>3, GroupsTied
<1>11. ASSUME NEW j \in DOMAIN refs, refs[j] \cap U # {} PROVE j \in g
  <2>1. PICK i \in g : refs[j] \cap refs[i] # {}
    BY <1>11
  <2>2. PICK h \in Groups(refs) : j \in h
    BY GroupsCover
  <2>3. h = g
    BY <2>1, <2>2, GroupsApart
  <2>4. QED
    BY <2>2, <2>3
<1>12. C \subseteq U
  <2>1. n \in U
    BY <1>2
  <2>2. ASSUME NEW p \in pairs, p \cap U # {} PROVE p \subseteq U
    <3>1. PICK j \in DOMAIN refs : p = refs[j]
      BY <1>4
    <3>2. j \in g
      BY <1>11, <2>2, <3>1
    <3>3. QED
      BY <3>1, <3>2
  <2> HIDE DEF U
  <2>3. Whole(pairs, U)
    BY <2>2 DEF Whole
  <2>4. QED
    BY <1>7, <2>1, <2>3
<1>13. X \subseteq g
  <2>1. ASSUME NEW j \in X PROVE j \in g
    <3>1. j \in DOMAIN refs /\ refs[j] \subseteq U /\ refs[j] # {}
      BY <1>9, <1>12
    <3>2. refs[j] \cap U # {}
      BY <3>1
    <3>3. QED
      BY <1>11, <3>1, <3>2
  <2>2. QED
    BY <2>1
<1>14. QED
  BY <1>10, <1>13 DEF X

\* The groups of the router's union-find over the list are the clusters of the
\* pipeline's walk over the nodes.
THEOREM GroupsAreClusters ==
    ASSUME NEW refs, IsList(refs), \A i \in DOMAIN refs : refs[i] # {} /\ refs[i] \subseteq Nat
    PROVE  Groups(refs) = {ClusterOf(refs, k) : k \in DOMAIN refs}
<1>1. ASSUME NEW g \in Groups(refs) PROVE g \in {ClusterOf(refs, k) : k \in DOMAIN refs}
  <2>1. PICK k : k \in g
    BY GroupsCover
  <2>2. k \in DOMAIN refs
    BY <2>1, GroupsCover
  <2>3. g = ClusterOf(refs, k)
    BY <2>1, GroupIsCluster
  <2>4. QED
    BY <2>2, <2>3
<1>2. ASSUME NEW k \in DOMAIN refs PROVE ClusterOf(refs, k) \in Groups(refs)
  <2>1. PICK g \in Groups(refs) : k \in g
    BY GroupsCover
  <2>2. g = ClusterOf(refs, k)
    BY <2>1, GroupIsCluster
  <2>3. QED
    BY <2>2
<1>3. QED
  BY <1>1, <1>2

Touched(refs, x) == UNION {refs[i] : i \in x}

\* The positions of a batch bring their nodes with them.
LEMMA BatchesTouchApart ==
    ASSUME NEW refs, IsList(refs), NEW c, NEW W, Pieces(refs, c, W),
           NEW j \in DOMAIN c, NEW k \in DOMAIN c, j # k
    PROVE  Touched(refs, c[j]) \cap Touched(refs, c[k]) = {}
<1>1. ASSUME NEW x \in c[j], NEW y \in c[k], NEW n \in refs[x], n \in refs[y] PROVE FALSE
  <2>1. IsBatch(refs, c[j]) /\ IsBatch(refs, c[k]) /\ c[j] \cap c[k] = {}
    BY DEF Pieces
  <2>2. x \in DOMAIN refs /\ y \in DOMAIN refs
    BY <2>1 DEF IsBatch
  <2>3. PICK g \in Groups(refs) : x \in g
    BY <2>2, GroupsCover
  <2>4. PICK h \in Groups(refs) : y \in h
    BY <2>2, GroupsCover
  <2>5. g = h
    BY <1>1, <2>3, <2>4, GroupsApart
  <2>6. y \in c[j]
    BY <2>1, <2>3, <2>4, <2>5 DEF IsBatch
  <2>7. QED
    BY <2>1, <2>6
<1>2. ASSUME NEW x, NEW n \in Touched(refs, x) PROVE \E i \in x : n \in refs[i]
  BY DEF Touched
<1>3. QED
  BY <1>1, <1>2

(***************************************************************************)
(* The candidates of the graph                                             *)
(***************************************************************************)
Refs == {s.candidate.refs : s \in found}

\* What is known of each candidate found.
GoodFound ==
    /\ graph \in Graphs
    /\ \A s \in found :
          /\ Measured(s.candidate)
          /\ AtMost(s.score, 100000) /\ s.band \in Bands
    /\ \A r, s \in found : r.candidate.refs = s.candidate.refs => r = s

GoodRef(x) ==
    /\ x \in SUBSET DOMAIN graph.value /\ x \subseteq Nat
    /\ IsFiniteSet(x) /\ x # {} /\ Min(x) \in x

\* That follows from the way they come about.
LEMMA FoundIsGood ==
    ASSUME FoundInv, found # {}
    PROVE  GoodFound
<1> DEFINE cands == Duplicates(graph.value, graph.type, graph.adj)
           value == graph.value
           type == graph.type
           props == graph.props
<1>1. /\ graph \in Graphs
      /\ found = Enriched(cands, props, type)
  BY DEF FoundInv
<1>2. DOMAIN value \subseteq Nat
  BY <1>1, GraphsAssumption
<1>3. ASSUME NEW c \in cands
      PROVE  Measured(c) /\ AtMost(Scored(c, props).score, 100000)
  <2>1. Measured(c)
    BY <1>1, <1>3, CandidatesMeasured
  <2>2. PICK p \in PairsOf(value, type) : c.refs = {p[1], p[2]}
    BY <1>1, <1>3, CandidatesMeasured
  <2>3. Min(c.refs) \in DOMAIN value /\ Max(c.refs) \in DOMAIN value
    BY <1>2, <2>2, PairIsOrdered
  <2>4. IsFiniteSet(DOMAIN props[Min(c.refs)]) /\ IsFiniteSet(DOMAIN props[Max(c.refs)])
    BY <1>1, <2>3, GraphsAssumption
  <2> DEFINE po == Overlap(props[Min(c.refs)], props[Max(c.refs)])
  <2>5. AtMost(po, 1000)
    BY <2>4, PropertiesRange
  <2>6. Scored(c, props).score = CompositeScore(c, po)
    BY DEF Scored
  <2> HIDE DEF po
  <2>7. QED
    BY <2>1, <2>5, <2>6, ScoreRange
<1>4. ASSUME NEW c \in cands, NEW d \in cands, c.refs = d.refs PROVE c = d
  BY <1>2, <1>4, DetectedOnce
<1> HIDE DEF cands, props, type
<1>5. \A s \in found :
         /\ s.candidate \in cands
         /\ s.score = Scored(s.candidate, props).score
         /\ s.band \in {"high", "medium", "low"}
  BY <1>1, EnrichedOf DEF Enrichment
<1>6. \A r, s \in found : r.candidate = s.candidate => r = s
  BY <1>1, EnrichedOf DEF Enrichment
<1>7. \A s \in found :
         /\ Measured(s.candidate)
         /\ AtMost(s.score, 100000) /\ s.band \in Bands
  BY <1>3, <1>5 DEF Bands
<1>8. \A r, s \in found : r.candidate.refs = s.candidate.refs => r = s
  BY <1>4, <1>5, <1>6
<1>9. QED
  BY <1>1, <1>7, <1>8 DEF GoodFound

LEMMA RefsAreGood ==
    ASSUME FoundInv, found # {}
    PROVE  IsFiniteSet(Refs) /\ \A x \in Refs : GoodRef(x)
<1> DEFINE cands == Duplicates(graph.value, graph.type, graph.adj)
           D == DOMAIN graph.value
<1>1. /\ graph \in Graphs
      /\ found = Enriched(cands, graph.props, graph.type)
  BY DEF FoundInv
<1>2. D \subseteq Nat /\ IsFiniteSet(D)
  BY <1>1, GraphsAssumption
<1>3. ASSUME NEW c \in cands PROVE GoodRef(c.refs)
  <2>1. PICK p \in PairsOf(graph.value, graph.type) : c.refs = {p[1], p[2]}
    BY <1>1, <1>3, CandidatesMeasured
  <2>2. /\ p[1] \in D /\ p[2] \in D /\ p[1] \in Nat /\ p[2] \in Nat
        /\ Min({p[1], p[2]}) = p[1]
    BY <1>2, PairIsOrdered
  <2>3. {p[1], p[2]} \in SUBSET D
    BY <2>2
  <2>4. IsFiniteSet({p[1], p[2]})
    BY <1>2, <2>3, FS_Subset
  <2>5. QED
    BY <2>1, <2>2, <2>3, <2>4 DEF GoodRef
<1> HIDE DEF cands
<1>4. \A s \in found : s.candidate \in cands
  BY <1>1, EnrichedOf DEF Enrichment
<1>5. \A x \in Refs : GoodRef(x)
  BY <1>3, <1>4 DEF Refs
<1>6. Refs \in SUBSET SUBSET D
  BY <1>5 DEF GoodRef
<1>7. IsFiniteSet(SUBSET D)
  BY <1>2, FS_SUBSET
<1>8. IsFiniteSet(Refs)
  BY <1>6, <1>7, FS_Subset
<1>9. QED
  BY <1>5, <1>8

\* A pair with contained names is found, and the scoped detection has no more.
LEMMA ContainmentHolds ==
    ASSUME FoundInv
    PROVE  ContainmentFound
<1> SUFFICES ASSUME found # {} PROVE ContainmentFound
  BY DEF ContainmentFound
<1> DEFINE cands == Duplicates(graph.value, graph.type, graph.adj)
           value == graph.value
           type == graph.type
<1>1. /\ graph \in Graphs
      /\ found = Enriched(cands, graph.props, type)
  BY DEF FoundInv
<1>2. DOMAIN value \subseteq Nat
  BY <1>1, GraphsAssumption
<1>3. /\ \A c \in cands : \E s \in found : s.candidate = c
      /\ \A s \in found : s.candidate \in cands
  <2> DEFINE props == graph.props
  <2>1. found = Enriched(cands, props, type)
    BY <1>1
  <2> HIDE DEF cands, type, props
  <2>2. \A c \in cands : \E s \in found : s.candidate = c
    BY <2>1, EnrichedOf DEF Enrichment
  <2>3. \A s \in found : s.candidate \in cands
    BY <2>1, EnrichedOf DEF Enrichment
  <2>4. QED
    BY <2>2, <2>3
<1>4. ASSUME NEW p \in PairsOf(value, type), TokenContainment(value[p[1]], value[p[2]])
      PROVE  \E s \in found : s.candidate.refs = {p[1], p[2]}
  <2> DEFINE adj == graph.adj
  <2>1. HasPair(Duplicates(value, type, adj), p)
    BY <1>2, <1>4, ContainmentDetected
  <2> HIDE DEF cands
  <2>2. PICK c \in cands : c.refs = {p[1], p[2]}
    BY <2>1 DEF cands, HasPair
  <2>3. QED
    BY <1>3, <2>2
<1>5. \A r, s \in found : r.candidate.refs = s.candidate.refs => r = s
  BY FoundIsGood DEF GoodFound
<1>6. ASSUME NEW n \in DOMAIN value
      PROVE  DuplicatesScoped(value, type, graph.adj, {n}) \subseteq {s.candidate : s \in found}
  <2>1. DuplicatesScoped(value, type, graph.adj, {n}) \subseteq cands
    BY <1>2, ScopedIsPart
  <2> HIDE DEF cands
  <2>2. QED
    BY <1>3, <2>1
<1>7. QED
  BY <1>4, <1>5, <1>6 DEF ContainmentFound

\* Each candidate of the grid is measured, so the recommendation is monotone on it.
LEMMA RecommendationHolds ==
    ASSUME FoundInv
    PROVE  RecommendationFits
<1> SUFFICES ASSUME NEW s \in found
             PROVE  /\ Recommendation(s.candidate) # BelowThreshold
                    /\ \A d \in Grid(s.candidate) :
                          JWPass(d) /\ AtLeastAsAlike(d, s.candidate) =>
                              NoWeaker(Recommendation(d), Recommendation(s.candidate))
  BY DEF RecommendationFits, NoWeaker
<1> DEFINE c == s.candidate
<1>1. Measured(c)
  BY FoundIsGood DEF GoodFound
<1>2. Recommendation(c) # BelowThreshold
  BY <1>1, AboveThreshold
<1> HIDE DEF c
<1>3. ASSUME NEW d \in Grid(c), JWPass(d), AtLeastAsAlike(d, c)
      PROVE  NoWeaker(Recommendation(d), Recommendation(c))
  <2>1. PICK jw \in {850, 900, 930, 950, 1000}, tok \in {300, 500, 800, 1000},
             cj \in {0, 10, 50, 150, 500} :
                d = [c EXCEPT !.jw = jw, !.tok = tok, !.cj = cj]
    BY <1>3 DEF Grid
  <2>2. /\ d.type = c.type /\ d.method = c.method /\ d.values = c.values
        /\ DOMAIN d = DOMAIN c
    BY <2>1
  <2>3. AtMost(d.jw, 1000) /\ AtMost(d.tok, 1000) /\ AtMost(d.cj, 1000)
    BY <1>1, <1>3, <2>1 DEF Measured, AtMost, AtLeastAsAlike
  <2>4. Measured(d)
    BY <1>1, <1>3, <2>2, <2>3 DEF Measured
  <2>5. QED
    BY <1>1, <1>3, <2>2, <2>4, RecommendationMonotone
<1>4. QED
  BY <1>2, <1>3 DEF c

\* The cluster of a candidate of the high band has no conflict.
LEMMA CoherenceHolds ==
    ASSUME FoundInv
    PROVE  HighBandIsCoherent
<1> SUFFICES ASSUME NEW s \in found, s.band = "high", NEW r \in found,
                    Component(Refs, Min(s.candidate.refs)) \cap r.candidate.refs # {}
             PROVE  r.conflicts = {}
  BY DEF HighBandIsCoherent, Refs
<1> DEFINE cands == Duplicates(graph.value, graph.type, graph.adj)
           props == graph.props
           type == graph.type
           scored == {Scored(c, props) : c \in cands}
           C == Component(Refs, Min(s.candidate.refs))
<1>1. found = Enriched(cands, props, type)
  BY DEF FoundInv
<1> HIDE DEF cands, props, type
<1>2. /\ \A q \in found : /\ q.candidate \in cands
                          /\ q.conflicts = Scored(q.candidate, props).conflicts
      /\ s.band = "high" => ~ Incoherent(Scored(s.candidate, props), scored, type)
      /\ \A c \in cands : \E q \in found : q.candidate = c
  <2>1. Enrichment(found, cands, props, type)
    BY <1>1, EnrichedOf
  <2>2. QED
    BY <2>1 DEF Enrichment
<1>3. \A c : Scored(c, props).candidate = c
  BY DEF Scored
<1>4. {q.candidate.refs : q \in scored} = Refs
  <2>1. ASSUME NEW x \in Refs PROVE x \in {q.candidate.refs : q \in scored}
    <3>1. PICK q \in found : x = q.candidate.refs
      BY DEF Refs
    <3>2. Scored(q.candidate, props) \in scored
      BY <1>2
    <3>3. QED
      BY <1>3, <3>1, <3>2
  <2>2. ASSUME NEW x \in {q.candidate.refs : q \in scored} PROVE x \in Refs
    <3>1. PICK c \in cands : x = c.refs
      BY <1>3
    <3>2. PICK q \in found : q.candidate = c
      BY <1>2
    <3>3. QED
      BY <3>1, <3>2 DEF Refs
  <2>3. QED
    BY <2>1, <2>2
<1>5. ASSUME NEW q \in scored, q.candidate.refs \subseteq C PROVE q.conflicts = {}
  <2> DEFINE it == Scored(s.candidate, props)
  <2>1. ~ Incoherent(it, scored, type) /\ it.candidate = s.candidate
    BY <1>2, <1>3
  <2> HIDE DEF scored, it
  <2>2. Component({p.candidate.refs : p \in scored}, Min(it.candidate.refs)) = C
    BY <1>4, <2>1
  <2> HIDE DEF C
  <2>3. QED
    BY <1>5, <2>1, <2>2 DEF Incoherent
<1>6. Whole(Refs, C)
  BY RefsAreGood, ComponentIs
<1>7. r.candidate.refs \in Refs
  BY DEF Refs
<1>8. r.candidate.refs \subseteq C
  BY <1>6, <1>7 DEF Whole
<1>9. Scored(r.candidate, props) \in scored
  BY <1>2
<1>10. QED
  BY <1>2, <1>3, <1>5, <1>8, <1>9

\* The list of refs exists, and the theorems about groups apply to it.
LEMMA RefsListIs ==
    ASSUME FoundInv, found # {}
    PROVE  /\ IsList(RefsList) /\ Range(RefsList) = Refs
           /\ \A i \in DOMAIN RefsList : RefsList[i] # {} /\ RefsList[i] \subseteq Nat
<1> DEFINE N == Cardinality(Refs)
<1>1. IsFiniteSet(Refs) /\ \A x \in Refs : IsFiniteSet(x) /\ x # {} /\ x \subseteq Nat
  BY RefsAreGood DEF GoodRef
<1>2. N \in Nat /\ ExistsBijection(1 .. N, Refs)
  BY <1>1, FS_CardinalityType
<1>3. RefsList = CHOOSE q \in [1 .. N -> Refs] : Range(q) = Refs
  BY DEF RefsList, Refs
<1> HIDE DEF N
<1>4. PICK f : f \in Bijection(1 .. N, Refs)
  BY <1>2 DEF ExistsBijection
<1>5. f \in [1 .. N -> Refs] /\ Range(f) = Refs
  BY <1>4 DEF Bijection, Injection, Surjection, Range
<1>6. RefsList \in [1 .. N -> Refs] /\ Range(RefsList) = Refs
  BY <1>3, <1>5
<1>7. IsFiniteSet(1 .. N) /\ 1 .. N \subseteq 0 .. N
  BY <1>2, FS_Interval
<1>8. DOMAIN RefsList = 1 .. N /\ \A i \in DOMAIN RefsList : RefsList[i] \in Refs
  BY <1>6
<1>9. IsList(RefsList)
  BY <1>1, <1>2, <1>7, <1>8 DEF IsList
<1>10. QED
  BY <1>1, <1>6, <1>8, <1>9

Parted(refs, batches, max) ==
    /\ UNION Range(batches) = DOMAIN refs
    /\ \A j, k \in DOMAIN batches :
          j # k => Touched(refs, batches[j]) \cap Touched(refs, batches[k]) = {}
    /\ Groups(refs) = {ClusterOf(refs, k) : k \in DOMAIN refs}
    /\ \A k \in DOMAIN batches :
          Cardinality(batches[k]) > max => batches[k] \in Groups(refs)

\* The batches are cut between the clusters.
LEMMA BatchesHold ==
    ASSUME FoundInv
    PROVE  BatchesAreComponents
<1> SUFFICES ASSUME found # {}, NEW max \in 1 .. 2
             PROVE  Parted(RefsList, BatchesOf(RefsList, max), max)
  BY DEF BatchesAreComponents, Parted, Touched, ClusterOf
<1> DEFINE refs == RefsList
           batches == BatchesOf(refs, max)
<1>1. /\ IsList(refs)
      /\ \A i \in DOMAIN refs : refs[i] # {} /\ refs[i] \subseteq Nat
  BY RefsListIs
<1> HIDE DEF refs
<1>2. Pieces(refs, batches, DOMAIN refs) /\ WithinLimit(refs, batches, max)
  <2>1. max \in Nat
    OBVIOUS
  <2>2. QED
    BY <1>1, <2>1, BatchesArePieces
<1> HIDE DEF batches
<1>3. UNION Range(batches) = DOMAIN refs
  <2>1. \A x : x \in DOMAIN refs <=> \E k \in DOMAIN batches : x \in batches[k]
    BY <1>2 DEF Pieces
  <2>2. \A x : x \in UNION Range(batches) <=> \E k \in DOMAIN batches : x \in batches[k]
    BY DEF Range
  <2> DEFINE all == UNION Range(batches)
  <2> HIDE DEF all
  <2>3. \A x : x \in all <=> x \in DOMAIN refs
    BY <2>1, <2>2 DEF all
  <2>4. all = DOMAIN refs
    BY <2>3
  <2>5. QED
    BY <2>4 DEF all
<1>4. \A j, k \in DOMAIN batches :
         j # k => Touched(refs, batches[j]) \cap Touched(refs, batches[k]) = {}
  BY <1>1, <1>2, BatchesTouchApart
<1>5. Groups(refs) = {ClusterOf(refs, k) : k \in DOMAIN refs}
  BY <1>1, GroupsAreClusters
<1>6. Parted(refs, batches, max)
  BY <1>2, <1>3, <1>4, <1>5 DEF Parted, WithinLimit
<1>7. QED
  BY <1>6 DEF refs, batches

(***************************************************************************)
(* The inductive invariant                                                 *)
(***************************************************************************)
\* The part of TypeOK that is about the review.
ReviewTyped ==
    /\ review.pc \in {"idle", "evidence", "ask", "search"}
    /\ review.attached \subseteq DOMAIN review.items
    /\ DOMAIN review.items \subseteq Chunks
    /\ review.budget \in 0 .. 3 * BaseBudget
    /\ review.round \in 1 .. MaxRounds + 1

ReportTyped == report = None \/ (report.sufficient \in BOOLEAN /\ report.exhausted \in BOOLEAN)

FoundTyped ==
    \A s \in found :
        /\ s.candidate.jw \in 0 .. Certainty
        /\ s.candidate.tok \in 0 .. Certainty
        /\ s.candidate.cj \in 0 .. Certainty
        /\ s.score \in 0 .. FullScore
        /\ s.band \in Bands

ReviewInv == ReviewTyped /\ RoundsInv /\ SearchesArePaid

IndInv == FoundInv /\ ReviewInv /\ ReportTyped

LEMMA InInterval ==
    ASSUME NEW x, NEW n \in Nat, AtMost(x, n)
    PROVE  x \in 0 .. n
BY DEF AtMost

LEMMA FoundIsTyped ==
    ASSUME FoundInv
    PROVE  FoundTyped
<1>1. Certainty = 1000 /\ FullScore = 100000
  BY DEF Certainty, FullScore
<1>5. Certainty \in Nat /\ FullScore \in Nat
  BY <1>1
<1>2. ASSUME NEW s \in found
      PROVE  /\ AtMost(s.candidate.jw, Certainty) /\ AtMost(s.candidate.tok, Certainty)
             /\ AtMost(s.candidate.cj, Certainty) /\ AtMost(s.score, FullScore)
             /\ s.band \in Bands
  <2>1. GoodFound
    BY FoundIsGood
  <2>2. /\ AtMost(s.candidate.jw, 1000) /\ AtMost(s.candidate.tok, 1000)
        /\ AtMost(s.candidate.cj, 1000) /\ AtMost(s.score, 100000)
        /\ s.band \in Bands
    BY <2>1 DEF GoodFound, Measured
  <2>3. QED
    BY <1>1, <2>2
<1>3. ASSUME NEW s \in found
      PROVE  /\ s.candidate.jw \in 0 .. Certainty /\ s.candidate.tok \in 0 .. Certainty
             /\ s.candidate.cj \in 0 .. Certainty /\ s.score \in 0 .. FullScore
             /\ s.band \in Bands
  BY <1>2, <1>5, InInterval
<1>4. QED
  BY <1>3 DEF FoundTyped

LEMMA TypeParts ==
    ASSUME IndInv
    PROVE  TypeOK
<1>1. FoundTyped /\ ReviewTyped /\ ReportTyped
  BY FoundIsTyped DEF IndInv, ReviewInv
<1>2. QED
  BY <1>1 DEF TypeOK, FoundTyped, ReviewTyped, ReportTyped

LEMMA BudgetRange ==
    ASSUME NEW c
    PROVE  Budget(c, BaseBudget) \in 0 .. 3 * BaseBudget
<1>1. BaseBudget \in Nat
  BY ReviewAssumption
<1>2. RiskClass(c) \in {1, 2, 3}
  BY DEF RiskClass, TypeRisk
<1>3. \A risk \in {1, 2, 3} : (BaseBudget * risk) \div 2 \in 0 .. 3 * BaseBudget
  BY <1>1
<1>4. QED
  BY <1>2, <1>3 DEF Budget

LEMMA ReportIsTyped ==
    ASSUME NEW c, NEW items, NEW x \in BOOLEAN
    PROVE  /\ Report(items, Enough(c, items), x).sufficient \in BOOLEAN
           /\ Report(items, Enough(c, items), x).exhausted \in BOOLEAN
BY DEF Report, Enough

LEMMA IdleInv ==
    ASSUME review' = NoReview
    PROVE  ReviewInv'
<1>1. /\ BaseBudget \in Nat /\ MaxRounds \in Nat \ {0}
  BY ReviewAssumption
<1>2. 0 \in 0 .. 3 * BaseBudget /\ 1 \in 1 .. MaxRounds + 1
  BY <1>1
<1>3. QED
  BY <1>1, <1>2 DEF ReviewInv, ReviewTyped, RoundsInv, SearchesArePaid, NoReview, NoItems

LEMMA InitInv == Init => IndInv
<1> SUFFICES ASSUME Init PROVE IndInv
  OBVIOUS
<1>1. /\ BaseBudget \in Nat /\ MaxRounds \in Nat \ {0}
  BY ReviewAssumption
<1>2. 0 \in 0 .. 3 * BaseBudget /\ 1 \in 1 .. MaxRounds + 1
  BY <1>1
<1>3. ReviewInv
  BY <1>1, <1>2 DEF Init, ReviewInv, ReviewTyped, RoundsInv, SearchesArePaid, NoReview, NoItems
<1>4. FoundInv /\ ReportTyped
  BY DEF Init, FoundInv, ReportTyped
<1>5. QED
  BY <1>3, <1>4 DEF IndInv

LEMMA FoundStays ==
    ASSUME FoundInv, UNCHANGED <<graph, found>>
    PROVE  FoundInv'
BY DEF FoundInv

LEMMA ReviewStays ==
    ASSUME ReviewInv, ReportTyped, UNCHANGED <<review, report>>
    PROVE  ReviewInv' /\ ReportTyped'
BY DEF ReviewInv, ReviewTyped, RoundsInv, SearchesArePaid, ReportTyped

LEMMA GenerateInv ==
    ASSUME IndInv, Generate
    PROVE  IndInv'
<1>1. FoundInv'
  BY DEF IndInv, FoundInv, Generate
<1>2. ReviewInv' /\ ReportTyped'
  BY ReviewStays DEF IndInv, Generate
<1>3. QED
  BY <1>1, <1>2 DEF IndInv

LEMMA OrchestrateInv ==
    ASSUME IndInv, Orchestrate
    PROVE  IndInv'
<1>1. FoundInv'
  BY DEF Orchestrate, FoundInv
<1>2. ReportTyped'
  BY DEF IndInv, ReportTyped, Orchestrate
<1>3. PICK c : review' = [NoReview EXCEPT !.pc = "evidence", !.of = c,
                                          !.budget = Budget(c, BaseBudget)]
  BY DEF Orchestrate
<1>4. /\ DOMAIN review' = {"pc", "of", "items", "attached", "budget", "round", "searches"}
      /\ review'.pc = "evidence" /\ review'.of = c /\ review'.items = NoItems
      /\ review'.attached = {} /\ review'.round = 1 /\ review'.searches = 0
      /\ review'.budget = Budget(c, BaseBudget)
  BY <1>3 DEF NoReview
<1>5. /\ BaseBudget \in Nat /\ MaxRounds \in Nat \ {0} /\ RoundCost \in Nat \ {0}
      /\ Budget(c, BaseBudget) \in 0 .. 3 * BaseBudget
  BY ReviewAssumption, BudgetRange
<1> DEFINE B == Budget(c, BaseBudget)
<1>6. B \in Nat /\ Max({0, B}) = B /\ Max({1, B}) >= 1 /\ Max({1, B}) \in Nat
  <2>1. B \in Nat
    BY <1>5
  <2> HIDE DEF B
  <2>2. QED
    BY <2>1, MaxOfTwo
<1>7. ReviewTyped'
  BY <1>4, <1>5 DEF ReviewTyped, NoItems
<1> HIDE DEF B
<1>8. RoundsInv'
  BY <1>4, <1>5, <1>6 DEF RoundsInv, B
<1>9. SearchesArePaid'
  BY <1>4, <1>5, <1>6 DEF SearchesArePaid, B
<1>10. QED
  BY <1>1, <1>2, <1>7, <1>8, <1>9 DEF IndInv, ReviewInv
LEMMA AssembleInv ==
    ASSUME IndInv, AssembleEvidence
    PROVE  IndInv'
<1>1. FoundInv'
  BY FoundStays DEF IndInv, AssembleEvidence
<1>2. ReviewTyped /\ RoundsInv /\ SearchesArePaid /\ ReportTyped /\ review.pc = "evidence"
  BY DEF IndInv, ReviewInv, AssembleEvidence
<1>3. CASE review' = NoReview /\ \E items : report' = Report(items, TRUE, FALSE)
  <2>1. ReviewInv'
    BY <1>3, IdleInv
  <2>2. ReportTyped'
    BY <1>3 DEF ReportTyped, Report
  <2>3. QED
    BY <1>1, <2>1, <2>2 DEF IndInv
<1>4. ASSUME report' = report,
             NEW items, NEW S, S = review'.attached, S \subseteq DOMAIN items, DOMAIN items \subseteq Chunks,
             review' = [review EXCEPT !.pc = "ask", !.items = items, !.attached = S]
      PROVE  IndInv'
  <2>1. /\ DOMAIN review' = DOMAIN review
        /\ review'.pc = "ask" /\ review'.of = review.of /\ review'.items = items
        /\ review'.attached = S /\ review'.round = review.round
        /\ review'.searches = review.searches /\ review'.budget = review.budget
    BY <1>2, <1>4 DEF RoundsInv
  <2>2. ReportTyped'
    BY <1>2, <1>4 DEF ReportTyped
  <2>3. ReviewTyped'
    BY <1>2, <1>4, <2>1 DEF ReviewTyped
  <2>4. RoundsInv'
    BY <1>2, <2>1 DEF RoundsInv
  <2>5. SearchesArePaid'
    BY <1>2, <2>1 DEF SearchesArePaid
  <2>6. QED
    BY <1>1, <2>2, <2>3, <2>4, <2>5 DEF IndInv, ReviewInv
<1>5. ASSUME NEW S \in SUBSET Chunks, NEW items \in [S -> Classifications], report' = report,
             review' = [review EXCEPT !.pc = "ask", !.items = items, !.attached = S]
      PROVE  IndInv'
  <2>1. review'.attached = S
    BY <1>2, <1>5 DEF RoundsInv
  <2>2. DOMAIN items = S
    OBVIOUS
  <2>3. QED
    BY <1>4, <1>5, <2>1, <2>2
<1>6. ASSUME report' = report, review' = [review EXCEPT !.pc = "ask"]
      PROVE  IndInv'
  <2>1. review' = [review EXCEPT !.pc = "ask", !.items = review.items, !.attached = review.attached]
    BY <1>2, <1>6 DEF RoundsInv
  <2>2. review'.attached = review.attached
    BY <1>6
  <2>3. review.attached \subseteq DOMAIN review.items /\ DOMAIN review.items \subseteq Chunks
    BY <1>2 DEF ReviewTyped
  <2>4. QED
    BY <1>4, <1>6, <2>1, <2>2, <2>3
<1>7. QED
  BY <1>3, <1>5, <1>6 DEF AssembleEvidence

LEMMA FinishedInv ==
    ASSUME IndInv, UNCHANGED <<graph, found>>, NEW r, NEW items, Finished(r, items)
    PROVE  IndInv'
<1>1. FoundInv'
  BY FoundStays DEF IndInv
<1>2. ReviewInv'
  BY IdleInv DEF Finished
<1>3. ReportTyped'
  <2>1. report' = Report(items, Enough(r.of, items), DOMAIN items = r.attached)
    BY DEF Finished
  <2>2. (DOMAIN items = r.attached) \in BOOLEAN
    OBVIOUS
  <2>3. report'.sufficient \in BOOLEAN /\ report'.exhausted \in BOOLEAN
    BY <2>1, <2>2, ReportIsTyped
  <2>4. QED
    BY <2>3 DEF ReportTyped
<1>4. QED
  BY <1>1, <1>2, <1>3 DEF IndInv

\* The numbers of the budget.
LEMMA BudgetLeft ==
    ASSUME NEW b \in Nat, NEW n \in Nat, NEW cost \in Nat \ {0}
    PROVE  /\ Max({0, b - n * cost}) \in Nat
           /\ Max({0, b - n * cost}) > 0 => /\ n * cost < Max({1, b})
                                            /\ Max({0, b - n * cost}) = b - n * cost
           /\ b - n * cost > 0 =>
                 Max({0, (b - n * cost) - cost}) = Max({0, b - (n + 1) * cost})
<1> DEFINE m == n * cost
<1>1. m \in Nat /\ (n + 1) * cost = m + cost
  OBVIOUS
<1> HIDE DEF m
<1>2. Max({0, b - m}) = (IF 0 >= b - m THEN 0 ELSE b - m)
  BY <1>1, MaxOfTwo
<1>3. Max({1, b}) = (IF 1 >= b THEN 1 ELSE b)
  BY MaxOfTwo
<1>4. (b - m) - cost = b - (m + cost)
  BY <1>1
<1>5. Max({0, b - m}) \in Nat
  BY <1>1, <1>2
<1>6. Max({0, b - m}) > 0 => m < Max({1, b}) /\ Max({0, b - m}) = b - m
  BY <1>1, <1>2, <1>3
<1>7. QED
  BY <1>1, <1>4, <1>5, <1>6 DEF m

LEMMA AskInv ==
    ASSUME IndInv, AskQuery
    PROVE  IndInv'
<1>1. CASE Finished(review, review.items)
  BY <1>1, FinishedInv DEF AskQuery
<1>2. CASE /\ MayAsk(review) /\ UNCHANGED report
           /\ review' = [review EXCEPT !.pc = "search", !.searches = @ + 1]
  <2>1. FoundInv'
    BY FoundStays DEF IndInv, AskQuery
  <2>2. ReviewTyped /\ RoundsInv /\ SearchesArePaid /\ ReportTyped /\ review.pc = "ask"
    BY DEF IndInv, ReviewInv, AskQuery
  <2> DEFINE n == review.searches
             B == Budget(review.of, BaseBudget)
  <2>3. /\ DOMAIN review' = DOMAIN review
        /\ review'.pc = "search" /\ review'.of = review.of /\ review'.items = review.items
        /\ review'.attached = review.attached /\ review'.round = review.round
        /\ review'.searches = n + 1 /\ review'.budget = review.budget
    BY <1>2, <2>2 DEF RoundsInv
  <2>4. /\ n = review.round - 1 /\ review.round \in 1 .. MaxRounds + 1
        /\ review.budget = Max({0, B - n * RoundCost})
        /\ review.round <= MaxRounds /\ review.budget > 0
    BY <1>2, <2>2 DEF RoundsInv, ReviewTyped, MayAsk
  <2>5. B \in Nat /\ RoundCost \in Nat \ {0} /\ MaxRounds \in Nat \ {0}
    BY ReviewAssumption, BudgetRange
  <2> HIDE DEF B
  <2>6. n \in Nat /\ n + 1 <= MaxRounds /\ (n + 1) - 1 = n /\ review.round = n + 1
    BY <2>4, <2>5
  <2> HIDE DEF n
  <2>7. n * RoundCost < Max({1, B})
    BY <2>4, <2>5, <2>6, BudgetLeft
  <2>8. ReportTyped'
    BY <1>2, <2>2 DEF ReportTyped
  <2>9. ReviewTyped'
    BY <2>2, <2>3 DEF ReviewTyped
  <2>10. RoundsInv'
    BY <2>2, <2>3, <2>4, <2>6 DEF RoundsInv, B
  <2>11. SearchesArePaid'
    BY <2>3, <2>6, <2>7 DEF SearchesArePaid, B
  <2>12. QED
    BY <2>1, <2>8, <2>9, <2>10, <2>11 DEF IndInv, ReviewInv
<1>3. QED
  BY <1>1, <1>2 DEF AskQuery

LEMMA SearchInv ==
    ASSUME IndInv, Search
    PROVE  IndInv'
<1>1. FoundInv' /\ UNCHANGED <<graph, found>>
  BY FoundStays DEF IndInv, Search
<1>2. ReviewTyped /\ RoundsInv /\ SearchesArePaid /\ ReportTyped /\ review.pc = "search"
  BY DEF IndInv, ReviewInv, Search
<1> DEFINE known(fresh) == [k \in DOMAIN review.items \cup fresh |->
                               IF k \in fresh THEN "corroborating" ELSE review.items[k]]
           n == review.searches
           B == Budget(review.of, BaseBudget)
<1>3. PICK fresh \in SUBSET (Chunks \ DOMAIN review.items) :
         \/ Finished(review, known(fresh))
         \/ /\ review' = [review EXCEPT !.pc = "ask", !.items = known(fresh),
                                        !.round = @ + 1, !.budget = Max({0, @ - RoundCost})]
            /\ UNCHANGED report
  BY DEF Search
<1> DEFINE items == known(fresh)
<1>4. DOMAIN items = DOMAIN review.items \cup fresh
  OBVIOUS
<1> HIDE DEF known, items
<1>5. CASE Finished(review, items)
  BY <1>1, <1>5, FinishedInv
<1>6. CASE /\ review' = [review EXCEPT !.pc = "ask", !.items = items,
                                       !.round = @ + 1, !.budget = Max({0, @ - RoundCost})]
           /\ UNCHANGED report
  <2>1. /\ DOMAIN review' = DOMAIN review
        /\ review'.pc = "ask" /\ review'.of = review.of /\ review'.items = items
        /\ review'.attached = review.attached /\ review'.round = review.round + 1
        /\ review'.searches = n /\ review'.budget = Max({0, review.budget - RoundCost})
    BY <1>2, <1>6 DEF RoundsInv
  <2>2. /\ n = review.round /\ review.round \in 1 .. MaxRounds + 1 /\ review.round <= MaxRounds
        /\ review.budget > 0 /\ review.budget = Max({0, B - (n - 1) * RoundCost})
        /\ review.budget \in 0 .. 3 * BaseBudget
    BY <1>2 DEF RoundsInv, ReviewTyped
  <2>3. B \in Nat /\ RoundCost \in Nat \ {0} /\ MaxRounds \in Nat \ {0} /\ BaseBudget \in Nat
    BY ReviewAssumption, BudgetRange
  <2> HIDE DEF B
  <2> DEFINE m == n - 1
  <2>4. m \in Nat /\ m + 1 = n /\ n \in Nat /\ n <= MaxRounds
    BY <2>2, <2>3
  <2> HIDE DEF n
  <2>5. review.budget = Max({0, B - m * RoundCost})
    BY <2>2
  <2> HIDE DEF m
  <2>6. review.budget = B - m * RoundCost /\ m * RoundCost < Max({1, B})
    BY <2>2, <2>3, <2>4, <2>5, BudgetLeft
  <2>7. Max({0, review.budget - RoundCost}) = Max({0, B - n * RoundCost})
    <3>1. B - m * RoundCost > 0
      BY <2>2, <2>6
    <3>2. Max({0, (B - m * RoundCost) - RoundCost}) = Max({0, B - (m + 1) * RoundCost})
      BY <2>3, <2>4, <3>1, BudgetLeft
    <3>3. QED
      BY <2>4, <2>6, <3>2
  <2>8. Max({0, review.budget - RoundCost}) \in 0 .. 3 * BaseBudget
    <3>1. Max({0, review.budget - RoundCost}) =
             IF 0 >= review.budget - RoundCost THEN 0 ELSE review.budget - RoundCost
      BY <2>2, <2>3, MaxOfTwo
    <3>2. QED
      BY <2>2, <2>3, <3>1
  <2>9. ReportTyped'
    BY <1>2, <1>6 DEF ReportTyped
  <2>10. ReviewTyped'
    <3>1. review'.round \in 1 .. MaxRounds + 1
      BY <2>1, <2>2, <2>3
    <3>2. /\ review'.attached \subseteq DOMAIN review'.items
          /\ DOMAIN review'.items \subseteq Chunks
      BY <1>2, <1>4, <2>1 DEF ReviewTyped
    <3>3. QED
      BY <2>1, <2>8, <3>1, <3>2 DEF ReviewTyped
  <2>11. RoundsInv'
    BY <1>2, <2>1, <2>2, <2>4, <2>7 DEF RoundsInv, B
  <2>12. SearchesArePaid'
    <3>1. (n - 1) * RoundCost < Max({1, B})
      BY <2>4, <2>6 DEF m
    <3>2. QED
      BY <2>1, <2>4, <3>1 DEF SearchesArePaid, B
  <2>13. QED
    BY <1>1, <2>9, <2>10, <2>11, <2>12 DEF IndInv, ReviewInv
<1>7. QED
  BY <1>3, <1>5, <1>6 DEF items

LEMMA NextInv == IndInv /\ [Next]_vars => IndInv'
<1> SUFFICES ASSUME IndInv, [Next]_vars PROVE IndInv'
  OBVIOUS
<1>1. CASE Generate
  BY <1>1, GenerateInv
<1>2. CASE Orchestrate
  BY <1>2, OrchestrateInv
<1>3. CASE AssembleEvidence
  BY <1>3, AssembleInv
<1>4. CASE AskQuery
  BY <1>4, AskInv
<1>5. CASE Search
  BY <1>5, SearchInv
<1>6. CASE UNCHANGED vars
  <2>1. UNCHANGED <<graph, found>> /\ UNCHANGED <<review, report>>
    BY <1>6 DEF vars
  <2>2. FoundInv' /\ ReviewInv' /\ ReportTyped'
    BY <2>1, FoundStays, ReviewStays DEF IndInv
  <2>3. QED
    BY <2>2 DEF IndInv
<1>7. QED
  BY <1>1, <1>2, <1>3, <1>4, <1>5, <1>6 DEF Next

(***************************************************************************)
(* The theorems                                                            *)
(***************************************************************************)
LEMMA AlwaysInv == Spec => []IndInv
BY InitInv, NextInv, PTL DEF Spec

\* Scores, bands, budgets and rounds stay in their range, whatever the names, the
\* properties and the neighbours in the graph, and whatever the model and the store
\* answer.
THEOREM TypeCorrect == Spec => []TypeOK
<1>1. IndInv => TypeOK
  BY TypeParts
<1>2. QED
  BY <1>1, AlwaysInv, PTL

\* The detector misses no pair of contained names and reports none twice; its scoped
\* form adds nothing.
THEOREM ContainmentIsFound == Spec => []ContainmentFound
<1>1. IndInv => ContainmentFound
  BY ContainmentHolds DEF IndInv
<1>2. QED
  BY <1>1, AlwaysInv, PTL

\* compute_structural_recommendation never reaches its last branch for a candidate of
\* the detector, and is monotone in how alike the pair is.
THEOREM RecommendationsFit == Spec => []RecommendationFits
<1>1. IndInv => RecommendationFits
  BY RecommendationHolds DEF IndInv
<1>2. QED
  BY <1>1, AlwaysInv, PTL

\* No pair of the high band is in a cluster with a conflict.
THEOREM HighBandCoherent == Spec => []HighBandIsCoherent
<1>1. IndInv => HighBandIsCoherent
  BY CoherenceHolds DEF IndInv
<1>2. QED
  BY <1>1, AlwaysInv, PTL

\* The batches of a run are cut between the clusters of the pipeline.
THEOREM BatchesAreWholeClusters == Spec => []BatchesAreComponents
<1>1. IndInv => BatchesAreComponents
  BY BatchesHold DEF IndInv
<1>2. QED
  BY <1>1, AlwaysInv, PTL

\* Agent-B asks the vector store no more often than its rounds and its budget allow.
THEOREM SearchesPaid == Spec => []SearchesArePaid
<1>1. IndInv => SearchesArePaid
  BY DEF IndInv, ReviewInv
<1>2. QED
  BY <1>1, AlwaysInv, PTL

LEMMA FinishedTruthful ==
    ASSUME NEW items, Finished(review, items)
    PROVE  report'.exhausted <=> DOMAIN report'.items = review.attached
BY DEF Finished, Report

\* A report of Agent-B says exhausted exactly when all its chunks are those Agent-A
\* had attached.
THEOREM ExhaustedIsTruthful == Spec => ExhaustedMeansNothingNew
<1>1. [Next]_vars => [report' # report /\ review.pc \in {"ask", "search"} =>
                         (report'.exhausted <=> DOMAIN report'.items = review.attached)]_vars
  <2> SUFFICES ASSUME Next, report' # report, review.pc \in {"ask", "search"}
               PROVE  report'.exhausted <=> DOMAIN report'.items = review.attached
    BY DEF vars
  <2>1. CASE AskQuery
    BY <2>1, FinishedTruthful DEF AskQuery
  <2>2. CASE Search
    <3>1. \E items : Finished(review, items)
      BY <2>2 DEF Search
    <3>2. QED
      BY <3>1, FinishedTruthful
  <2>3. QED
    BY <2>1, <2>2 DEF Next, Generate, Orchestrate, AssembleEvidence
<1>2. QED
  BY <1>1, PTL DEF Spec, ExhaustedMeansNothingNew
=============================================================================
