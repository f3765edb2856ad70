--------------------------- MODULE TextSimilarity ---------------------------
(* services/curation/similarity.py: how alike two primary values are.         *)
(* A text is a sequence of characters, Blank the only one that is not a       *)
(* letter.  A score is in thousandths, rounded down, so that it compares with *)
(* the thresholds of the detectors (0.900, 0.950, ...) as the exact fraction. *)
EXTENDS Integers, Sequences, FiniteSets, FiniteSetsExt, Functions

CONSTANTS
    Blank,          \* what separates two words
    Stopwords       \* words that say nothing

Thousandths(num, den) == (1000 * num) \div den

\* Characters match when they are equal and no further apart than this.
MatchWindow(s, t) == Max({Max({Len(s), Len(t)}) \div 2 - 1, 0})

\* Each character of s takes the first equal one of t in the window that is
\* still free.
Matched(s, t) ==
    LET near(i) == i - MatchWindow(s, t) .. i + MatchWindow(s, t)
        free(prev, i) == {j \in DOMAIN t : /\ j \in near(i)
                                           /\ s[i] = t[j]
                                           /\ \A p \in prev : p[2] # j}
        matched[i \in 0 .. Len(s)] ==
            IF i = 0 THEN {}
            ELSE IF free(matched[i - 1], i) = {} THEN matched[i - 1]
                 ELSE matched[i - 1] \cup {<<i, Min(free(matched[i - 1], i))>>}
    IN  matched[Len(s)]

\* The k-th smallest member of a set of numbers.
Nth(S, k) == CHOOSE n \in S : Cardinality({m \in S : m <= n}) = k

\* Matched characters that stand in another order in t.
Transposed(s, t, M) ==
    LET left == {p[1] : p \in M}
        right == {p[2] : p \in M}
    IN  Cardinality({k \in 1 .. Cardinality(M) : s[Nth(left, k)] # t[Nth(right, k)]})

CommonPrefix(s, t) ==
    Max({k \in 0 .. Min({4, Len(s), Len(t)}) : SubSeq(s, 1, k) = SubSeq(t, 1, k)})

\* _jaro_winkler, the fraction num/den being what _jaro returns.
JaroWinkler(s, t) ==
    LET M == Matched(s, t)
        m == Cardinality(M)
        num == 2 * m * m * (Len(s) + Len(t))
                   + Len(s) * Len(t) * (2 * m - Transposed(s, t, M))
        den == 6 * m * Len(s) * Len(t)
    IN  CASE s = t -> 1000
          [] s # t /\ m = 0 -> 0
          [] OTHER -> Thousandths(10 * num + CommonPrefix(s, t) * (den - num), 10 * den)

\* The words of a text, each from one place in it to another.
Tokens(s) ==
    {SubSeq(s, w[1], w[2]) : w \in
        {at \in (DOMAIN s) \X (DOMAIN s) :
            /\ at[1] <= at[2]
            /\ Blank \notin Range(SubSeq(s, at[1], at[2]))
            /\ at[1] > 1 => s[at[1] - 1] = Blank
            /\ at[2] < Len(s) => s[at[2] + 1] = Blank}}

ContentTokens(s) == {w \in Tokens(s) : w \notin Stopwords /\ Len(w) > 1}

TokenOverlap(s, t) ==
    LET total == Cardinality(Tokens(s)) + Cardinality(Tokens(t))
    IN  IF total = 0 THEN 0
        ELSE Thousandths(2 * Cardinality(Tokens(s) \cap Tokens(t)), total)

\* The words of the one with fewer are all among those of the other.
TokenContainment(s, t) ==
    \E pair \in {<<s, t>>, <<t, s>>} :
        LET short == ContentTokens(pair[1])
            long == ContentTokens(pair[2])
        IN  /\ short # {}
            /\ Cardinality(short) < Cardinality(long)
            /\ Len(pair[1]) >= 3
            /\ short \subseteq long

Jaccard(A, B) ==
    IF A \cup B = {} THEN 0
    ELSE Thousandths(Cardinality(A \cap B), Cardinality(A \cup B))
=============================================================================
