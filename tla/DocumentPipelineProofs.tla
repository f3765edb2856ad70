----------------------- MODULE DocumentPipelineProofs -----------------------
(* Theorems about DocumentPipeline, for every number of requests, documents,  *)
(* parsers, faults and attempts, and about Chunking, for every document: the  *)
(* chunks are sound, the types, a complete chunk is in the graph, and the     *)
(* stores agree.                                                             *)
EXTENDS DocumentPipeline, CandidateGroupsProofs, SequenceTheorems

(***************************************************************************)
(* Chunking: the folds                                                     *)
(***************************************************************************)
\* The steps of a fold over the positions 1 .. n, and a function that takes them.
Steps(n, V, base, step) == n \in Nat /\ base \in V /\ step \in [1 .. n -> [V -> V]]

Takes(g, n, V, base, step) ==
    /\ g[{}] = base
    /\ \A s \in SUBSET (1 .. n) : s # {} /\ g[s \ {Max(s)}] \in V
          => g[s] = step[Max(s)][g[s \ {Max(s)}]]

Stepping(g, n, V, base, step) ==
    /\ g \in [SUBSET (1 .. n) -> V]
    /\ \A s \in SUBSET (1 .. n) : g[s] = IF s = {} THEN base ELSE step[Max(s)][g[s \ {Max(s)}]]

\* The last of some positions is one of them, and none is after it.
LEMMA HighestPosition ==
    ASSUME NEW n \in Nat, NEW s \in SUBSET (1 .. n), s # {}
    PROVE  Max(s) \in s /\ \A i \in s : i <= Max(s)
<1>1. s \subseteq 0 .. n
  OBVIOUS
<1>2. QED
  BY <1>1, MaxOfSet

\* There is a function that takes the steps.
LEMMA StepsTaken ==
    ASSUME NEW n, NEW V, NEW base, NEW step, Steps(n, V, base, step)
    PROVE  \E g : Stepping(g, n, V, base, step)
<1> DEFINE P == 1 .. n
           pick == [s \in SUBSET P |-> Max(s)]
           steps == [s \in SUBSET P |-> IF s = {} THEN [v \in V |-> v] ELSE step[Max(s)]]
<1>1. n \in Nat /\ base \in V /\ step \in [P -> [V -> V]] /\ IsFiniteSet(P)
  BY FS_Interval DEF Steps
<1>2. \A s \in SUBSET P : s # {} => Max(s) \in s
  BY <1>1, HighestPosition
<1> HIDE DEF P
<1>3. steps \in [SUBSET P -> [V -> V]] /\ \A s \in SUBSET P : s # {} => pick[s] \in s
  BY <1>1, <1>2
<1>4. PICK g : Folded(g, P, V, base, pick, steps)
  <2>1. Fold(P, V, base, pick, steps)
    BY <1>1, <1>3 DEF Fold
  <2> HIDE DEF pick, steps
  <2>2. QED
    BY <2>1, FoldDefined
<1>5. g \in [SUBSET P -> V]
  BY <1>4 DEF Folded
<1>6. \A s \in SUBSET P : g[s] = IF s = {} THEN base ELSE step[Max(s)][g[s \ {Max(s)}]]
  BY <1>4 DEF Folded
<1>7. QED
  BY <1>5, <1>6 DEF P, Stepping

\* A fold has a value after each position, made of the one before.
LEMMA StepByStep ==
    ASSUME NEW n, NEW V, NEW base, NEW step, Steps(n, V, base, step), NEW g, Takes(g, n, V, base, step)
    PROVE  /\ \A k \in 0 .. n : g[1 .. k] \in V
           /\ g[1 .. 0] = base
           /\ \A k \in 1 .. n : g[1 .. k] = step[k][g[1 .. (k - 1)]]
<1>1. n \in Nat /\ base \in V /\ step \in [1 .. n -> [V -> V]]
  BY DEF Steps
<1>2. 1 .. 0 = {}
  OBVIOUS
<1>3. ASSUME NEW k \in 1 .. n
      PROVE  1 .. k \in SUBSET (1 .. n) /\ 1 .. k # {} /\ Max(1 .. k) = k /\ (1 .. k) \ {k} = 1 .. (k - 1)
  <2>1. 1 .. k \in SUBSET (1 .. n) /\ k \in 1 .. k /\ (1 .. k) \ {k} = 1 .. (k - 1)
    BY <1>1
  <2>2. Max(1 .. k) = k
    <3>1. Max(1 .. k) \in 1 .. k /\ \A i \in 1 .. k : i <= Max(1 .. k)
      BY <1>1, <2>1, HighestPosition
    <3> HIDE DEF Max
    <3>2. QED
      BY <1>1, <2>1, <3>1
  <2>3. QED
    BY <2>1, <2>2
<1>4. ASSUME NEW k \in 1 .. n, g[1 .. (k - 1)] \in V
      PROVE  g[1 .. k] = step[k][g[1 .. (k - 1)]] /\ g[1 .. k] \in V
  <2>1. g[1 .. k] = step[k][g[1 .. (k - 1)]]
    BY <1>3, <1>4 DEF Takes
  <2>2. step[k] \in [V -> V]
    BY <1>1
  <2>3. QED
    BY <1>4, <2>1, <2>2
<1> DEFINE Bad == {k \in 0 .. n : g[1 .. k] \notin V}
<1>5. Bad = {}
  <2> SUFFICES ASSUME Bad # {} PROVE FALSE
    OBVIOUS
  <2>1. PICK k \in Bad : \A i \in Bad : k <= i
    <3>1. Bad \subseteq Nat
      BY <1>1
    <3> HIDE DEF Bad
    <3>2. QED
      BY <3>1, LeastNatural
  <2>2. k # 0
    BY <1>1, <1>2 DEF Takes
  <2>3. k \in 1 .. n /\ k - 1 \in 0 .. n /\ k - 1 \notin Bad
    BY <1>1, <2>1, <2>2
  <2>4. QED
    BY <1>4, <2>3
<1>6. \A k \in 0 .. n : g[1 .. k] \in V
  BY <1>5
<1>7. \A k \in 1 .. n : g[1 .. (k - 1)] \in V
  BY <1>1, <1>6
<1>8. QED
  BY <1>2, <1>4, <1>6, <1>7 DEF Takes

\* What a parser returns.
Elements(elements) == elements \in Seq(ParsedElement)

\* The fields of an element.
LEMMA ElementTypes ==
    ASSUME NEW elements, Elements(elements), NEW i \in DOMAIN elements
    PROVE  /\ elements[i].type \in Types /\ elements[i].size \in Nat
           /\ elements[i].page \in Nat \cup {NoPage}
           /\ DOMAIN elements = 1 .. Len(elements) /\ Len(elements) \in Nat
<1>1. elements[i] \in ParsedElement
  BY ElementOfSeq DEF Elements
<1>2. QED
  BY <1>1 DEF ParsedElement, Elements

\* The lengths of the text after each position of a group.
Lengths(elements, group, f) ==
    /\ \A k \in 0 .. Len(group) : f[k] \in Nat
    /\ f[0] = 0
    /\ \A k \in 1 .. Len(group) : f[k] = LengthWith(elements, f[k - 1], group[k])
    /\ TextLength(elements, group) = f[Len(group)]

\* An element only adds to a text, which is empty as long as no element has one.
LEMMA LengthWithTyped ==
    ASSUME NEW elements, Elements(elements), NEW i \in DOMAIN elements, NEW n \in Nat
    PROVE  /\ LengthWith(elements, n, i) \in Nat
           /\ n <= LengthWith(elements, n, i)
           /\ LengthWith(elements, n, i) = 0 <=> n = 0 /\ ~ HasText(elements[i])
BY ElementTypes DEF LengthWith, HasText, Separator

\* The fold of TextLength has a length after each position.
LEMMA LengthsDefined ==
    ASSUME NEW elements, Elements(elements), NEW group \in Seq(DOMAIN elements)
    PROVE  \E f : Lengths(elements, group, f)
<1> DEFINE n == Len(group)
           step == [i \in 1 .. n |-> [v \in Nat |-> LengthWith(elements, v, group[i])]]
<1>1. n \in Nat /\ DOMAIN group = 1 .. n /\ \A i \in 1 .. n : group[i] \in DOMAIN elements
  OBVIOUS
<1>2. \A i \in 1 .. n, v \in Nat : LengthWith(elements, v, group[i]) \in Nat
  BY <1>1, LengthWithTyped
<1> HIDE DEF n
<1>3. Steps(n, Nat, 0, step)
  BY <1>1, <1>2 DEF Steps
<1>4. PICK g : Stepping(g, n, Nat, 0, step)
  <2> HIDE DEF step
  <2>1. QED
    BY <1>3, StepsTaken
<1>5. g = [s \in SUBSET (1 .. n) |->
              IF s = {} THEN 0 ELSE LengthWith(elements, g[s \ {Max(s)}], group[Max(s)])]
  <2>1. ASSUME NEW s \in SUBSET (1 .. n)
        PROVE  g[s] = IF s = {} THEN 0 ELSE LengthWith(elements, g[s \ {Max(s)}], group[Max(s)])
    <3>1. s # {} => Max(s) \in 1 .. n /\ g[s \ {Max(s)}] \in Nat
      BY <1>1, <1>4, HighestPosition DEF Stepping
    <3>2. QED
      BY <1>4, <3>1 DEF Stepping
  <2> HIDE DEF step
  <2>2. QED
    BY <1>4, <2>1 DEF Stepping
<1> DEFINE iter == CHOOSE f : f = [s \in SUBSET (1 .. n) |->
              IF s = {} THEN 0 ELSE LengthWith(elements, f[s \ {Max(s)}], group[Max(s)])]
<1>6. TextLength(elements, group) = iter[1 .. n]
  BY <1>1 DEF TextLength, FoldLeft, MapThenFoldSet
<1>7. iter = [s \in SUBSET (1 .. n) |->
              IF s = {} THEN 0 ELSE LengthWith(elements, iter[s \ {Max(s)}], group[Max(s)])]
  BY <1>5
<1> HIDE DEF iter
<1>8. Takes(iter, n, Nat, 0, step)
  <2>1. iter[{}] = 0
    BY <1>7
  <2>2. ASSUME NEW s \in SUBSET (1 .. n), s # {}, iter[s \ {Max(s)}] \in Nat
        PROVE  iter[s] = step[Max(s)][iter[s \ {Max(s)}]]
    <3>1. Max(s) \in 1 .. n
      BY <1>1, <2>2, HighestPosition
    <3>2. iter[s] = LengthWith(elements, iter[s \ {Max(s)}], group[Max(s)])
      BY <1>7, <2>2
    <3>3. QED
      BY <2>2, <3>1, <3>2
  <2> HIDE DEF step
  <2>3. QED
    BY <2>1, <2>2 DEF Takes
<1> DEFINE f == [k \in 0 .. n |-> iter[1 .. k]]
<1>9. /\ \A k \in 0 .. n : iter[1 .. k] \in Nat
      /\ iter[1 .. 0] = 0
      /\ \A k \in 1 .. n : iter[1 .. k] = step[k][iter[1 .. (k - 1)]]
  <2> HIDE DEF step
  <2>1. QED
    BY <1>3, <1>8, StepByStep
<1>10. \A k \in 1 .. n : k - 1 \in 0 .. n
  BY <1>1
<1>11. Lengths(elements, group, f)
  <2>1. \A k \in 0 .. n : f[k] = iter[1 .. k]
    OBVIOUS
  <2>2. \A k \in 1 .. n : step[k][iter[1 .. (k - 1)]] = LengthWith(elements, iter[1 .. (k - 1)], group[k])
    BY <1>9, <1>10
  <2>3. 0 \in 0 .. n /\ n \in 0 .. n /\ \A k \in 1 .. n : k \in 0 .. n
    BY <1>1
  <2> HIDE DEF f, step
  <2>4. \A k \in 1 .. n : f[k] = LengthWith(elements, f[k - 1], group[k])
    BY <1>9, <1>10, <2>1, <2>2, <2>3
  <2>5. (\A k \in 0 .. n : f[k] \in Nat) /\ f[0] = 0 /\ TextLength(elements, group) = f[n]
    BY <1>6, <1>9, <2>1, <2>3
  <2>6. QED
    BY <2>4, <2>5 DEF Lengths, n
<1>12. QED
  BY <1>11

\* The text grows with each element.
LEMMA TextLengthGrows ==
    ASSUME NEW elements, Elements(elements), NEW group \in Seq(DOMAIN elements), NEW i \in DOMAIN elements
    PROVE  TextLength(elements, Append(group, i)) = LengthWith(elements, TextLength(elements, group), i)
<1> DEFINE more == Append(group, i)
           n == Len(group)
<1>1. n \in Nat /\ more \in Seq(DOMAIN elements) /\ Len(more) = n + 1
      /\ (\A k \in 1 .. n : more[k] = group[k]) /\ more[n + 1] = i
  OBVIOUS
<1>2. PICK f : Lengths(elements, group, f)
  BY LengthsDefined
<1>3. PICK h : Lengths(elements, more, h)
  BY <1>1, LengthsDefined
<1> HIDE DEF more, n
<1> DEFINE Bad == {k \in 0 .. n : f[k] # h[k]}
<1>4. Bad = {}
  <2> SUFFICES ASSUME Bad # {} PROVE FALSE
    OBVIOUS
  <2>1. PICK k \in Bad : \A l \in Bad : k <= l
    <3>1. Bad \subseteq Nat
      BY <1>1
    <3> HIDE DEF Bad
    <3>2. QED
      BY <3>1, LeastNatural
  <2>2. k # 0
    BY <1>2, <1>3 DEF Lengths
  <2>3. k \in 1 .. n /\ k \in 1 .. n + 1 /\ k - 1 \in 0 .. n /\ k - 1 \notin Bad
    BY <1>1, <2>1, <2>2
  <2>4. f[k] = LengthWith(elements, f[k - 1], group[k]) /\ h[k] = LengthWith(elements, h[k - 1], more[k])
    BY <1>1, <1>2, <1>3, <2>3 DEF Lengths, n
  <2>5. f[k] = h[k]
    BY <1>1, <2>3, <2>4
  <2>6. QED
    BY <2>1, <2>5
<1>5. f[n] = h[n]
  BY <1>1, <1>4
<1>6. h[n + 1] = LengthWith(elements, h[n], i)
  <2>1. n + 1 \in 1 .. Len(more) /\ (n + 1) - 1 = n
    BY <1>1
  <2>2. QED
    BY <1>1, <1>3, <2>1 DEF Lengths
<1>7. QED
  BY <1>1, <1>2, <1>3, <1>5, <1>6 DEF Lengths, n, more

\* The length of a text is a number.
LEMMA TextLengthTyped ==
    ASSUME NEW elements, Elements(elements), NEW group \in Seq(DOMAIN elements)
    PROVE  TextLength(elements, group) \in Nat
<1>1. PICK f : Lengths(elements, group, f)
  BY LengthsDefined
<1>2. Len(group) \in 0 .. Len(group)
  OBVIOUS
<1>3. QED
  BY <1>1, <1>2 DEF Lengths

\* A group without elements has no text.
LEMMA NoText ==
    ASSUME NEW elements, Elements(elements)
    PROVE  TextLength(elements, <<>>) = 0
<1>1. <<>> \in Seq(DOMAIN elements) /\ Len(<<>>) = 0
  OBVIOUS
<1>2. PICK f : Lengths(elements, <<>>, f)
  BY <1>1, LengthsDefined
<1>3. QED
  BY <1>1, <1>2 DEF Lengths

\* One position after another.
LEMMA AppendToOne ==
    ASSUME NEW S, NEW i \in S, NEW k \in S
    PROVE  Append(<<i>>, k) = <<i, k>>
<1>1. <<i>> \in Seq(S) /\ Len(<<i>>) = 1 /\ <<i>>[1] = i
      /\ <<i, k>> \in Seq(S) /\ Len(<<i, k>>) = 2 /\ <<i, k>>[1] = i /\ <<i, k>>[2] = k
  OBVIOUS
<1>2. Append(<<i>>, k) \in Seq(S) /\ Len(Append(<<i>>, k)) = 2
      /\ Append(<<i>>, k)[1] = i /\ Append(<<i>>, k)[2] = k
  BY <1>1, AppendProperties
<1>3. \A p \in 1 .. 2 : Append(<<i>>, k)[p] = <<i, k>>[p]
  BY <1>1, <1>2
<1>4. QED
  BY <1>1, <1>2, <1>3, SeqEqual

\* One element, or two.
LEMMA ShortTexts ==
    ASSUME NEW elements, Elements(elements), NEW i \in DOMAIN elements, NEW k \in DOMAIN elements
    PROVE  /\ TextLength(elements, <<i>>) = 0 <=> ~ HasText(elements[i])
           /\ TextLength(elements, <<i, k>>) = 0 <=> ~ HasText(elements[i]) /\ ~ HasText(elements[k])
<1>1. <<>> \in Seq(DOMAIN elements) /\ <<i>> \in Seq(DOMAIN elements)
      /\ Append(<<>>, i) = <<i>> /\ Append(<<i>>, k) = <<i, k>>
  <2>1. <<>> \in Seq(DOMAIN elements) /\ <<i>> \in Seq(DOMAIN elements)
    OBVIOUS
  <2>2. Append(<<>>, i) = <<i>>
    BY <2>1
  <2>3. Append(<<i>>, k) = <<i, k>>
    BY AppendToOne
  <2>4. QED
    BY <2>1, <2>2, <2>3
<1>2. TextLength(elements, <<i>>) = LengthWith(elements, 0, i)
  BY <1>1, NoText, TextLengthGrows
<1>3. TextLength(elements, <<i, k>>) = LengthWith(elements, TextLength(elements, <<i>>), k)
  BY <1>1, TextLengthGrows
<1>4. TextLength(elements, <<i>>) \in Nat
  BY <1>1, TextLengthTyped
<1>5. QED
  BY <1>2, <1>3, <1>4, LengthWithTyped

(***************************************************************************)
(* The types                                                               *)
(***************************************************************************)
ChunkSet(elements) ==
    [elements : Seq(DOMAIN elements), index : Nat, start : Nat \cup {NoPage}, end : Nat \cup {NoPage}]
Accs(elements) ==
    [chunks : Seq(ChunkSet(elements)), group : Seq(DOMAIN elements), image : Seq(DOMAIN elements)]

\* A finite set of numbers has a bound.
LEMMA FiniteHasBound ==
    ASSUME NEW S, IsFiniteSet(S), S \subseteq Nat
    PROVE  \E N \in Nat : S \subseteq 0 .. N
<1> DEFINE HasBound(s) == \E N \in Nat : s \subseteq 0 .. N
           Bad == {s \in SUBSET S : ~ HasBound(s)}
<1>1. ASSUME Bad # {} PROVE FALSE
  <2> HIDE DEF HasBound
  <2>1. Bad \subseteq SUBSET S
    OBVIOUS
  <2>2. PICK t \in Bad : \A u \in SUBSET t : u # t => u \notin Bad
    <3> HIDE DEF Bad
    <3>1. QED
      BY <1>1, <2>1, LeastSubset
  <2>3. t \in SUBSET S /\ ~ HasBound(t) /\ \A u \in SUBSET t : u # t => HasBound(u)
    BY <2>2
  <2> HIDE DEF Bad
  <2> USE DEF HasBound
  <2>4. t # {}
    <3>1. HasBound({})
      BY 0 \in Nat
    <3>2. QED
      BY <2>3, <3>1
  <2>5. PICK x \in t : TRUE
    BY <2>4
  <2>6. t \ {x} \in SUBSET t /\ t \ {x} # t /\ x \in Nat
    BY <2>3
  <2>7. PICK N \in Nat : t \ {x} \subseteq 0 .. N
    <3>1. HasBound(t \ {x})
      BY <2>3, <2>6
    <3>2. QED
      BY <3>1
  <2>8. PICK M \in Nat : M >= N /\ M >= x
    <3>1. CASE N >= x
      BY <2>6, <3>1
    <3>2. CASE ~ N >= x
      BY <2>6, <3>2
    <3>3. QED
      BY <3>1, <3>2
  <2>9. t \subseteq 0 .. M
    BY <2>6, <2>7, <2>8
  <2>10. QED
    BY <2>3, <2>8, <2>9
<1>2. HasBound(S)
  BY <1>1
<1>3. QED
  BY <1>2

\* The pages of a group are the pages of its elements.
LEMMA PagesTyped ==
    ASSUME NEW elements, Elements(elements), NEW group \in Seq(DOMAIN elements),
           Pages(elements, group) # {}
    PROVE  Min(Pages(elements, group)) \in Nat /\ Max(Pages(elements, group)) \in Nat
<1> DEFINE pages == Pages(elements, group)
           all == {elements[group[i]].page : i \in DOMAIN group}
           top == Max(pages)
<1>1. \A i \in DOMAIN group : group[i] \in DOMAIN elements
  OBVIOUS
<1>2. pages \subseteq Nat
  BY <1>1, ElementTypes DEF Pages
<1>3. IsFiniteSet(pages)
  <2>1. Len(group) \in Nat /\ DOMAIN group = 1 .. Len(group)
    OBVIOUS
  <2>2. IsFiniteSet(DOMAIN group)
    BY <2>1, FS_Interval
  <2> DEFINE page == [i \in DOMAIN group |-> elements[group[i]].page]
  <2>3. IsFiniteSet({elements[group[i]].page : i \in DOMAIN group})
    <3>1. page \in Surjection(DOMAIN group, {elements[group[i]].page : i \in DOMAIN group})
      BY DEF Surjection
    <3> HIDE DEF page
    <3>2. QED
      BY <2>2, <3>1, FS_Surjection
  <2>4. QED
    BY <2>3, FS_Subset DEF Pages
<1> HIDE DEF pages
<1>4. \E N \in Nat : pages \subseteq 0 .. N
  BY <1>2, <1>3, FiniteHasBound
<1>5. QED
  BY <1>2, <1>4, MinOfSet, MaxOfSet DEF pages

\* A group with a text becomes one more chunk, and one without is left alone.
LEMMA FlushTyped ==
    ASSUME NEW elements, Elements(elements), NEW chunks \in Seq(ChunkSet(elements)),
           NEW group \in Seq(DOMAIN elements)
    PROVE  /\ Flush(elements, chunks, group) \in Seq(ChunkSet(elements))
           /\ TextLength(elements, group) = 0 => Flush(elements, chunks, group) = chunks
           /\ TextLength(elements, group) # 0 =>
                 \E chunk \in ChunkSet(elements) :
                    /\ Flush(elements, chunks, group) = Append(chunks, chunk)
                    /\ chunk.elements = group /\ chunk.index = Len(chunks)
<1> DEFINE pages == Pages(elements, group)
           first == IF pages = {} THEN NoPage ELSE Min(pages)
           last == IF pages = {} THEN NoPage ELSE Max(pages)
           chunk == [elements |-> group, index |-> Len(chunks), start |-> first, end |-> last]
<1>1. first \in Nat \cup {NoPage} /\ last \in Nat \cup {NoPage}
  BY PagesTyped
<1>2. Flush(elements, chunks, group) =
         IF TextLength(elements, group) = 0 THEN chunks ELSE Append(chunks, chunk)
  BY DEF Flush
<1> HIDE DEF pages, first, last
<1>3. chunk \in ChunkSet(elements) /\ chunk.elements = group /\ chunk.index = Len(chunks)
  BY <1>1 DEF ChunkSet
<1> HIDE DEF chunk
<1>4. Append(chunks, chunk) \in Seq(ChunkSet(elements))
  BY <1>3
<1>5. QED
  BY <1>2, <1>3, <1>4

\* The accumulator with everything flushed, and what becomes of it.
LEMMA FlushAllIs ==
    ASSUME NEW elements, NEW acc
    PROVE  FlushAll(elements, acc) =
              [chunks |-> Flush(elements, Flush(elements, acc.chunks, acc.image), acc.group),
               group |-> <<>>, image |-> <<>>]
BY DEF FlushAll, Start

\* The accumulator is made of its three fields,
LEMMA AccFields ==
    ASSUME NEW elements, NEW acc \in Accs(elements)
    PROVE  /\ acc = [chunks |-> acc.chunks, group |-> acc.group, image |-> acc.image]
           /\ acc.chunks \in Seq(ChunkSet(elements)) /\ acc.group \in Seq(DOMAIN elements)
           /\ acc.image \in Seq(DOMAIN elements)
BY DEF Accs

\* and any three of their types make one.
LEMMA AccOf ==
    ASSUME NEW elements, NEW chunks \in Seq(ChunkSet(elements)), NEW group \in Seq(DOMAIN elements),
           NEW image \in Seq(DOMAIN elements)
    PROVE  /\ [chunks |-> chunks, group |-> group, image |-> image] \in Accs(elements)
           /\ [chunks |-> chunks, group |-> group, image |-> image].chunks = chunks
           /\ [chunks |-> chunks, group |-> group, image |-> image].group = group
           /\ [chunks |-> chunks, group |-> group, image |-> image].image = image
BY DEF Accs

\* Flushing everything keeps the types.
LEMMA FlushAllTyped ==
    ASSUME NEW elements, Elements(elements), NEW acc \in Accs(elements)
    PROVE  FlushAll(elements, acc) \in Accs(elements)
<1>1. Flush(elements, Flush(elements, acc.chunks, acc.image), acc.group) \in Seq(ChunkSet(elements))
  BY AccFields, FlushTyped
<1>2. <<>> \in Seq(DOMAIN elements)
  OBVIOUS
<1>3. QED
  BY <1>1, <1>2, FlushAllIs, AccOf

(***************************************************************************)
(* What holds of the chunks so far                                         *)
(***************************************************************************)
\* What must be in a chunk.
Wanted(e) == HasText(e) /\ ~ Skipped(e)

\* A group that may become a chunk.
Belongs(elements, group) ==
    /\ group \in Seq(DOMAIN elements) /\ group # <<>>
    /\ \A p \in DOMAIN group : ~ Skipped(elements[group[p]])
    /\ \A p, q \in DOMAIN group : p < q => group[p] < group[q]
    /\ Bounded(elements, group) /\ WithinLimits(elements, group)

\* Position i is in a chunk.
Placed(chunks, i) == \E c \in DOMAIN chunks : i \in Range(chunks[c].elements)

\* All that is in the chunks comes before position i.
Below(chunks, i) ==
    \A c \in DOMAIN chunks : \A p \in DOMAIN chunks[c].elements : chunks[c].elements[p] < i

\* The chunks follow the order of the document.
ChunksFollow(chunks) ==
    \A c, d \in DOMAIN chunks : c < d =>
        \A p \in DOMAIN chunks[c].elements, q \in DOMAIN chunks[d].elements :
            chunks[c].elements[p] < chunks[d].elements[q]

\* What is known of the chunks after each element.
ChunksRight(elements, chunks) ==
    /\ chunks \in Seq(ChunkSet(elements))
    /\ \A c \in DOMAIN chunks : Belongs(elements, chunks[c].elements) /\ chunks[c].index = c - 1
    /\ ChunksFollow(chunks)
    /\ Greedy(elements, chunks)

\* The elements of the last chunk.
LastGroup(chunks) == chunks[Len(chunks)].elements

\* The last chunk could not have taken the element at next.
Ready(elements, chunks, next) == chunks # <<>> => CannotTake(elements, LastGroup(chunks), next)

\* Nothing that comes after position n could have been taken.
Shut(elements, chunks, n) ==
    chunks # <<>> /\ Opens(elements[LastGroup(chunks)[1]]) =>
        \E i \in (LastGroup(chunks)[Len(LastGroup(chunks))] + 1) .. n : elements[i].type \in Breaks

\* What breaks a group never goes into the one before,
LEMMA BreakIsReady ==
    ASSUME NEW elements, NEW chunks, NEW next, elements[next].type \in Breaks
    PROVE  Ready(elements, chunks, next)
BY DEF Ready, CannotTake, Breaks, Accumulated

\* and what comes after it does not either.
LEMMA ShutIsReady ==
    ASSUME NEW elements, NEW chunks, NEW n \in Nat, Shut(elements, chunks, n)
    PROVE  Ready(elements, chunks, n + 1)
<1>1. (n + 1) - 1 = n
  OBVIOUS
<1>2. QED
  BY <1>1 DEF Ready, CannotTake, Shut

\* A group after the chunks becomes the last of them.
LEMMA ChunkAppended ==
    ASSUME NEW elements, Elements(elements), NEW chunks, ChunksRight(elements, chunks),
           NEW group, Belongs(elements, group), Below(chunks, group[1]),
           Ready(elements, chunks, group[1]), TextLength(elements, group) # 0
    PROVE  LET more == Flush(elements, chunks, group)
           IN  /\ ChunksRight(elements, more)
               /\ more # <<>> /\ LastGroup(more) = group
               /\ \A i : Placed(more, i) <=> Placed(chunks, i) \/ i \in Range(group)
               /\ \A m : Below(chunks, m) /\ (\A p \in DOMAIN group : group[p] < m) => Below(more, m)
<1> DEFINE more == Flush(elements, chunks, group)
           n == Len(chunks)
<1>1. chunks \in Seq(ChunkSet(elements)) /\ group \in Seq(DOMAIN elements) /\ group # <<>>
  BY DEF ChunksRight, Belongs
<1>2. PICK chunk \in ChunkSet(elements) :
         more = Append(chunks, chunk) /\ chunk.elements = group /\ chunk.index = n
  BY <1>1, FlushTyped
<1> HIDE DEF more
<1>3. /\ n \in Nat /\ DOMAIN chunks = 1 .. n /\ DOMAIN more = 1 .. (n + 1) /\ Len(more) = n + 1
      /\ more \in Seq(ChunkSet(elements))
      /\ \A c \in DOMAIN chunks : more[c] = chunks[c]
      /\ more[n + 1] = chunk
  BY <1>1, <1>2
<1>4. more # <<>> /\ LastGroup(more) = group
  BY <1>2, <1>3 DEF LastGroup
<1>5. \A c \in DOMAIN more : c \in DOMAIN chunks \/ c = n + 1
  BY <1>3
<1>6. \A c \in DOMAIN more : Belongs(elements, more[c].elements) /\ more[c].index = c - 1
  BY <1>2, <1>3, <1>5 DEF ChunksRight
<1>7. \A p \in DOMAIN group : group[1] <= group[p]
  <2>1. 1 \in DOMAIN group /\ DOMAIN group = 1 .. Len(group) /\ Len(group) \in Nat
        /\ DOMAIN elements \subseteq Nat
    BY <1>1 DEF Elements
  <2>2. \A p \in DOMAIN group : group[p] \in Nat
    BY <1>1, <2>1
  <2>3. QED
    BY <2>1, <2>2 DEF Belongs
<1>8. ChunksFollow(more)
  <2> SUFFICES ASSUME NEW c \in DOMAIN more, NEW d \in DOMAIN more, c < d,
                      NEW p \in DOMAIN more[c].elements, NEW q \in DOMAIN more[d].elements
               PROVE  more[c].elements[p] < more[d].elements[q]
    BY DEF ChunksFollow
  <2>1. c \in DOMAIN chunks
    BY <1>3, <1>5
  <2>2. CASE d \in DOMAIN chunks
    BY <1>3, <2>1, <2>2 DEF ChunksRight, ChunksFollow
  <2>3. CASE d = n + 1
    <3>1. more[c].elements[p] < group[1] /\ more[d].elements = group
      BY <1>2, <1>3, <2>1, <2>3 DEF Below
    <3>2. more[c].elements[p] \in Nat /\ group[1] \in Nat /\ group[q] \in Nat
      <4>1. more[c].elements \in Seq(DOMAIN elements)
        BY <1>6 DEF Belongs
      <4>2. DOMAIN elements \subseteq Nat
        BY DEF Elements
      <4>3. 1 \in DOMAIN group
        BY <1>1
      <4>4. QED
        BY <1>1, <3>1, <4>1, <4>2, <4>3
    <3>3. QED
      BY <1>7, <3>1, <3>2
  <2>4. QED
    BY <1>5, <2>2, <2>3
<1>9. Greedy(elements, more)
  <2> SUFFICES ASSUME NEW c \in DOMAIN more, c < Len(more)
               PROVE  CannotTake(elements, more[c].elements, more[c + 1].elements[1])
    BY DEF Greedy
  <2>1. CASE c < n
    <3>1. c \in DOMAIN chunks /\ c + 1 \in DOMAIN chunks /\ more[c] = chunks[c] /\ more[c + 1] = chunks[c + 1]
      BY <1>3, <2>1
    <3>2. QED
      BY <2>1, <3>1 DEF ChunksRight, Greedy
  <2>2. CASE c = n
    <3>1. chunks # <<>> /\ more[c] = chunks[n] /\ more[c + 1].elements = group
      BY <1>1, <1>2, <1>3, <2>2
    <3>2. QED
      BY <3>1 DEF Ready, LastGroup
  <2>3. QED
    BY <1>3, <2>1, <2>2
<1>10. ChunksRight(elements, more)
  BY <1>3, <1>6, <1>8, <1>9 DEF ChunksRight
<1>11. ASSUME NEW i PROVE Placed(more, i) <=> Placed(chunks, i) \/ i \in Range(group)
  <2>1. ASSUME Placed(more, i) PROVE Placed(chunks, i) \/ i \in Range(group)
    <3>1. PICK c \in DOMAIN more : i \in Range(more[c].elements)
      BY <2>1 DEF Placed
    <3>2. QED
      BY <1>2, <1>3, <1>5, <3>1 DEF Placed
  <2>2. ASSUME Placed(chunks, i) PROVE Placed(more, i)
    <3>1. PICK c \in DOMAIN chunks : i \in Range(chunks[c].elements)
      BY <2>2 DEF Placed
    <3>2. c \in DOMAIN more /\ more[c] = chunks[c]
      BY <1>3
    <3>3. QED
      BY <3>1, <3>2 DEF Placed
  <2>3. ASSUME i \in Range(group) PROVE Placed(more, i)
    <3>1. n + 1 \in DOMAIN more
      BY <1>3
    <3>2. QED
      BY <1>2, <1>3, <2>3, <3>1 DEF Placed
  <2>4. QED
    BY <2>1, <2>2, <2>3
<1>12. ASSUME NEW m, Below(chunks, m), \A p \in DOMAIN group : group[p] < m PROVE Below(more, m)
  BY <1>2, <1>3, <1>5, <1>12 DEF Below
<1>13. QED
  BY <1>4, <1>10, <1>11, <1>12 DEF more

(***************************************************************************)
(* Chunking: the groups                                                    *)
(***************************************************************************)
\* The group that elements are added to, after n elements.
Growing(elements, chunks, group, n) ==
    /\ Belongs(elements, group)
    /\ \A p \in DOMAIN group : group[p] <= n
    /\ \A p \in DOMAIN group : IF p = 1 THEN Opens(elements[group[p]]) ELSE Accumulated(elements[group[p]])
    /\ TextLength(elements, group) # 0
    /\ Below(chunks, group[1]) /\ Ready(elements, chunks, group[1])

\* What the loop has after the first n elements.
AccInv(elements, n, acc) ==
    /\ acc \in Accs(elements)
    /\ ChunksRight(elements, acc.chunks)
    /\ Below(acc.chunks, n + 1)
    /\ acc.image # <<>> =>
          /\ acc.group = <<>> /\ acc.image = <<n>>
          /\ n \in DOMAIN elements /\ elements[n].type = "image" /\ Below(acc.chunks, n)
    /\ acc.group # <<>> => Growing(elements, acc.chunks, acc.group, n)
    /\ acc.group = <<>> => Shut(elements, acc.chunks, n)
    /\ \A i \in 1 .. n : Wanted(elements[i]) =>
          Placed(acc.chunks, i) \/ i \in Range(acc.group) \/ i \in Range(acc.image)

\* One element by itself, or an image with its caption.
LEMMA OneBelongs ==
    ASSUME NEW elements, Elements(elements), NEW i \in DOMAIN elements, ~ Skipped(elements[i])
    PROVE  Belongs(elements, <<i>>)
<1>1. <<i>> \in Seq(DOMAIN elements) /\ <<i>> # <<>> /\ DOMAIN <<i>> = {1} /\ <<i>>[1] = i /\ Len(<<i>>) = 1
  OBVIOUS
<1>2. Bounded(elements, <<i>>) /\ WithinLimits(elements, <<i>>)
  BY <1>1 DEF Bounded, WithinLimits
<1>3. QED
  BY <1>1, <1>2 DEF Belongs

\* An image and the caption behind it may be a chunk.
LEMMA ImageBelongs ==
    ASSUME NEW elements, Elements(elements), NEW i \in DOMAIN elements, i + 1 \in DOMAIN elements,
           elements[i].type = "image", elements[i + 1].type = "caption"
    PROVE  Belongs(elements, <<i, i + 1>>)
<1> DEFINE group == <<i, i + 1>>
<1>1. group \in Seq(DOMAIN elements) /\ group # <<>> /\ DOMAIN group = {1, 2} /\ group[1] = i
      /\ group[2] = i + 1 /\ Len(group) = 2
  OBVIOUS
<1>2. i \in Nat
  BY DEF Elements
<1> HIDE DEF group
<1>3. Bounded(elements, group)
  BY <1>1 DEF Bounded
<1>4. WithinLimits(elements, group)
  BY <1>1 DEF WithinLimits
<1>5. \A p \in DOMAIN group : ~ Skipped(elements[group[p]])
  BY <1>1 DEF Skipped
<1>6. \A p, q \in DOMAIN group : p < q => group[p] < group[q]
  BY <1>1, <1>2
<1>7. QED
  BY <1>1, <1>3, <1>4, <1>5, <1>6 DEF Belongs, group

\* A group that begins.
LEMMA GroupBegins ==
    ASSUME NEW elements, Elements(elements), NEW i \in DOMAIN elements, NEW chunks,
           Opens(elements[i]), HasText(elements[i]), Below(chunks, i), Ready(elements, chunks, i)
    PROVE  Growing(elements, chunks, <<i>>, i)
<1>1. <<i>> \in Seq(DOMAIN elements) /\ DOMAIN <<i>> = {1} /\ <<i>>[1] = i /\ i \in Nat
  BY DEF Elements
<1>2. Belongs(elements, <<i>>)
  BY OneBelongs DEF Opens, Accumulated, Skipped
<1>3. TextLength(elements, <<i>>) # 0
  BY ShortTexts
<1>4. QED
  BY <1>1, <1>2, <1>3 DEF Growing

\* A group that takes one more element.
LEMMA GroupGrows ==
    ASSUME NEW elements, Elements(elements), NEW n \in Nat, n + 1 \in DOMAIN elements, NEW chunks,
           NEW group, Growing(elements, chunks, group, n),
           Accumulated(elements[n + 1]), ~ WouldExceedLimit(elements, group, n + 1)
    PROVE  Growing(elements, chunks, Append(group, n + 1), n + 1)
<1> DEFINE i == n + 1
           more == Append(group, i)
           m == Len(group)
<1>1. group \in Seq(DOMAIN elements) /\ group # <<>> /\ DOMAIN elements \subseteq Nat
  BY DEF Growing, Belongs, Elements
<1>2. /\ m \in Nat \ {0} /\ DOMAIN group = 1 .. m /\ more \in Seq(DOMAIN elements) /\ Len(more) = m + 1
      /\ DOMAIN more = 1 .. (m + 1) /\ more # <<>>
      /\ \A p \in DOMAIN group : more[p] = group[p]
      /\ more[m + 1] = i
  BY <1>1
<1>3. \A p \in DOMAIN more : p \in DOMAIN group \/ p = m + 1
  BY <1>2
<1>4. \A p \in DOMAIN group : group[p] \in Nat /\ group[p] < i
  BY <1>1 DEF Growing
<1>5. \A p \in DOMAIN more : IF p = 1 THEN Opens(elements[more[p]]) ELSE Accumulated(elements[more[p]])
  BY <1>2, <1>3 DEF Growing
<1> HIDE DEF more, m
<1>6. \A p \in DOMAIN more : ~ Skipped(elements[more[p]])
  BY <1>5 DEF Opens, Accumulated, Skipped
<1>7. \A p, q \in DOMAIN more : p < q => more[p] < more[q]
  <2> SUFFICES ASSUME NEW p \in DOMAIN more, NEW q \in DOMAIN more, p < q PROVE more[p] < more[q]
    OBVIOUS
  <2>1. p \in DOMAIN group
    BY <1>2, <1>3
  <2>2. QED
    BY <1>2, <1>3, <1>4, <2>1 DEF Growing, Belongs
<1>8. Bounded(elements, more)
  <2>1. \A p \in DOMAIN more : elements[more[p]].type \notin {"table", "image"}
                              /\ (elements[more[p]].type = "heading" => p = 1)
    BY <1>5 DEF Opens, Accumulated
  <2>2. QED
    BY <2>1 DEF Bounded
<1>9. TextLength(elements, more) \in Nat /\ ~ (TextLength(elements, more) > MaxChars)
      /\ ~ (TextLength(elements, more) \div CharsPerToken > MaxTokens)
  BY <1>2, TextLengthTyped DEF WouldExceedLimit, more
<1>10. WithinLimits(elements, more)
  <2>1. TextLength(elements, more) \div CharsPerToken \in Int
    BY <1>9, ChunkingAssumption
  <2>2. QED
    BY <1>9, <2>1, ChunkingAssumption DEF WithinLimits
<1>11. TextLength(elements, more) # 0
  <2>1. TextLength(elements, more) = LengthWith(elements, TextLength(elements, group), i)
    BY <1>1, TextLengthGrows DEF more
  <2>2. QED
    BY <1>1, <2>1, TextLengthTyped, LengthWithTyped DEF Growing
<1>12. more[1] = group[1]
  BY <1>2
<1>13. \A p \in DOMAIN more : more[p] <= i
  BY <1>2, <1>3, <1>4
<1>14. QED
  BY <1>2, <1>5, <1>6, <1>7, <1>8, <1>10, <1>11, <1>12, <1>13 DEF Growing, Belongs, more

\* With its group and its image flushed, an accumulator after n elements.
Cleared(elements, n, acc) ==
    /\ acc \in Accs(elements) /\ acc.group = <<>> /\ acc.image = <<>>
    /\ ChunksRight(elements, acc.chunks)
    /\ Below(acc.chunks, n + 1)
    /\ \A i \in 1 .. n : Wanted(elements[i]) => Placed(acc.chunks, i)

\* Flushing the group puts all that is wanted so far into chunks.
LEMMA GroupFlushed ==
    ASSUME NEW elements, Elements(elements), NEW n \in Nat, NEW acc, AccInv(elements, n, acc), acc.image = <<>>
    PROVE  LET flushed == FlushAll(elements, acc)
           IN  /\ Cleared(elements, n, flushed)
               /\ acc.group = <<>> => flushed = acc
               /\ acc.group # <<>> => flushed.chunks # <<>> /\ LastGroup(flushed.chunks) = acc.group
<1> DEFINE flushed == FlushAll(elements, acc)
           group == acc.group
<1>1. acc = [chunks |-> acc.chunks, group |-> group, image |-> <<>>]
      /\ acc.chunks \in Seq(ChunkSet(elements)) /\ group \in Seq(DOMAIN elements)
  BY AccFields DEF AccInv
<1>2. flushed = [chunks |-> Flush(elements, acc.chunks, group), group |-> <<>>, image |-> <<>>]
  <2>1. Flush(elements, acc.chunks, <<>>) = acc.chunks
    BY NoText DEF Flush
  <2>2. QED
    BY <2>1, FlushAllIs DEF AccInv
<1>3. flushed \in Accs(elements)
  BY FlushAllTyped DEF AccInv
<1>4. flushed.chunks = Flush(elements, acc.chunks, group) /\ flushed.group = <<>> /\ flushed.image = <<>>
  BY <1>2
<1> HIDE DEF flushed
<1>5. Range(<<>>) = {}
  BY DEF Range
<1>6. CASE group = <<>>
  <2>1. Flush(elements, acc.chunks, group) = acc.chunks
    BY <1>6, NoText DEF Flush
  <2>2. flushed = acc
    BY <1>1, <1>2, <1>6, <2>1
  <2>3. QED
    BY <1>3, <1>4, <1>5, <1>6, <2>1, <2>2 DEF AccInv, Cleared, flushed
<1>7. CASE group # <<>>
  <2>1. Growing(elements, acc.chunks, group, n) /\ ChunksRight(elements, acc.chunks) /\ Below(acc.chunks, n + 1)
    BY <1>7 DEF AccInv
  <2> DEFINE more == Flush(elements, acc.chunks, group)
  <2>2. /\ ChunksRight(elements, more)
        /\ more # <<>> /\ LastGroup(more) = group
        /\ \A i : Placed(more, i) <=> Placed(acc.chunks, i) \/ i \in Range(group)
        /\ \A m : Below(acc.chunks, m) /\ (\A p \in DOMAIN group : group[p] < m) => Below(more, m)
    BY <2>1, ChunkAppended DEF Growing
  <2>3. \A p \in DOMAIN group : group[p] < n + 1
    <3>1. \A p \in DOMAIN group : group[p] \in Nat
      BY <1>1 DEF Elements
    <3>2. QED
      BY <2>1, <3>1 DEF Growing
  <2> HIDE DEF more, group
  <2>4. Below(more, n + 1)
    BY <2>1, <2>2, <2>3
  <2>5. \A i \in 1 .. n : Wanted(elements[i]) => Placed(more, i)
    BY <1>5, <2>2 DEF AccInv, group
  <2>6. QED
    BY <1>3, <1>4, <1>7, <2>2, <2>4, <2>5 DEF Cleared, more, group, flushed
<1>8. QED
  BY <1>6, <1>7

\* A table, or an image, is flushed by itself, or is dropped when it has no text.
LEMMA StandsAlone ==
    ASSUME NEW elements, Elements(elements), NEW n \in Nat, NEW chunks, ChunksRight(elements, chunks),
           NEW group, Belongs(elements, group), Below(chunks, group[1]),
           elements[group[1]].type \in {"table", "image"},
           \A p \in DOMAIN group : group[p] <= n,
           TextLength(elements, group) = 0 => \A p \in DOMAIN group : ~ HasText(elements[group[p]]),
           \A i \in 1 .. n : Wanted(elements[i]) => Placed(chunks, i) \/ i \in Range(group)
    PROVE  AccInv(elements, n, [chunks |-> Flush(elements, chunks, group), group |-> <<>>, image |-> <<>>])
<1> DEFINE more == Flush(elements, chunks, group)
           acc == [chunks |-> more, group |-> <<>>, image |-> <<>>]
           g == group[1]
<1>1. chunks \in Seq(ChunkSet(elements)) /\ group \in Seq(DOMAIN elements) /\ group # <<>>
      /\ DOMAIN elements \subseteq Nat \ {0}
  BY DEF ChunksRight, Belongs, Elements
<1>2. 1 \in DOMAIN group /\ g \in DOMAIN elements /\ g \in Nat \ {0} /\ g <= n
  BY <1>1
<1>3. more \in Seq(ChunkSet(elements))
  BY <1>1, FlushTyped
<1>4. acc \in Accs(elements) /\ acc.chunks = more /\ acc.group = <<>> /\ acc.image = <<>>
  <2>1. <<>> \in Seq(DOMAIN elements)
    OBVIOUS
  <2> HIDE DEF more
  <2>2. QED
    BY <1>3, <2>1, AccOf
<1>5. Below(chunks, n + 1)
  <2> SUFFICES ASSUME NEW c \in DOMAIN chunks, NEW p \in DOMAIN chunks[c].elements
               PROVE  chunks[c].elements[p] < n + 1
    BY DEF Below
  <2>1. chunks[c].elements[p] < g
    BY DEF Below
  <2>2. chunks[c].elements[p] \in Nat
    <3>1. chunks[c].elements \in Seq(DOMAIN elements)
      BY DEF ChunksRight, Belongs
    <3>2. QED
      BY <1>1, <3>1
  <2>3. QED
    BY <1>2, <2>1, <2>2
<1>6. \A p \in DOMAIN group : group[p] < n + 1
  BY <1>1
<1>7. Ready(elements, chunks, g)
  BY BreakIsReady DEF Breaks
<1>8. CASE TextLength(elements, group) = 0
  <2>1. more = chunks
    BY <1>1, <1>8, FlushTyped
  <2>2. Shut(elements, chunks, n)
    <3> SUFFICES ASSUME chunks # <<>>
                 PROVE  \E i \in (LastGroup(chunks)[Len(LastGroup(chunks))] + 1) .. n :
                           elements[i].type \in Breaks
      BY DEF Shut
    <3> DEFINE c == Len(chunks)
               last == LastGroup(chunks)
    <3>1. c \in DOMAIN chunks /\ last = chunks[c].elements
      BY <1>1 DEF LastGroup
    <3>2. last \in Seq(DOMAIN elements) /\ last # <<>>
      BY <3>1 DEF ChunksRight, Belongs
    <3>3. Len(last) \in DOMAIN last /\ last[Len(last)] \in Nat
      BY <1>1, <3>2
    <3>4. last[Len(last)] < g
      BY <3>1, <3>3 DEF Below
    <3>5. g \in (last[Len(last)] + 1) .. n
      BY <1>2, <3>3, <3>4
    <3>6. QED
      BY <3>5 DEF Breaks
  <2>3. \A i \in 1 .. n : Wanted(elements[i]) => Placed(chunks, i)
    <3>1. \A i \in Range(group) : ~ HasText(elements[i])
      BY <1>8 DEF Range
    <3>2. QED
      BY <3>1 DEF Wanted
  <2> HIDE DEF acc, more
  <2>4. QED
    BY <1>4, <1>5, <2>1, <2>2, <2>3 DEF AccInv, acc, more
<1>9. CASE TextLength(elements, group) # 0
  <2>1. /\ ChunksRight(elements, more)
        /\ more # <<>> /\ LastGroup(more) = group
        /\ \A i : Placed(more, i) <=> Placed(chunks, i) \/ i \in Range(group)
        /\ \A m : Below(chunks, m) /\ (\A p \in DOMAIN group : group[p] < m) => Below(more, m)
    BY <1>7, <1>9, ChunkAppended
  <2> HIDE DEF acc, more
  <2>2. Below(more, n + 1)
    BY <1>5, <1>6, <2>1
  <2>3. Shut(elements, more, n)
    BY <2>1 DEF Shut, Opens, Accumulated
  <2>4. \A i \in 1 .. n : Wanted(elements[i]) => Placed(more, i)
    BY <2>1
  <2>5. QED
    BY <1>4, <2>1, <2>2, <2>3, <2>4 DEF AccInv, acc, more
<1>10. QED
  BY <1>8, <1>9

\* An image without a caption.
LEMMA ImageFlushed ==
    ASSUME NEW elements, Elements(elements), NEW n \in Nat, NEW acc, AccInv(elements, n, acc), acc.image # <<>>
    PROVE  LET flushed == FlushAll(elements, acc)
           IN  AccInv(elements, n, flushed) /\ flushed.group = <<>> /\ flushed.image = <<>>
<1>1. /\ acc.group = <<>> /\ acc.image = <<n>> /\ n \in DOMAIN elements /\ elements[n].type = "image"
      /\ Below(acc.chunks, n) /\ ChunksRight(elements, acc.chunks)
  BY DEF AccInv
<1> DEFINE more == Flush(elements, acc.chunks, <<n>>)
           flushed == [chunks |-> more, group |-> <<>>, image |-> <<>>]
<1>2. FlushAll(elements, acc) = flushed
  <2>1. Flush(elements, more, <<>>) = more
    BY NoText DEF Flush
  <2> HIDE DEF more
  <2>2. QED
    BY <1>1, <2>1, FlushAllIs DEF more
<1>3. <<n>>[1] = n /\ DOMAIN <<n>> = {1} /\ Range(<<n>>) = {n} /\ Range(<<>>) = {}
  BY DEF Range
<1>4. Belongs(elements, <<n>>)
  BY <1>1, OneBelongs DEF Skipped
<1>5. TextLength(elements, <<n>>) = 0 => ~ HasText(elements[n])
  BY <1>1, ShortTexts
<1>6. \A i \in 1 .. n : Wanted(elements[i]) => Placed(acc.chunks, i) \/ i \in Range(<<n>>)
  BY <1>1, <1>3 DEF AccInv
<1>7. AccInv(elements, n, flushed)
  BY <1>1, <1>3, <1>4, <1>5, <1>6, StandsAlone
<1>8. flushed.group = <<>> /\ flushed.image = <<>>
  OBVIOUS
<1>9. QED
  BY <1>2, <1>7, <1>8

\* An image and its caption.
LEMMA CaptionTaken ==
    ASSUME NEW elements, Elements(elements), NEW n \in Nat, NEW acc, AccInv(elements, n, acc),
           acc.image # <<>>, n + 1 \in DOMAIN elements, elements[n + 1].type = "caption"
    PROVE  AccInv(elements, n + 1, Element(elements, acc, n + 1))
<1>1. /\ acc.group = <<>> /\ acc.image = <<n>> /\ n \in DOMAIN elements /\ elements[n].type = "image"
      /\ Below(acc.chunks, n) /\ ChunksRight(elements, acc.chunks)
  BY DEF AccInv
<1> DEFINE group == <<n, n + 1>>
<1>2. Append(<<n>>, n + 1) = group
  BY <1>1, AppendToOne
<1>3. Element(elements, acc, n + 1) =
         [chunks |-> Flush(elements, acc.chunks, group), group |-> <<>>, image |-> <<>>]
  BY <1>1, <1>2 DEF Element, Start
<1>4. group[1] = n /\ group[2] = n + 1 /\ DOMAIN group = {1, 2} /\ Range(group) = {n, n + 1} /\ Range(<<>>) = {}
  BY DEF Range
<1>5. Belongs(elements, group)
  BY <1>1, ImageBelongs
<1>6. TextLength(elements, group) = 0 => ~ HasText(elements[n]) /\ ~ HasText(elements[n + 1])
  BY <1>1, ShortTexts
<1> HIDE DEF group
<1>7. \A i \in 1 .. (n + 1) : Wanted(elements[i]) => Placed(acc.chunks, i) \/ i \in Range(group)
  <2>1. \A i \in 1 .. n : Wanted(elements[i]) => Placed(acc.chunks, i) \/ i = n
    BY <1>1, <1>4 DEF AccInv, Range
  <2>2. \A i \in 1 .. (n + 1) : i \in 1 .. n \/ i = n + 1
    OBVIOUS
  <2>3. QED
    BY <1>4, <2>1, <2>2
<1>8. \A p \in DOMAIN group : group[p] <= n + 1
  BY <1>4
<1>9. TextLength(elements, group) = 0 => \A p \in DOMAIN group : ~ HasText(elements[group[p]])
  BY <1>4, <1>6
<1>10. QED
  BY <1>1, <1>3, <1>4, <1>5, <1>7, <1>8, <1>9, StandsAlone

(***************************************************************************)
(* Chunking: each element                                                  *)
(***************************************************************************)
\* The next element, when no image waits for a caption.
Taking(elements, acc, i) ==
    LET e == elements[i]
        flushed == FlushAll(elements, acc)
    IN  CASE e.type = "table" -> [flushed EXCEPT !.chunks = Flush(elements, @, <<i>>)]
          [] e.type = "image" -> [flushed EXCEPT !.image = <<i>>]
          [] e.type = "heading" ->
                IF HasText(e) THEN [flushed EXCEPT !.group = <<i>>] ELSE flushed
          [] Accumulated(e) /\ HasText(e) ->
                IF acc.group # <<>> /\ WouldExceedLimit(elements, acc.group, i)
                THEN [flushed EXCEPT !.group = <<i>>]
                ELSE [acc EXCEPT !.group = Append(@, i)]
          [] OTHER -> acc

\* An image that gets no caption is flushed before the next element is taken.
LEMMA ElementIs ==
    ASSUME NEW elements, NEW acc, NEW i, ~ (acc.image # <<>> /\ elements[i].type = "caption")
    PROVE  Element(elements, acc, i) =
              Taking(elements, IF acc.image # <<>> THEN FlushAll(elements, acc) ELSE acc, i)
BY DEF Element, Taking

\* Chunks that end before a position end before the next.
LEMMA BelowMore ==
    ASSUME NEW elements, Elements(elements), NEW chunks, ChunksRight(elements, chunks),
           NEW m \in Nat, Below(chunks, m)
    PROVE  Below(chunks, m + 1)
<1> SUFFICES ASSUME NEW c \in DOMAIN chunks, NEW p \in DOMAIN chunks[c].elements
             PROVE  chunks[c].elements[p] < m + 1
  BY DEF Below
<1>1. chunks[c].elements \in Seq(DOMAIN elements) /\ DOMAIN elements \subseteq Nat
  BY DEF ChunksRight, Belongs, Elements
<1>2. chunks[c].elements[p] \in Nat
  BY <1>1
<1>3. QED
  BY <1>2 DEF Below

\* A group begins, behind chunks that could not take its first element.
LEMMA BeginsKeeps ==
    ASSUME NEW elements, Elements(elements), NEW n \in Nat, n + 1 \in DOMAIN elements,
           NEW acc, Cleared(elements, n, acc),
           Opens(elements[n + 1]), HasText(elements[n + 1]), Ready(elements, acc.chunks, n + 1)
    PROVE  AccInv(elements, n + 1, [acc EXCEPT !.group = <<n + 1>>])
<1> DEFINE r == [acc EXCEPT !.group = <<n + 1>>]
<1>1. acc = [chunks |-> acc.chunks, group |-> <<>>, image |-> <<>>]
      /\ acc.chunks \in Seq(ChunkSet(elements))
  BY AccFields DEF Cleared
<1>2. r = [chunks |-> acc.chunks, group |-> <<n + 1>>, image |-> <<>>]
  BY <1>1
<1> DEFINE one == <<n + 1>>
           none == <<>>
<1>3. r \in Accs(elements) /\ r.chunks = acc.chunks /\ r.group = <<n + 1>> /\ r.image = <<>>
  <2>1. one \in Seq(DOMAIN elements) /\ none \in Seq(DOMAIN elements)
    OBVIOUS
  <2> HIDE DEF one, none
  <2>2. LET x == [chunks |-> acc.chunks, group |-> one, image |-> none]
        IN  x \in Accs(elements) /\ x.chunks = acc.chunks /\ x.group = one /\ x.image = none
    BY <1>1, <2>1, AccOf
  <2> USE DEF one, none
  <2> HIDE DEF r
  <2>3. QED
    BY <1>2, <2>2
<1>4. Below(acc.chunks, n + 1)
  BY DEF Cleared
<1>5. Growing(elements, acc.chunks, <<n + 1>>, n + 1)
  BY <1>4, GroupBegins
<1>6. Below(acc.chunks, n + 1 + 1)
  BY BelowMore DEF Cleared
<1>7. Range(<<n + 1>>) = {n + 1} /\ Range(<<>>) = {} /\ <<n + 1>> # <<>>
  BY DEF Range
<1>8. \A i \in 1 .. (n + 1) : Wanted(elements[i]) => Placed(acc.chunks, i) \/ i = n + 1
  <2>1. \A i \in 1 .. (n + 1) : i \in 1 .. n \/ i = n + 1
    OBVIOUS
  <2>2. QED
    BY <2>1 DEF Cleared
<1> HIDE DEF r
<1>9. QED
  BY <1>3, <1>5, <1>6, <1>7, <1>8 DEF AccInv, Cleared, r

\* A break that leaves nothing behind: a table or a heading without text, or an image
\* that waits for its caption.
LEMMA BreakShuts ==
    ASSUME NEW elements, Elements(elements), NEW n \in Nat, n + 1 \in DOMAIN elements,
           elements[n + 1].type \in Breaks, NEW chunks, ChunksRight(elements, chunks), Below(chunks, n + 1)
    PROVE  Shut(elements, chunks, n + 1)
<1> SUFFICES ASSUME chunks # <<>>
             PROVE  \E i \in (LastGroup(chunks)[Len(LastGroup(chunks))] + 1) .. (n + 1) :
                       elements[i].type \in Breaks
  BY DEF Shut
<1> DEFINE last == LastGroup(chunks)
<1>1. Len(chunks) \in DOMAIN chunks /\ last = chunks[Len(chunks)].elements
  BY DEF LastGroup, ChunksRight
<1>2. last \in Seq(DOMAIN elements) /\ last # <<>> /\ DOMAIN elements \subseteq Nat
  BY <1>1 DEF ChunksRight, Belongs, Elements
<1>3. Len(last) \in DOMAIN last /\ last[Len(last)] \in Nat
  BY <1>2
<1>4. last[Len(last)] < n + 1
  BY <1>1, <1>3 DEF Below
<1>5. n + 1 \in (last[Len(last)] + 1) .. (n + 1)
  BY <1>3, <1>4
<1>6. QED
  BY <1>5

\* An image waits for its caption.
LEMMA ImageKeeps ==
    ASSUME NEW elements, Elements(elements), NEW n \in Nat, n + 1 \in DOMAIN elements,
           NEW acc, Cleared(elements, n, acc), elements[n + 1].type = "image"
    PROVE  AccInv(elements, n + 1, [acc EXCEPT !.image = <<n + 1>>])
<1> DEFINE r == [acc EXCEPT !.image = <<n + 1>>]
<1>1. acc = [chunks |-> acc.chunks, group |-> <<>>, image |-> <<>>]
      /\ acc.chunks \in Seq(ChunkSet(elements))
  BY AccFields DEF Cleared
<1>2. r = [chunks |-> acc.chunks, group |-> <<>>, image |-> <<n + 1>>]
  BY <1>1
<1> DEFINE one == <<n + 1>>
           none == <<>>
<1>3. r \in Accs(elements) /\ r.chunks = acc.chunks /\ r.group = <<>> /\ r.image = <<n + 1>>
  <2>1. one \in Seq(DOMAIN elements) /\ none \in Seq(DOMAIN elements)
    OBVIOUS
  <2> HIDE DEF one, none
  <2>2. LET x == [chunks |-> acc.chunks, group |-> none, image |-> one]
        IN  x \in Accs(elements) /\ x.chunks = acc.chunks /\ x.group = none /\ x.image = one
    BY <1>1, <2>1, AccOf
  <2> USE DEF one, none
  <2> HIDE DEF r
  <2>3. QED
    BY <1>2, <2>2
<1>4. Shut(elements, acc.chunks, n + 1)
  BY BreakShuts DEF Cleared, Breaks
<1>5. Below(acc.chunks, n + 1 + 1)
  BY BelowMore DEF Cleared
<1>6. Range(<<n + 1>>) = {n + 1} /\ Range(<<>>) = {}
  BY DEF Range
<1>7. \A i \in 1 .. (n + 1) : Wanted(elements[i]) => Placed(acc.chunks, i) \/ i = n + 1
  <2>1. \A i \in 1 .. (n + 1) : i \in 1 .. n \/ i = n + 1
    OBVIOUS
  <2>2. QED
    BY <2>1 DEF Cleared
<1> HIDE DEF r
<1>8. QED
  BY <1>3, <1>4, <1>5, <1>6, <1>7 DEF AccInv, Cleared, r

\* A table.
LEMMA TableKeeps ==
    ASSUME NEW elements, Elements(elements), NEW n \in Nat, n + 1 \in DOMAIN elements,
           NEW acc, Cleared(elements, n, acc), elements[n + 1].type = "table"
    PROVE  AccInv(elements, n + 1, [acc EXCEPT !.chunks = Flush(elements, @, <<n + 1>>)])
<1> DEFINE i == n + 1
           group == <<i>>
<1>1. acc = [chunks |-> acc.chunks, group |-> <<>>, image |-> <<>>]
  BY AccFields DEF Cleared
<1>2. [acc EXCEPT !.chunks = Flush(elements, @, group)] =
         [chunks |-> Flush(elements, acc.chunks, group), group |-> <<>>, image |-> <<>>]
  BY <1>1
<1>3. group[1] = i /\ DOMAIN group = {1} /\ Range(group) = {i}
  BY DEF Range
<1>4. Belongs(elements, group)
  BY OneBelongs DEF Skipped
<1>5. TextLength(elements, group) = 0 => ~ HasText(elements[i])
  BY ShortTexts
<1> HIDE DEF group
<1>6. \A k \in 1 .. i : Wanted(elements[k]) => Placed(acc.chunks, k) \/ k \in Range(group)
  <2>1. \A k \in 1 .. i : k \in 1 .. n \/ k = i
    OBVIOUS
  <2>2. QED
    BY <1>3, <2>1 DEF Cleared
<1>7. AccInv(elements, i, [chunks |-> Flush(elements, acc.chunks, group), group |-> <<>>, image |-> <<>>])
  BY <1>3, <1>4, <1>5, <1>6, StandsAlone DEF Cleared
<1>8. QED
  BY <1>2, <1>7 DEF group

\* A heading without text.
LEMMA BlankHeadingKeeps ==
    ASSUME NEW elements, Elements(elements), NEW n \in Nat, n + 1 \in DOMAIN elements,
           NEW acc, Cleared(elements, n, acc), elements[n + 1].type = "heading", ~ HasText(elements[n + 1])
    PROVE  AccInv(elements, n + 1, acc)
<1>1. Shut(elements, acc.chunks, n + 1)
  BY BreakShuts DEF Cleared, Breaks
<1>2. Below(acc.chunks, n + 1 + 1)
  BY BelowMore DEF Cleared
<1>3. \A i \in 1 .. (n + 1) : Wanted(elements[i]) => Placed(acc.chunks, i)
  <2>1. \A i \in 1 .. (n + 1) : i \in 1 .. n \/ i = n + 1
    OBVIOUS
  <2>2. QED
    BY <2>1 DEF Cleared, Wanted
<1>4. QED
  BY <1>1, <1>2, <1>3 DEF AccInv, Cleared

\* An element that leaves everything as it is.
LEMMA NothingKeeps ==
    ASSUME NEW elements, Elements(elements), NEW n \in Nat, n + 1 \in DOMAIN elements,
           NEW acc, AccInv(elements, n, acc), acc.image = <<>>, ~ Wanted(elements[n + 1])
    PROVE  AccInv(elements, n + 1, acc)
<1>1. Below(acc.chunks, n + 1 + 1)
  BY BelowMore DEF AccInv
<1>2. \A i \in 1 .. (n + 1) : Wanted(elements[i]) => i \in 1 .. n
  OBVIOUS
<1>3. acc.group # <<>> => Growing(elements, acc.chunks, acc.group, n + 1)
  <2>1. ASSUME acc.group # <<>> PROVE \A p \in DOMAIN acc.group : acc.group[p] <= n + 1
    <3>1. acc.group \in Seq(DOMAIN elements) /\ DOMAIN elements \subseteq Nat
      BY AccFields DEF AccInv, Elements
    <3>2. QED
      BY <2>1, <3>1 DEF AccInv, Growing
  <2>2. QED
    BY <2>1 DEF AccInv, Growing
<1>4. acc.group = <<>> => Shut(elements, acc.chunks, n + 1)
  <2> SUFFICES ASSUME Shut(elements, acc.chunks, n), acc.chunks # <<>>
               PROVE  Shut(elements, acc.chunks, n + 1)
    BY DEF AccInv, Shut
  <2> DEFINE last == LastGroup(acc.chunks)
             l == last[Len(last)] + 1
  <2>1. l \in Int
    <3>1. Len(acc.chunks) \in DOMAIN acc.chunks /\ last = acc.chunks[Len(acc.chunks)].elements
      BY DEF LastGroup, AccInv, ChunksRight
    <3>2. last \in Seq(DOMAIN elements) /\ last # <<>> /\ DOMAIN elements \subseteq Nat
      BY <3>1 DEF AccInv, ChunksRight, Belongs, Elements
    <3>3. last[Len(last)] \in Nat
      BY <3>2
    <3>4. QED
      BY <3>3
  <2> HIDE DEF l
  <2>2. l .. n \subseteq l .. (n + 1)
    BY <2>1
  <2>3. QED
    BY <2>2 DEF Shut, l
<1>5. QED
  BY <1>1, <1>2, <1>3, <1>4 DEF AccInv

\* An element more, and no other.
LEMMA AppendRange ==
    ASSUME NEW S, NEW s \in Seq(S), NEW x \in S
    PROVE  /\ Append(s, x) \in Seq(S) /\ Append(s, x) # <<>>
           /\ \A i : i \in Range(Append(s, x)) <=> i \in Range(s) \/ i = x
<1> DEFINE t == Append(s, x)
           n == Len(s)
<1>1. /\ n \in Nat /\ DOMAIN s = 1 .. n /\ DOMAIN t = 1 .. (n + 1) /\ t \in Seq(S) /\ t # <<>>
      /\ t[n + 1] = x /\ \A k \in 1 .. n : t[k] = s[k]
  OBVIOUS
<1> HIDE DEF t, n
<1>2. \A k \in DOMAIN t : k \in DOMAIN s \/ k = n + 1
  BY <1>1
<1>3. DOMAIN s \subseteq DOMAIN t /\ n + 1 \in DOMAIN t
  BY <1>1
<1>4. ASSUME NEW i PROVE i \in Range(t) <=> i \in Range(s) \/ i = x
  BY <1>1, <1>2, <1>3 DEF Range
<1>5. QED
  BY <1>1, <1>4 DEF t

\* An element that joins the group, or begins one.
LEMMA JoinKeeps ==
    ASSUME NEW elements, Elements(elements), NEW n \in Nat, n + 1 \in DOMAIN elements,
           NEW acc, AccInv(elements, n, acc), acc.image = <<>>,
           Accumulated(elements[n + 1]), HasText(elements[n + 1]),
           ~ (acc.group # <<>> /\ WouldExceedLimit(elements, acc.group, n + 1))
    PROVE  AccInv(elements, n + 1, [acc EXCEPT !.group = Append(@, n + 1)])
<1>1. acc = [chunks |-> acc.chunks, group |-> acc.group, image |-> <<>>]
      /\ acc.chunks \in Seq(ChunkSet(elements)) /\ acc.group \in Seq(DOMAIN elements)
  BY AccFields DEF AccInv
<1>2. CASE acc.group = <<>>
  <2>1. Cleared(elements, n, acc)
    <3>1. Range(<<>>) = {}
      BY DEF Range
    <3>2. QED
      BY <1>2, <3>1 DEF AccInv, Cleared
  <2>2. Ready(elements, acc.chunks, n + 1)
    BY <1>2, ShutIsReady DEF AccInv
  <2>3. AccInv(elements, n + 1, [acc EXCEPT !.group = <<n + 1>>])
    BY <2>1, <2>2, BeginsKeeps DEF Opens
  <2>4. Append(<<>>, n + 1) = <<n + 1>>
    OBVIOUS
  <2>5. QED
    BY <1>2, <2>3, <2>4
<1>3. CASE acc.group # <<>>
  <2> DEFINE group == Append(acc.group, n + 1)
             r == [acc EXCEPT !.group = group]
  <2>1. r = [chunks |-> acc.chunks, group |-> group, image |-> <<>>]
    <3> HIDE DEF group
    <3>1. QED
      BY <1>1
  <2>2. group \in Seq(DOMAIN elements) /\ group # <<>>
        /\ \A i : i \in Range(group) <=> i \in Range(acc.group) \/ i = n + 1
    BY <1>1, AppendRange
  <2>3. <<>> \in Seq(DOMAIN elements) /\ Range(<<>>) = {}
    BY DEF Range
  <2>4. Growing(elements, acc.chunks, group, n + 1)
    BY <1>3, GroupGrows DEF AccInv
  <2> HIDE DEF group
  <2>5. r \in Accs(elements) /\ r.chunks = acc.chunks /\ r.group = group /\ r.image = <<>>
    <3> DEFINE none == <<>>
               x == [chunks |-> acc.chunks, group |-> group, image |-> none]
    <3>1. none \in Seq(DOMAIN elements)
      BY <2>3
    <3> HIDE DEF none
    <3>2. x \in Accs(elements) /\ x.chunks = acc.chunks /\ x.group = group /\ x.image = none
      BY <1>1, <2>2, <3>1, AccOf
    <3> HIDE DEF r
    <3>3. QED
      BY <2>1, <3>2 DEF none
  <2>6. Below(acc.chunks, n + 1 + 1)
    BY BelowMore DEF AccInv
  <2>7. \A i \in 1 .. (n + 1) : Wanted(elements[i]) => Placed(acc.chunks, i) \/ i \in Range(group)
    <3>1. \A i \in 1 .. (n + 1) : i \in 1 .. n \/ i = n + 1
      OBVIOUS
    <3>2. QED
      BY <2>2, <2>3, <3>1 DEF AccInv
  <2> HIDE DEF r
  <2>8. AccInv(elements, n + 1, r)
    BY <2>2, <2>3, <2>4, <2>5, <2>6, <2>7 DEF AccInv
  <2>9. QED
    BY <2>8 DEF r, group
<1>4. QED
  BY <1>2, <1>3

\* Every element keeps the invariant of the loop.
LEMMA ElementKeeps ==
    ASSUME NEW elements, Elements(elements), NEW n \in Nat, n + 1 \in DOMAIN elements,
           NEW acc, AccInv(elements, n, acc)
    PROVE  AccInv(elements, n + 1, Element(elements, acc, n + 1))
<1> DEFINE i == n + 1
           e == elements[i]
<1>1. CASE acc.image # <<>> /\ e.type = "caption"
  BY <1>1, CaptionTaken
<1>2. CASE ~ (acc.image # <<>> /\ e.type = "caption")
  <2>1. PICK a : a = IF acc.image # <<>> THEN FlushAll(elements, acc) ELSE acc
    OBVIOUS
  <2>2. Element(elements, acc, i) = Taking(elements, a, i)
    BY <1>2, <2>1, ElementIs
  <2>3. AccInv(elements, n, a) /\ a.image = <<>>
    BY <2>1, ImageFlushed
  <2>4. PICK flushed : flushed = FlushAll(elements, a)
    OBVIOUS
  <2>5. /\ Cleared(elements, n, flushed)
        /\ a.group = <<>> => flushed = a
        /\ a.group # <<>> => flushed.chunks # <<>> /\ LastGroup(flushed.chunks) = a.group
    BY <2>3, <2>4, GroupFlushed
  <2>6. CASE e.type = "table"
    <3>1. Taking(elements, a, i) = [flushed EXCEPT !.chunks = Flush(elements, @, <<i>>)]
      BY <2>4, <2>6 DEF Taking, Accumulated
    <3>2. QED
      BY <2>2, <2>5, <2>6, <3>1, TableKeeps
  <2>7. CASE e.type = "image"
    <3>1. Taking(elements, a, i) = [flushed EXCEPT !.image = <<i>>]
      BY <2>4, <2>7 DEF Taking, Accumulated
    <3>2. AccInv(elements, n + 1, [flushed EXCEPT !.image = <<n + 1>>])
      BY <2>5, <2>7, ImageKeeps
    <3>3. QED
      BY <2>2, <3>1, <3>2
  <2>8. CASE e.type = "heading"
    <3>1. Taking(elements, a, i) = IF HasText(e) THEN [flushed EXCEPT !.group = <<i>>] ELSE flushed
      BY <2>4, <2>8 DEF Taking, Accumulated
    <3>2. Opens(e) /\ Ready(elements, flushed.chunks, i)
      BY <2>8, BreakIsReady DEF Breaks, Opens
    <3>3. CASE HasText(e)
      <4>1. AccInv(elements, n + 1, [flushed EXCEPT !.group = <<n + 1>>])
        BY <2>5, <3>2, <3>3, BeginsKeeps
      <4>2. QED
        BY <2>2, <3>1, <3>3, <4>1
    <3>4. CASE ~ HasText(e)
      BY <2>2, <2>5, <2>8, <3>1, <3>4, BlankHeadingKeeps
    <3>5. QED
      BY <3>3, <3>4
  <2>9. CASE Accumulated(e) /\ HasText(e)
    <3>1. Taking(elements, a, i) =
             IF a.group # <<>> /\ WouldExceedLimit(elements, a.group, i)
             THEN [flushed EXCEPT !.group = <<i>>]
             ELSE [a EXCEPT !.group = Append(@, i)]
      BY <2>4, <2>9 DEF Taking, Accumulated
    <3>2. CASE a.group # <<>> /\ WouldExceedLimit(elements, a.group, i)
      <4>1. Ready(elements, flushed.chunks, i)
        BY <2>5, <3>2 DEF Ready, CannotTake
      <4>2. AccInv(elements, n + 1, [flushed EXCEPT !.group = <<n + 1>>])
        BY <2>5, <2>9, <4>1, BeginsKeeps DEF Opens
      <4>3. QED
        BY <2>2, <3>1, <3>2, <4>2
    <3>3. CASE ~ (a.group # <<>> /\ WouldExceedLimit(elements, a.group, i))
      BY <2>2, <2>3, <2>9, <3>1, <3>3, JoinKeeps
    <3>4. QED
      BY <3>2, <3>3
  <2>10. CASE e.type \notin Breaks /\ ~ (Accumulated(e) /\ HasText(e))
    <3>1. Taking(elements, a, i) = a
      BY <2>10 DEF Taking, Breaks
    <3>2. ~ Wanted(e)
      BY <2>10 DEF Wanted, Accumulated, Breaks
    <3>3. QED
      BY <2>2, <2>3, <3>1, <3>2, NothingKeeps
  <2>11. QED
    BY <2>6, <2>7, <2>8, <2>9, <2>10 DEF Breaks
<1>3. QED
  BY <1>1, <1>2

(***************************************************************************)
(* Chunking: the loop                                                      *)
(***************************************************************************)
\* The next accumulator has the types of the one before.
LEMMA ElementTyped ==
    ASSUME NEW elements, Elements(elements), NEW acc \in Accs(elements), NEW i \in DOMAIN elements
    PROVE  Element(elements, acc, i) \in Accs(elements)
<1> DEFINE D == DOMAIN elements
           one == <<i>>
           none == <<>>
<1>1. one \in Seq(D) /\ none \in Seq(D)
  OBVIOUS
<1>2. ASSUME NEW a \in Accs(elements)
      PROVE  /\ FlushAll(elements, a) \in Accs(elements)
             /\ [a EXCEPT !.chunks = Flush(elements, @, one)] \in Accs(elements)
             /\ [a EXCEPT !.image = one] \in Accs(elements)
             /\ [a EXCEPT !.group = one] \in Accs(elements)
             /\ [a EXCEPT !.group = Append(@, i)] \in Accs(elements)
  <2>1. /\ a = [chunks |-> a.chunks, group |-> a.group, image |-> a.image]
        /\ a.chunks \in Seq(ChunkSet(elements)) /\ a.group \in Seq(D) /\ a.image \in Seq(D)
    BY AccFields
  <2> HIDE DEF one, D
  <2>2. Flush(elements, a.chunks, one) \in Seq(ChunkSet(elements))
    <3>1. one \in Seq(DOMAIN elements)
      BY <1>1 DEF D
    <3>2. QED
      BY <2>1, <3>1, FlushTyped
  <2>3. Append(a.group, i) \in Seq(D)
    <3>1. i \in D
      BY DEF D
    <3>2. QED
      BY <2>1, <3>1, AppendProperties
  <2>4. /\ [a EXCEPT !.chunks = Flush(elements, @, one)] =
              [chunks |-> Flush(elements, a.chunks, one), group |-> a.group, image |-> a.image]
        /\ [a EXCEPT !.image = one] = [chunks |-> a.chunks, group |-> a.group, image |-> one]
        /\ [a EXCEPT !.group = one] = [chunks |-> a.chunks, group |-> one, image |-> a.image]
        /\ [a EXCEPT !.group = Append(@, i)] =
              [chunks |-> a.chunks, group |-> Append(a.group, i), image |-> a.image]
    <3>1. PICK chunks, group, image : a = [chunks |-> chunks, group |-> group, image |-> image]
      BY <2>1
    <3>2. a.chunks = chunks /\ a.group = group /\ a.image = image
      BY <3>1
    <3>3. [a EXCEPT !.chunks = Flush(elements, @, one)] =
             [chunks |-> Flush(elements, chunks, one), group |-> group, image |-> image]
      BY <3>1
    <3>4. [a EXCEPT !.image = one] = [chunks |-> chunks, group |-> group, image |-> one]
      BY <3>1
    <3>5. [a EXCEPT !.group = one] = [chunks |-> chunks, group |-> one, image |-> image]
      BY <3>1
    <3>6. [a EXCEPT !.group = Append(@, i)] =
             [chunks |-> chunks, group |-> Append(group, i), image |-> image]
      <4>1. PICK grown : grown = Append(group, i)
        OBVIOUS
      <4>2. [a EXCEPT !.group = Append(@, i)] = [a EXCEPT !.group = grown]
        BY <3>2, <4>1
      <4>3. [a EXCEPT !.group = grown] = [chunks |-> chunks, group |-> grown, image |-> image]
        BY <3>1
      <4>4. QED
        BY <4>1, <4>2, <4>3
    <3>7. QED
      BY <3>2, <3>3, <3>4, <3>5, <3>6
  <2>5. /\ [chunks |-> Flush(elements, a.chunks, one), group |-> a.group, image |-> a.image] \in Accs(elements)
        /\ [chunks |-> a.chunks, group |-> a.group, image |-> one] \in Accs(elements)
        /\ [chunks |-> a.chunks, group |-> one, image |-> a.image] \in Accs(elements)
        /\ [chunks |-> a.chunks, group |-> Append(a.group, i), image |-> a.image] \in Accs(elements)
    BY <1>1, <2>1, <2>2, <2>3 DEF Accs, D
  <2>6. FlushAll(elements, a) \in Accs(elements)
    BY FlushAllTyped
  <2>7. QED
    BY <2>4, <2>5, <2>6
<1>3. ASSUME NEW a \in Accs(elements) PROVE Taking(elements, a, i) \in Accs(elements)
  <2>1. PICK flushed : flushed = FlushAll(elements, a) /\ flushed \in Accs(elements)
    BY <1>2
  <2>2. Taking(elements, a, i) \in {[flushed EXCEPT !.chunks = Flush(elements, @, one)],
                                   [flushed EXCEPT !.image = one], [flushed EXCEPT !.group = one],
                                   flushed, [a EXCEPT !.group = Append(@, i)], a}
    BY <2>1 DEF Taking
  <2> HIDE DEF one
  <2>3. QED
    BY <1>2, <2>1, <2>2
<1>4. CASE acc.image # <<>> /\ elements[i].type = "caption"
  <2>1. Append(acc.image, i) \in Seq(D) /\ acc.chunks \in Seq(ChunkSet(elements))
    BY AccFields
  <2>2. Flush(elements, acc.chunks, Append(acc.image, i)) \in Seq(ChunkSet(elements))
    BY <2>1, FlushTyped
  <2>3. Element(elements, acc, i) =
           [chunks |-> Flush(elements, acc.chunks, Append(acc.image, i)), group |-> none, image |-> none]
    BY <1>4 DEF Element, Start
  <2> HIDE DEF none
  <2>4. QED
    BY <1>1, <2>2, <2>3, AccOf
<1>5. CASE ~ (acc.image # <<>> /\ elements[i].type = "caption")
  <2>1. PICK a : a = IF acc.image # <<>> THEN FlushAll(elements, acc) ELSE acc
    OBVIOUS
  <2>2. a \in Accs(elements)
    BY <1>2, <2>1
  <2>3. QED
    BY <1>3, <1>5, <2>1, <2>2, ElementIs
<1>6. QED
  BY <1>4, <1>5

\* What the loop has after each element.
Loop(elements, f) ==
    /\ f[0] = Start
    /\ \A k \in 1 .. Len(elements) : f[k] = Element(elements, f[k - 1], k)
    /\ Grouped(elements) = FlushAll(elements, f[Len(elements)]).chunks

\* There is such a sequence of accumulators: the fold of Grouped makes it.
LEMMA LoopRuns ==
    ASSUME NEW elements, Elements(elements)
    PROVE  \E f : Loop(elements, f)
<1> DEFINE n == Len(elements)
           V == Accs(elements)
           step == [i \in 1 .. n |-> [v \in V |-> Element(elements, v, i)]]
           seq == [i \in DOMAIN elements |-> i]
<1>1. n \in Nat /\ DOMAIN elements = 1 .. n
  BY DEF Elements
<1>2. \A i \in 1 .. n, v \in V : Element(elements, v, i) \in V
  BY <1>1, ElementTyped
<1>3. Start \in V
  <2> DEFINE none == <<>>
  <2>1. none \in Seq(DOMAIN elements) /\ none \in Seq(ChunkSet(elements))
    OBVIOUS
  <2>2. Start = [chunks |-> none, group |-> none, image |-> none]
    BY DEF Start
  <2> HIDE DEF none
  <2>3. QED
    BY <2>1, <2>2, AccOf
<1>4. \A i \in 1 .. n : seq[i] = i
  BY <1>1
<1>5. DOMAIN seq = 1 .. n
  BY <1>1
<1> HIDE DEF n, V
<1>6. Steps(n, V, Start, step)
  BY <1>1, <1>2, <1>3 DEF Steps
<1>7. PICK g : Stepping(g, n, V, Start, step)
  <2> HIDE DEF step
  <2>1. QED
    BY <1>6, StepsTaken
<1> HIDE DEF seq
<1>8. g = [s \in SUBSET (1 .. n) |->
              IF s = {} THEN Start ELSE Element(elements, g[s \ {Max(s)}], seq[Max(s)])]
  <2>1. ASSUME NEW s \in SUBSET (1 .. n)
        PROVE  g[s] = IF s = {} THEN Start ELSE Element(elements, g[s \ {Max(s)}], seq[Max(s)])
    <3>1. s # {} => Max(s) \in 1 .. n /\ g[s \ {Max(s)}] \in V /\ seq[Max(s)] = Max(s)
      BY <1>1, <1>4, <1>7, HighestPosition DEF Stepping
    <3>2. QED
      BY <1>7, <3>1 DEF Stepping
  <2> HIDE DEF step
  <2>2. QED
    BY <1>7, <2>1 DEF Stepping
<1> DEFINE iter == CHOOSE f : f = [s \in SUBSET (1 .. n) |->
              IF s = {} THEN Start ELSE Element(elements, f[s \ {Max(s)}], seq[Max(s)])]
<1>9. Grouped(elements) = FlushAll(elements, iter[1 .. n]).chunks
  BY <1>5 DEF Grouped, FoldLeftDomain, FoldLeft, MapThenFoldSet, seq
<1>10. iter = [s \in SUBSET (1 .. n) |->
              IF s = {} THEN Start ELSE Element(elements, iter[s \ {Max(s)}], seq[Max(s)])]
  BY <1>8
<1> HIDE DEF iter
<1>11. Takes(iter, n, V, Start, step)
  <2>1. iter[{}] = Start
    BY <1>10
  <2>2. ASSUME NEW s \in SUBSET (1 .. n), s # {}, iter[s \ {Max(s)}] \in V
        PROVE  iter[s] = step[Max(s)][iter[s \ {Max(s)}]]
    <3>1. Max(s) \in 1 .. n /\ seq[Max(s)] = Max(s)
      BY <1>1, <1>4, <2>2, HighestPosition
    <3>2. iter[s] = Element(elements, iter[s \ {Max(s)}], Max(s))
      BY <1>10, <2>2, <3>1
    <3>3. QED
      BY <2>2, <3>1, <3>2
  <2> HIDE DEF step
  <2>3. QED
    BY <2>1, <2>2 DEF Takes
<1>12. /\ \A k \in 0 .. n : iter[1 .. k] \in V
       /\ iter[1 .. 0] = Start
       /\ \A k \in 1 .. n : iter[1 .. k] = step[k][iter[1 .. (k - 1)]]
  <2> HIDE DEF step
  <2>1. QED
    BY <1>6, <1>11, StepByStep
<1>13. \A k \in 1 .. n : k - 1 \in 0 .. n /\ k \in 0 .. n
  BY <1>1
<1>14. \A k \in 1 .. n : iter[1 .. k] = Element(elements, iter[1 .. (k - 1)], k)
  BY <1>12, <1>13
<1> DEFINE f == [k \in 0 .. n |-> iter[1 .. k]]
<1>15. \A k \in 0 .. n : f[k] = iter[1 .. k]
  OBVIOUS
<1> HIDE DEF f, step
<1>16. \A k \in 1 .. n : f[k] = Element(elements, f[k - 1], k)
  BY <1>13, <1>14, <1>15
<1>17. f[0] = Start /\ f[n] = iter[1 .. n]
  BY <1>1, <1>12, <1>15
<1>18. QED
  BY <1>9, <1>16, <1>17 DEF Loop, n

\* The loop ends with all of the text in the chunks but what is pending.
LEMMA LoopKeeps ==
    ASSUME NEW elements, Elements(elements)
    PROVE  \E acc : AccInv(elements, Len(elements), acc) /\ Grouped(elements) = FlushAll(elements, acc).chunks
<1> DEFINE n == Len(elements)
<1>1. n \in Nat /\ DOMAIN elements = 1 .. n
  BY DEF Elements
<1>2. PICK f : Loop(elements, f)
  BY LoopRuns
<1>3. AccInv(elements, 0, Start)
  <2> DEFINE none == <<>>
  <2>1. none \in Seq(DOMAIN elements) /\ none \in Seq(ChunkSet(elements)) /\ DOMAIN none = {}
    OBVIOUS
  <2>2. Start = [chunks |-> none, group |-> none, image |-> none]
    BY DEF Start
  <2>3. Start.chunks = <<>> /\ Start.group = <<>> /\ Start.image = <<>>
    BY DEF Start
  <2> HIDE DEF none
  <2>4. Start \in Accs(elements) /\ Start.chunks = none
    BY <2>1, <2>2, AccOf
  <2>5. ChunksRight(elements, Start.chunks)
    BY <2>1, <2>4 DEF ChunksRight, ChunksFollow, Greedy
  <2>6. Below(Start.chunks, 0 + 1)
    BY <2>1, <2>4 DEF Below
  <2>7. Shut(elements, Start.chunks, 0)
    BY <2>3 DEF Shut
  <2>8. \A i \in 1 .. 0 : FALSE
    OBVIOUS
  <2>9. QED
    BY <2>3, <2>4, <2>5, <2>6, <2>7, <2>8 DEF AccInv
<1> DEFINE Bad == {k \in 0 .. n : ~ AccInv(elements, k, f[k])}
<1>4. Bad = {}
  <2> SUFFICES ASSUME Bad # {} PROVE FALSE
    OBVIOUS
  <2>1. PICK k \in Bad : \A i \in Bad : k <= i
    <3>1. Bad \subseteq Nat
      BY <1>1
    <3> HIDE DEF Bad
    <3>2. QED
      BY <3>1, LeastNatural
  <2>2. k # 0
    BY <1>2, <1>3 DEF Loop
  <2>3. k \in 1 .. n /\ k - 1 \in 0 .. n /\ k - 1 \notin Bad /\ k - 1 \in Nat /\ (k - 1) + 1 = k
    BY <1>1, <2>1, <2>2
  <2>4. AccInv(elements, k - 1, f[k - 1]) /\ k \in DOMAIN elements
    BY <1>1, <2>3
  <2>5. AccInv(elements, (k - 1) + 1, Element(elements, f[k - 1], (k - 1) + 1))
    BY <2>3, <2>4, ElementKeeps
  <2>6. f[k] = Element(elements, f[k - 1], k)
    BY <1>2, <2>3 DEF Loop
  <2>7. QED
    BY <2>1, <2>3, <2>5, <2>6
<1>5. n \in 0 .. n
  BY <1>1
<1>6. AccInv(elements, n, f[n])
  BY <1>4, <1>5
<1>7. QED
  BY <1>2, <1>6 DEF Loop

\* The chunks a document is cut into are what they are for.
LEMMA GroupedIsWell ==
    ASSUME NEW elements, Elements(elements)
    PROVE  Grouped(elements) \in Seq(ChunkSet(elements)) /\ WellChunked(elements, Grouped(elements))
<1> DEFINE n == Len(elements)
           chunks == Grouped(elements)
<1>1. n \in Nat /\ DOMAIN elements = 1 .. n
  BY DEF Elements
<1>2. PICK acc : AccInv(elements, n, acc) /\ chunks = FlushAll(elements, acc).chunks
  BY LoopKeeps
<1>3. /\ ChunksRight(elements, chunks)
      /\ \A i \in 1 .. n : Wanted(elements[i]) => Placed(chunks, i)
  <2>1. CASE acc.image = <<>>
    BY <1>1, <1>2, <2>1, GroupFlushed DEF Cleared
  <2>2. CASE acc.image # <<>>
    <3>1. PICK flushed : flushed = FlushAll(elements, acc) /\ AccInv(elements, n, flushed)
                         /\ flushed.group = <<>> /\ flushed.image = <<>>
      BY <1>1, <1>2, <2>2, ImageFlushed
    <3>2. Range(<<>>) = {}
      BY DEF Range
    <3>3. QED
      BY <1>2, <3>1, <3>2 DEF AccInv
  <2>3. QED
    BY <2>1, <2>2
<1> HIDE DEF chunks, n
<1>4. chunks \in Seq(ChunkSet(elements)) /\ Len(chunks) \in Nat /\ DOMAIN chunks = 1 .. Len(chunks)
  BY <1>3 DEF ChunksRight
<1>5. TextKept(elements, chunks)
  <2>1. \A i \in DOMAIN elements : HasText(elements[i]) /\ ~ Skipped(elements[i]) =>
           \E c \in DOMAIN chunks : i \in Range(chunks[c].elements)
    BY <1>1, <1>3 DEF Wanted, Placed
  <2>2. ASSUME NEW c \in DOMAIN chunks, NEW i \in Range(chunks[c].elements)
        PROVE  i \in DOMAIN elements /\ ~ Skipped(elements[i])
    <3>1. PICK p \in DOMAIN chunks[c].elements : i = chunks[c].elements[p]
      BY DEF Range
    <3>2. chunks[c].elements \in Seq(DOMAIN elements) /\ ~ Skipped(elements[chunks[c].elements[p]])
      BY <1>3, <3>1 DEF ChunksRight, Belongs
    <3>3. QED
      BY <3>1, <3>2
  <2>3. ASSUME NEW c \in DOMAIN chunks, NEW d \in DOMAIN chunks,
               NEW p \in DOMAIN chunks[c].elements, NEW q \in DOMAIN chunks[d].elements,
               c < d \/ (c = d /\ p < q)
        PROVE  chunks[c].elements[p] < chunks[d].elements[q]
    <3>1. CASE c < d
      BY <1>3, <3>1 DEF ChunksRight, ChunksFollow
    <3>2. CASE c = d /\ p < q
      BY <1>3, <3>2 DEF ChunksRight, Belongs
    <3>3. QED
      BY <2>3, <3>1, <3>2
  <2>4. QED
    BY <2>1, <2>2, <2>3 DEF TextKept
<1>6. BoundariesKept(elements, chunks) /\ LimitsKept(elements, chunks) /\ Greedy(elements, chunks)
  BY <1>3 DEF ChunksRight, Belongs, BoundariesKept, LimitsKept
<1>7. IdsDiffer(chunks)
  <2> SUFFICES ASSUME NEW c \in DOMAIN chunks, NEW d \in DOMAIN chunks,
                      ChunkId(chunks[c]) = ChunkId(chunks[d])
               PROVE  c = d
    BY DEF IdsDiffer
  <2>1. chunks[c].index = chunks[d].index
    BY DEF ChunkId
  <2>2. c - 1 = d - 1 /\ c \in Nat /\ d \in Nat
    BY <1>3, <1>4, <2>1 DEF ChunksRight
  <2>3. QED
    BY <2>2
<1>8. QED
  BY <1>4, <1>5, <1>6, <1>7 DEF WellChunked, chunks

\* The chunks of every document, whatever its elements, hold all of its text in
\* order, break where its structure does, are as long as they may be, and differ
\* in their ids: what _group_elements promises.
THEOREM DocumentsWellChunked ==
    \A elements \in Seq(ParsedElement) : WellChunked(elements, Grouped(elements))
BY GroupedIsWell DEF Elements

(***************************************************************************)
(* The tasks                                                               *)
(***************************************************************************)
\* A parser of a document finds a sequence of chunks as they should be, and what a
\* manifest lists of them is not None.
LEMMA ChunksAreSequences ==
    ASSUME OfScenario, NEW d \in Docs, NEW tier \in TierSet
    PROVE  /\ Len(ChunksOf(d, tier)) \in Nat
           /\ DOMAIN ChunksOf(d, tier) = 1 .. Len(ChunksOf(d, tier))
           /\ ChunksOf(d, tier) # <<>> => 1 \in DOMAIN ChunksOf(d, tier)
           /\ ChunksOf(d, tier) # <<>> => WellChunked(parsed[d][tier], ChunksOf(d, tier))
           /\ [config |-> config, tier |-> tier,
               ids |-> {<<d, ChunkId(ChunksOf(d, tier)[i])>> : i \in DOMAIN ChunksOf(d, tier)}] # None
<1>1. PICK s \in Scenarios : config \in s.configs /\ parsed \in s.parses
  BY DEF OfScenario
<1> DEFINE elements == parsed[d][tier]
           chunks == ChunksOf(d, tier)
           ids == {<<d, ChunkId(chunks[i])>> : i \in DOMAIN chunks}
<1>2. Elements(elements)
  BY <1>1, ParsesAssumption DEF Elements
<1> HIDE DEF elements
<1>3. /\ Grouped(elements) \in Seq(ChunkSet(elements))
      /\ WellChunked(elements, Grouped(elements))
  BY <1>2, GroupedIsWell
<1>4. chunks = IF Rejected(Grouped(elements)) THEN <<>> ELSE Grouped(elements)
  BY DEF ChunksOf, ChunkDocument, elements
<1> HIDE DEF chunks
<1>5. chunks # <<>> => chunks = Grouped(elements) /\ ~ Rejected(chunks)
  BY <1>4
<1>6. chunks \in Seq(ChunkSet(elements))
  <2> DEFINE none == <<>>
  <2>1. none \in Seq(ChunkSet(elements))
    OBVIOUS
  <2> HIDE DEF none
  <2>2. chunks \in {none, Grouped(elements)}
    BY <1>4 DEF none
  <2>3. QED
    BY <1>3, <2>1, <2>2
<1>7. /\ Len(chunks) \in Nat /\ DOMAIN chunks = 1 .. Len(chunks)
      /\ chunks # <<>> => 1 \in DOMAIN chunks
      /\ chunks = <<>> => DOMAIN chunks = {}
  BY <1>6
<1>8. ASSUME NEW i \in DOMAIN chunks PROVE ChunkId(chunks[i]) \in ChunkIds
  <2>1. chunks[i] \in ChunkSet(elements)
    BY <1>6
  <2>2. chunks[i].start # NoPage
    BY <1>5, <1>7, <1>8 DEF Rejected
  <2>3. chunks[i].start \in Nat /\ chunks[i].index \in Nat
    BY <2>1, <2>2 DEF ChunkSet
  <2>4. QED
    BY <2>3 DEF ChunkId, ChunkIds
<1>9. ids \in SUBSET (Docs \X ChunkIds)
  BY <1>8
<1> HIDE DEF ids
<1>10. [config |-> config, tier |-> tier, ids |-> ids] \in
          [config : s.configs, tier : TierSet, ids : SUBSET (Docs \X ChunkIds)]
  BY <1>1, <1>9
<1>11. [config |-> config, tier |-> tier, ids |-> ids] # None
  BY <1>1, <1>10, ParsesAssumption
<1>12. chunks # <<>> => WellChunked(elements, chunks)
  BY <1>3, <1>5
<1>13. QED
  BY <1>7, <1>11, <1>12 DEF chunks, ids, elements

\* What a request holds does not depend on the others.
LEMMA SoundStays ==
    ASSUME NEW k, Sound(k), config' = config, parsed' = parsed, extracted \subseteq extracted'
    PROVE  Sound(k)'
BY DEF Sound, ChunksOf, TierSet, ManifestOf, IsManifest, Ids

\* What is known of a task by itself is known of it in its place.
LEMMA InItsPlace ==
    ASSUME NEW v, \A k : k = task'[v] => Typed(k) /\ Sound(k)'
    PROVE  Typed(task[v])' /\ Sound(task[v])'
BY DEF Typed, Sound

\* A step of a request leaves the others as they are.
LEMMA TasksStay ==
    ASSUME TypeInv, NEW t \in Slots, NEW u, Becomes(t, u), Typed(u), Sound(u)',
           config' = config, parsed' = parsed, extracted \subseteq extracted'
    PROVE  /\ DOMAIN task' = Slots
           /\ \A v \in Slots : Typed(task[v])' /\ Sound(task[v])'
<1>1. DOMAIN task' = Slots /\ task'[t] = u
  BY DEF Becomes, TypeInv
<1>2. ASSUME NEW v \in Slots PROVE Typed(task[v])' /\ Sound(task[v])'
  <2>1. ASSUME NEW k, k = task'[v] PROVE Typed(k) /\ Sound(k)'
    <3>1. CASE v = t
      BY <2>1, <3>1, <1>1
    <3>2. CASE v # t
      <4>1. k = task[v]
        BY <2>1, <3>2 DEF Becomes, TypeInv
      <4>2. Typed(k) /\ Sound(k)
        BY <4>1 DEF TypeInv
      <4>3. QED
        BY <4>2, SoundStays
    <3>3. QED
      BY <3>1, <3>2
  <2>2. QED
    BY <2>1, InItsPlace
<1>3. QED
  BY <1>1, <1>2

\* A slot without a request.
LEMMA IdleIsSound == Typed(Idle) /\ Sound(Idle) /\ Sound(Idle)'
BY DocumentAssumption DEF Typed, Shaped, Sound, Idle, Pcs, Looking, Uploading, Deleting, Extracting, Ids, Ops

\* The bounds only go down.
LEMMA ScenarioStays ==
    ASSUME OfScenario, config' = config, parsed' = parsed,
           \/ Works
           \/ Fails
           \/ left' = [left EXCEPT !.requests = @ - 1]
    PROVE  OfScenario'
<1>1. PICK s \in Scenarios :
        /\ left = [ops |-> s.ops, requests |-> left.requests, faults |-> left.faults,
                   docs |-> s.docs, configs |-> s.configs]
        /\ config \in s.configs
        /\ parsed \in s.parses
  BY DEF OfScenario
<1>2. left' = [ops |-> s.ops, requests |-> left'.requests, faults |-> left'.faults,
               docs |-> s.docs, configs |-> s.configs]
  BY <1>1 DEF Works, Fails
<1>3. QED
  BY <1>1, <1>2 DEF OfScenario

\* A step of a request keeps the invariant if its next task is sound and the
\* stores stay in order.
LEMMA StepKeeps ==
    ASSUME TypeInv, NEW t \in Slots, NEW u, Becomes(t, u), Typed(u), Sound(u)',
           config' = config, parsed' = parsed, extracted \subseteq extracted',
           \/ Works \/ Fails \/ left' = [left EXCEPT !.requests = @ - 1],
           Stored', CompleteIsExtracted'
    PROVE  TypeInv'
<1>1. OfScenario'
  BY ScenarioStays DEF TypeInv
<1>2. DOMAIN task' = Slots /\ \A v \in Slots : Typed(task[v])' /\ Sound(task[v])'
  BY TasksStay
<1>3. QED
  BY <1>1, <1>2 DEF TypeInv

\* The same, of a request that leaves the stores alone.
LEMMA TaskKeeps ==
    ASSUME TypeInv, NEW t \in Slots, NEW u, Becomes(t, u), Typed(u), Sound(u),
           \/ Works \/ Fails \/ left' = [left EXCEPT !.requests = @ - 1],
           UNCHANGED <<config, parsed, stores, promise>>
    PROVE  TypeInv'
<1>1. /\ config' = config /\ parsed' = parsed /\ manifests' = manifests /\ cached' = cached
      /\ texts' = texts /\ complete' = complete /\ points' = points
      /\ extracted' = extracted /\ promise' = promise
  BY DEF stores, redis
<1>2. Stored'
  BY <1>1 DEF TypeInv, Stored, ManifestOf, IsManifest
<1>3. CompleteIsExtracted'
  BY <1>1 DEF TypeInv, CompleteIsExtracted
<1>4. Sound(u)'
  BY <1>1, SoundStays
<1>5. QED
  BY <1>1, <1>2, <1>3, <1>4, StepKeeps

\* What a request does with a manifest, or without one.
LEMMA ManifestTaken ==
    ASSUME NEW k, Typed(k), k.pc \in {"lookup", "load", "backfill"},
           k.got = {}, k.answer = {}, k.next = 1, NEW m, k.doc \in Docs, ManifestOf(k.doc, m)
    PROVE  Typed(WithManifest(k, m)) /\ Sound(WithManifest(k, m))
<1>1. k.op \in Ops
  BY DEF Typed
<1>2. Typed(Idle) /\ Sound(Idle)
  BY IdleIsSound
<1>3. CASE k.op = "ingest"
  <2>1. PICK u : u = [k EXCEPT !.pc = "parse"]
    OBVIOUS
  <2>2. Typed(u)
    BY <2>1, <1>3 DEF Typed, Shaped, Pcs, Looking, Uploading, Deleting, Extracting
  <2>3. Sound(u)
    BY <2>1, <1>3 DEF Typed, Sound, Looking, Uploading, Deleting, Extracting, Ids
  <2>4. QED
    BY <2>1, <2>2, <2>3, <1>2, <1>3 DEF WithManifest
<1>4. CASE k.op = "delete"
  <2>1. PICK u : u = [k EXCEPT !.pc = "unindex", !.ids = m.ids]
    OBVIOUS
  <2>2. m # None => Typed(u)
    BY <2>1, <1>4 DEF Typed, Shaped, Pcs, Looking, Uploading, Deleting, Extracting, ManifestOf
  <2>3. m # None => Sound(u)
    BY <2>1, <1>4 DEF Typed, Sound, Looking, Uploading, Deleting, Extracting, Ids, ManifestOf, IsManifest
  <2>4. QED
    BY <2>1, <2>2, <2>3, <1>2, <1>4 DEF WithManifest
<1>5. CASE k.op = "read"
  <2>1. PICK u : u = [k EXCEPT !.pc = "scroll"]
    OBVIOUS
  <2>2. Typed(u)
    BY <2>1, <1>5 DEF Typed, Shaped, Pcs, Looking, Uploading, Deleting, Extracting, Ops
  <2>3. Sound(u)
    BY <2>1, <1>5 DEF Typed, Sound, Looking, Uploading, Deleting, Extracting, Ids
  <2>4. QED
    BY <2>1, <2>2, <2>3, <1>2, <1>5 DEF WithManifest
<1>6. CASE k.op \in {"list", "extract"}
  <2>1. PICK ids : ids = k.ids \cup (IF m = None THEN {} ELSE m.ids)
    OBVIOUS
  <2>2. \A id \in ids : id[1] \in Docs
    BY <2>1 DEF Typed, ManifestOf
  <2>3. PICK d : d = CHOOSE e \in k.docs : TRUE
    OBVIOUS
  <2>4. k.docs # {} => d \in Docs
    BY <2>3 DEF Typed
  <2>5. PICK u : u = [k EXCEPT !.ids = ids, !.doc = d, !.docs = @ \ {d}, !.pc = "lookup"]
    OBVIOUS
  <2>6. k.docs # {} => Typed(u) /\ Sound(u)
    <3>1. /\ u.op = k.op /\ u.pc = "lookup" /\ u.doc = d /\ u.docs = k.docs \ {d}
          /\ u.ids = ids /\ u.all = k.all /\ u.got = k.got /\ u.answer = k.answer
          /\ u.attempt = k.attempt /\ u.next = k.next
          /\ Shaped(u)
      BY <2>5 DEF Typed, Shaped
    <3>2. k.docs # {} => Typed(u)
      BY <3>1, <2>2, <2>4, <1>6 DEF Typed, Shaped, Pcs, Looking, Uploading, Deleting, Extracting, Ops
    <3>3. Sound(u)
      BY <3>1 DEF Sound, Looking, Uploading, Deleting, Extracting, Ids
    <3>4. QED
      BY <3>2, <3>3
  <2>7. PICK w : w = [k EXCEPT !.ids = ids, !.pc = "pending"]
    OBVIOUS
  <2>8. k.op = "extract" => Typed(w) /\ Sound(w)
    <3>1. /\ w.op = k.op /\ w.pc = "pending" /\ w.doc = k.doc /\ w.docs = k.docs
          /\ w.ids = ids /\ w.all = k.all /\ w.got = k.got /\ w.answer = k.answer
          /\ w.attempt = k.attempt /\ w.next = k.next
          /\ Shaped(w)
      BY <2>7 DEF Typed, Shaped
    <3>2. k.op = "extract" => Typed(w)
      BY <3>1, <2>2 DEF Typed, Shaped, Pcs, Looking, Uploading, Deleting, Extracting, Ops
    <3>3. Sound(w)
      BY <3>1 DEF Sound, Looking, Uploading, Deleting, Extracting, Ids
    <3>4. QED
      BY <3>2, <3>3
  <2>9. WithManifest(k, m) = IF k.docs # {} THEN u ELSE IF k.op = "list" THEN Idle ELSE w
    BY <2>1, <2>3, <2>5, <2>7, <1>6 DEF WithManifest
  <2>10. QED
    BY <2>6, <2>8, <2>9, <1>2, <1>6
<1>7. QED
  BY <1>1, <1>3, <1>4, <1>5, <1>6 DEF Ops

\* What a request does until it has the manifest it asked for.
LEMMA LookingKeeps ==
    ASSUME TypeInv, NEW t \in Slots,
           \/ Begin(t) \/ ScanManifests(t) \/ LookUpManifest(t) \/ LoadManifest(t)
    PROVE  TypeInv'
<1>1. PICK k : k = task[t] /\ Typed(k) /\ Sound(k)
  BY DEF TypeInv
<1>2. CASE Begin(t)
  <2>1. PICK op, d, u :
          /\ op \in left.ops /\ d \in left.docs
          /\ op \in {"list", "extract"} => d = CHOOSE e \in left.docs : TRUE
          /\ u = [Idle EXCEPT !.op = op, !.doc = d,
                     !.pc = IF op \in {"list", "extract"} THEN "scan" ELSE "lookup"]
          /\ Becomes(t, u)
    BY <1>2 DEF Begin
  <2>2. op \in Ops /\ d \in Docs
    BY <2>1, DocumentAssumption DEF TypeInv, OfScenario
  <2>3. /\ u.op = op /\ u.pc = (IF op \in {"list", "extract"} THEN "scan" ELSE "lookup")
        /\ u.doc = d /\ u.docs = {} /\ u.ids = {} /\ u.all = {} /\ u.got = {} /\ u.answer = {}
        /\ u.attempt = 1 /\ u.next = 1
        /\ Shaped(u)
    BY <2>1 DEF Idle, Shaped
  <2>4. Typed(u)
    BY <2>2, <2>3, DocumentAssumption DEF Typed, Pcs, Looking, Uploading, Deleting, Extracting
  <2>5. Sound(u)
    BY <2>3 DEF Sound, Looking, Uploading, Deleting, Extracting, Ids
  <2>6. QED
    BY <1>2, <2>1, <2>4, <2>5, TaskKeeps DEF Begin
<1>3. CASE ScanManifests(t)
  <2>1. CASE Replies(t)
    BY <1>3, <2>1, IdleIsSound, TaskKeeps DEF ScanManifests, Replies
  <2>2. CASE ~ Replies(t)
    <3>1. PICK listed : listed = {d \in Docs : manifests[d] # None}
      OBVIOUS
    <3>2. PICK first : first = CHOOSE d \in listed : TRUE
      OBVIOUS
    <3>3. PICK u : u = [k EXCEPT !.pc = "lookup", !.doc = first, !.docs = listed \ {first}]
      OBVIOUS
    <3>4. /\ listed # {} /\ Becomes(t, u) /\ Works
          /\ k.pc = "scan"
          /\ UNCHANGED <<config, parsed, stores, promise>>
      BY <1>1, <1>3, <2>2, <3>1, <3>2, <3>3 DEF ScanManifests, At
    <3>5. first \in Docs /\ listed \subseteq Docs
      BY <3>1, <3>2, <3>4
    <3>6. /\ u.op = k.op /\ u.pc = "lookup" /\ u.doc = first /\ u.docs = listed \ {first}
          /\ u.ids = k.ids /\ u.all = k.all /\ u.got = k.got /\ u.answer = k.answer
          /\ u.attempt = k.attempt /\ u.next = k.next
          /\ Shaped(u)
      BY <1>1, <3>3 DEF Typed, Shaped
    <3>7. Typed(u)
      BY <1>1, <3>4, <3>5, <3>6 DEF Typed, Pcs, Looking, Uploading, Deleting, Extracting
    <3>8. Sound(u)
      BY <1>1, <3>4, <3>6 DEF Sound, Looking, Uploading, Deleting, Extracting, Ids
    <3>9. QED
      BY <3>4, <3>7, <3>8, TaskKeeps
  <2>3. QED
    BY <2>1, <2>2
<1>4. CASE LookUpManifest(t)
  <2>1. k.pc = "lookup" /\ UNCHANGED <<config, parsed, stores, promise>> /\ (Works \/ Fails)
    BY <1>1, <1>4 DEF LookUpManifest, At
  <2>2. CASE Becomes(t, WithManifest(k, cached[k.doc]))
    <3>1. Typed(WithManifest(k, cached[k.doc])) /\ Sound(WithManifest(k, cached[k.doc]))
      <4>1. k.doc \in Docs /\ k.got = {} /\ k.answer = {} /\ k.next = 1
        BY <1>1, <2>1 DEF Typed, Sound, Looking, Uploading
      <4>2. ManifestOf(k.doc, cached[k.doc])
        BY <4>1 DEF TypeInv, Stored
      <4>3. QED
        BY <1>1, <2>1, <4>1, <4>2, ManifestTaken
    <3>2. QED
      BY <2>1, <2>2, <3>1, TaskKeeps
  <2>3. CASE Goes(t, "load")
    <3>1. PICK u : u = [k EXCEPT !.pc = "load"]
      OBVIOUS
    <3>2. Becomes(t, u)
      BY <1>1, <2>3, <3>1 DEF Goes
    <3>3. Typed(u)
      BY <1>1, <2>1, <3>1 DEF Typed, Shaped, Pcs, Looking, Uploading, Deleting, Extracting
    <3>4. Sound(u)
      BY <1>1, <2>1, <3>1 DEF Typed, Shaped, Sound, Looking, Uploading, Deleting, Extracting, Ids
    <3>5. QED
      BY <2>1, <3>2, <3>3, <3>4, TaskKeeps
  <2>4. QED
    BY <1>1, <1>4, <2>2, <2>3 DEF LookUpManifest
<1>5. CASE LoadManifest(t)
  <2>1. k.pc = "load" /\ UNCHANGED <<config, parsed, stores, promise>> /\ (Works \/ Fails)
    BY <1>1, <1>5 DEF LoadManifest, At
  <2>2. k.doc \in Docs /\ k.got = {} /\ k.answer = {} /\ k.next = 1
    BY <1>1, <2>1 DEF Typed, Sound, Looking, Uploading
  <2>3. CASE Replies(t)
    BY <2>1, <2>3, IdleIsSound, TaskKeeps DEF Replies
  <2>4. CASE Becomes(t, WithManifest(k, None))
    <3>1. Typed(WithManifest(k, None)) /\ Sound(WithManifest(k, None))
      <4>1. ManifestOf(k.doc, None)
        BY DEF ManifestOf, IsManifest
      <4>2. QED
        BY <1>1, <2>1, <2>2, <4>1, ManifestTaken
    <3>2. QED
      BY <2>1, <2>4, <3>1, TaskKeeps
  <2>5. CASE manifests[k.doc] # None /\ Becomes(t, [k EXCEPT !.pc = "backfill", !.found = manifests[k.doc]])
    <3>1. PICK u : u = [k EXCEPT !.pc = "backfill", !.found = manifests[k.doc]]
      OBVIOUS
    <3>2. ManifestOf(k.doc, manifests[k.doc])
      BY <2>2 DEF TypeInv, Stored
    <3>3. Typed(u)
      BY <1>1, <2>1, <3>1 DEF Typed, Shaped, Pcs, Looking, Uploading, Deleting, Extracting
    <3>4. Sound(u)
      BY <1>1, <2>1, <2>5, <3>1, <3>2 DEF Typed, Shaped, Sound, Looking, Uploading, Deleting, Extracting, Ids
    <3>5. QED
      BY <2>1, <2>5, <3>1, <3>3, <3>4, TaskKeeps
  <2>6. QED
    BY <1>1, <1>5, <2>3, <2>4, <2>5 DEF LoadManifest
<1>6. QED
  BY <1>2, <1>3, <1>4, <1>5

\* A manifest that goes into the cache is one of its document.
LEMMA BackfillKeeps ==
    ASSUME TypeInv, NEW t \in Slots, Backfill(t) PROVE TypeInv'
<1>1. PICK k : k = task[t] /\ Typed(k) /\ Sound(k)
  BY DEF TypeInv
<1>2. /\ k.pc = "backfill" /\ k.doc \in Docs /\ ManifestOf(k.doc, k.found)
      /\ k.got = {} /\ k.answer = {} /\ k.next = 1
  BY <1>1 DEF Backfill, At, Typed, Sound, Looking, Uploading
<1>3. PICK l : l = [k EXCEPT !.found = None]
  OBVIOUS
<1>4. Typed(l) /\ l.pc = "backfill" /\ l.doc = k.doc /\ l.got = {} /\ l.answer = {} /\ l.next = 1
  BY <1>1, <1>2, <1>3 DEF Typed, Shaped, Pcs, Looking, Uploading, Deleting, Extracting
<1>5. PICK u : u = WithManifest(l, k.found) /\ Typed(u) /\ Sound(u)
  BY <1>2, <1>4, ManifestTaken
<1>6. /\ Becomes(t, u)
      /\ UNCHANGED <<config, parsed, manifests, texts, complete, points, extracted, promise>>
      /\ Works \/ Fails
      /\ cached' = [cached EXCEPT ![k.doc] = k.found] \/ cached' = cached
  BY <1>1, <1>3, <1>5 DEF Backfill
<1>7. Stored'
  BY <1>2, <1>6 DEF TypeInv, Stored, ManifestOf, IsManifest
<1>8. CompleteIsExtracted'
  BY <1>6 DEF TypeInv, CompleteIsExtracted
<1>9. Sound(u)'
  BY <1>5, <1>6, SoundStays
<1>10. QED
  BY <1>5, <1>6, <1>7, <1>8, <1>9, StepKeeps

\* An upload is parsed with a parser that is enabled, into at least one chunk.
LEMMA ParseKeeps ==
    ASSUME TypeInv, NEW t \in Slots, Parse(t) PROVE TypeInv'
<1>1. PICK k : k = task[t] /\ Typed(k) /\ Sound(k) /\ k.pc = "parse"
  BY DEF TypeInv, Parse, At
<1>2. UNCHANGED <<config, parsed, stores, promise>> /\ (Works \/ Fails)
  BY DEF Parse
<1>3. CASE Replies(t)
  BY <1>2, <1>3, IdleIsSound, TaskKeeps DEF Replies
<1>4. ASSUME NEW i \in DOMAIN Tiers, Tiers[i] \in config, ChunksOf(k.doc, Tiers[i]) # <<>>,
             Becomes(t, [k EXCEPT !.pc = "index", !.tier = Tiers[i],
                             !.chunks = ChunksOf(k.doc, Tiers[i])])
      PROVE  TypeInv'
  <2>1. PICK u : u = [k EXCEPT !.pc = "index", !.tier = Tiers[i], !.chunks = ChunksOf(k.doc, Tiers[i])]
    OBVIOUS
  <2>2. k.doc \in Docs /\ Tiers[i] \in TierSet
    BY <1>1 DEF Typed, TierSet
  <2>3. 1 \in DOMAIN ChunksOf(k.doc, Tiers[i])
    BY <1>4, <2>2, ChunksAreSequences DEF TypeInv
  <2>4. Typed(u)
    BY <1>1, <2>1 DEF Typed, Shaped, Pcs, Looking, Uploading, Deleting, Extracting
  <2>5. /\ u.pc = "index" /\ u.tier = Tiers[i] /\ u.chunks = ChunksOf(k.doc, Tiers[i])
        /\ u.doc = k.doc /\ u.next = 1 /\ u.op = "ingest"
    BY <1>1, <2>1 DEF Typed, Shaped, Sound, Uploading
  <2>6. Sound(u)
    BY <1>4, <2>2, <2>3, <2>5 DEF Sound, Looking, Uploading, Deleting, Extracting
  <2>7. QED
    BY <1>2, <1>4, <2>1, <2>4, <2>6, TaskKeeps
<1>5. QED
  <2>1. \/ Replies(t)
        \/ \E i \in DOMAIN Tiers :
              /\ Tiers[i] \in config /\ ChunksOf(k.doc, Tiers[i]) # <<>>
              /\ Becomes(t, [k EXCEPT !.pc = "index", !.tier = Tiers[i],
                                !.chunks = ChunksOf(k.doc, Tiers[i])])
    BY <1>1 DEF Parse
  <2>2. QED
    BY <2>1, <1>3, <1>4

\* What an upload is about to write: the chunks from the next one on, of its
\* document, under different keys from other documents'.
LEMMA UploadHolds ==
    ASSUME TypeInv, NEW k, Typed(k), Sound(k), k.pc \in Uploading
    PROVE  /\ k.doc \in Docs
           /\ Len(k.chunks) \in Nat \ {0}
           /\ DOMAIN k.chunks = 1 .. Len(k.chunks)
           /\ Manifest(k) # None
           /\ ManifestOf(k.doc, Manifest(k))
<1>1. k.doc \in Docs /\ k.tier \in TierSet \cap config /\ k.chunks = ChunksOf(k.doc, k.tier) /\ k.chunks # <<>>
  BY DEF Typed, Sound, Uploading
<1>2. /\ Len(k.chunks) \in Nat /\ DOMAIN k.chunks = 1 .. Len(k.chunks)
      /\ 1 \in DOMAIN k.chunks
      /\ [config |-> config, tier |-> k.tier,
          ids |-> {<<k.doc, ChunkId(k.chunks[i])>> : i \in DOMAIN k.chunks}] # None
  BY <1>1, ChunksAreSequences DEF TypeInv
<1>3. PICK m : m = Manifest(k)
  OBVIOUS
<1>4. m.config = config /\ m.tier = k.tier /\ m.ids = {Id(k, i) : i \in DOMAIN k.chunks} /\ m # None
  BY <1>2, <1>3 DEF Manifest, Id
<1>5. ManifestOf(k.doc, m)
  <2>1. Id(k, 1) \in m.ids /\ \A i \in DOMAIN k.chunks : Id(k, i)[1] = k.doc
    BY <1>2, <1>4 DEF Id
  <2>2. QED
    BY <1>1, <1>4, <2>1 DEF ManifestOf, IsManifest
<1>6. QED
  BY <1>1, <1>2, <1>3, <1>4, <1>5

\* Some chunks of the document are indexed, and the next batch is up.
LEMMA IndexBatchKeeps ==
    ASSUME TypeInv, NEW t \in Slots, IndexBatch(t) PROVE TypeInv'
<1>1. PICK k : k = task[t] /\ Typed(k) /\ Sound(k) /\ k.pc = "index"
  BY DEF TypeInv, IndexBatch, At
<1>2. /\ k.doc \in Docs /\ Len(k.chunks) \in Nat \ {0} /\ DOMAIN k.chunks = 1 .. Len(k.chunks)
      /\ k.next \in Nat \ {0}
  BY <1>1, UploadHolds DEF Uploading, Sound
<1>3. PICK batch : batch = {Id(k, i) : i \in Batch(k)}
  OBVIOUS
<1>4. PICK next : next = k.next + UpsertBatch
  OBVIOUS
<1>5. PICK pc : pc = IF next > Len(k.chunks) THEN "put" ELSE "index"
  OBVIOUS
<1>6. /\ \/ Works /\ DOMAIN points' = DOMAIN points \cup batch /\ Becomes(t, [k EXCEPT !.next = next, !.pc = pc])
         \/ /\ Fails /\ points' = points
            /\ Becomes(t, [k EXCEPT !.next = next, !.pc = pc, !.clean = FALSE])
         \/ NoCollection(t) /\ points' = points
      /\ UNCHANGED <<config, parsed, manifests, cached, texts, complete, extracted>>
      /\ promise' = [promise EXCEPT ![k.doc] = None]
  BY <1>1, <1>3, <1>4, <1>5 DEF IndexBatch, Doubt, redis
<1>7. Works \/ Fails
  BY <1>6 DEF NoCollection
<1>8. DOMAIN points' \subseteq DOMAIN points \cup batch
  BY <1>6
<1>9. Stored'
  <2>1. \A id \in DOMAIN points' : id[1] \in Docs
    BY <1>2, <1>3, <1>8 DEF TypeInv, Stored, Id
  <2>2. QED
    BY <1>6, <2>1 DEF TypeInv, Stored, ManifestOf, IsManifest
<1>10. CompleteIsExtracted'
  BY <1>6 DEF TypeInv, CompleteIsExtracted
<1>11. PICK u : Becomes(t, u) /\ \/ u = [k EXCEPT !.next = next, !.pc = pc]
                                 \/ u = [k EXCEPT !.next = next, !.pc = pc, !.clean = FALSE]
                                 \/ u = [k EXCEPT !.pc = "put", !.clean = FALSE]
  BY <1>1, <1>6 DEF NoCollection
<1>12. /\ u.op = k.op /\ u.pc \in {"put", "index"} /\ u.doc = k.doc /\ u.docs = k.docs
       /\ u.ids = k.ids /\ u.all = k.all /\ u.got = k.got /\ u.answer = k.answer
       /\ u.attempt = k.attempt /\ u.tier = k.tier /\ u.chunks = k.chunks
       /\ u.next \in {k.next, next}
       /\ u.pc = "index" => next <= Len(k.chunks) /\ u.next = next
       /\ Shaped(u)
  <2>1. pc \in {"put", "index"} /\ (pc = "index" => ~ next > Len(k.chunks))
    BY <1>5
  <2>2. next \in Nat \ {0}
    BY <1>2, <1>4, DocumentAssumption
  <2>3. pc = "index" => next <= Len(k.chunks)
    BY <1>2, <2>1, <2>2
  <2>4. CASE u = [k EXCEPT !.next = next, !.pc = pc]
    BY <1>1, <2>1, <2>3, <2>4 DEF Typed, Shaped
  <2>5. CASE u = [k EXCEPT !.next = next, !.pc = pc, !.clean = FALSE]
    BY <1>1, <2>1, <2>3, <2>5 DEF Typed, Shaped
  <2>6. CASE u = [k EXCEPT !.pc = "put", !.clean = FALSE]
    BY <1>1, <2>6 DEF Typed, Shaped
  <2>7. QED
    BY <1>11, <2>4, <2>5, <2>6
<1>13. Typed(u)
  BY <1>1, <1>12 DEF Typed, Pcs, Looking, Uploading, Deleting, Extracting
<1>14. Sound(u)
  <2>1. next \in Nat \ {0}
    BY <1>2, <1>4, DocumentAssumption
  <2>2. u.next \in Nat \ {0} /\ (u.pc = "index" => u.next \in DOMAIN k.chunks)
    BY <1>2, <1>12, <2>1
  <2>3. u.op = "ingest"
    BY <1>1, <1>12 DEF Typed, Uploading
  <2>4. QED
    BY <1>1, <1>12, <2>2, <2>3 DEF Sound, Looking, Uploading, Deleting, Extracting
<1>15. Sound(u)'
  BY <1>6, <1>14, SoundStays
<1>16. QED
  BY <1>6, <1>7, <1>9, <1>10, <1>11, <1>13, <1>15, StepKeeps

\* The fields of a task that only moves on.
LEMMA MovesOn ==
    ASSUME NEW k, Typed(k), NEW pc, NEW u, u = [k EXCEPT !.pc = pc]
    PROVE  /\ u.op = k.op /\ u.pc = pc /\ u.doc = k.doc /\ u.docs = k.docs /\ u.found = k.found
           /\ u.tier = k.tier /\ u.chunks = k.chunks /\ u.next = k.next
           /\ u.ids = k.ids /\ u.all = k.all /\ u.got = k.got /\ u.answer = k.answer
           /\ u.attempt = k.attempt /\ u.clean = k.clean
           /\ Shaped(u)
BY DEF Typed, Shaped

\* A manifest is put into S3, and then into the cache.
LEMMA ManifestKeeps ==
    ASSUME TypeInv, NEW t \in Slots, PutManifest(t) \/ CacheManifest(t) PROVE TypeInv'
<1>1. PICK k : k = task[t] /\ Typed(k) /\ Sound(k)
  BY DEF TypeInv
<1>2. k.pc \in Uploading
  BY <1>1 DEF PutManifest, CacheManifest, At, Uploading
<1>3. k.doc \in Docs /\ ManifestOf(k.doc, Manifest(k))
  BY <1>1, <1>2, UploadHolds
<1>4. PICK m : m = Manifest(k)
  OBVIOUS
<1>5. CASE PutManifest(t)
  <2>1. /\ UNCHANGED <<config, parsed, cached, texts, complete, points, extracted, promise>>
        /\ Works \/ Fails
        /\ \/ manifests' = [manifests EXCEPT ![k.doc] = m]
           \/ manifests' = manifests
        /\ k.pc = "put"
    BY <1>1, <1>4, <1>5 DEF PutManifest, redis, At
  <2>2. Stored'
    BY <1>3, <1>4, <2>1 DEF TypeInv, Stored, ManifestOf, IsManifest
  <2>3. CompleteIsExtracted'
    BY <2>1 DEF TypeInv, CompleteIsExtracted
  <2>4. CASE Replies(t)
    BY <2>1, <2>2, <2>3, <2>4, IdleIsSound, StepKeeps DEF Replies
  <2>5. CASE Goes(t, "cache")
    <3>1. PICK u : u = [k EXCEPT !.pc = "cache"]
      OBVIOUS
    <3>2. Becomes(t, u)
      BY <1>1, <2>5, <3>1 DEF Goes
    <3>3. Typed(u)
      BY <1>1, <2>1, <3>1, MovesOn DEF Typed, Pcs, Looking, Uploading, Deleting, Extracting
    <3>4. Sound(u)
      BY <1>1, <2>1, <3>1, MovesOn DEF Typed, Sound, Looking, Uploading, Deleting, Extracting
    <3>5. Sound(u)'
      BY <2>1, <3>4, SoundStays
    <3>6. QED
      BY <2>1, <2>2, <2>3, <3>2, <3>3, <3>5, StepKeeps
  <2>6. QED
    BY <1>5, <2>4, <2>5 DEF PutManifest
<1>6. CASE CacheManifest(t)
  <2>1. /\ UNCHANGED <<config, parsed, manifests, texts, complete, points, extracted>>
        /\ Works \/ Fails
        /\ \/ cached' = [cached EXCEPT ![k.doc] = m]
           \/ cached' = cached
        /\ Replies(t)
        /\ DOMAIN promise' = DOMAIN promise
    BY <1>1, <1>4, <1>6 DEF CacheManifest
  <2>2. Stored'
    BY <1>3, <1>4, <2>1 DEF TypeInv, Stored, ManifestOf, IsManifest
  <2>3. CompleteIsExtracted'
    BY <2>1 DEF TypeInv, CompleteIsExtracted
  <2>4. QED
    BY <2>1, <2>2, <2>3, IdleIsSound, StepKeeps DEF Replies
<1>7. QED
  BY <1>5, <1>6

\* A deletion only takes away.
LEMMA DeletionKeeps ==
    ASSUME TypeInv, NEW t \in Slots,
           DeleteChunks(t) \/ ClearStatus(t) \/ RemoveManifest(t) \/ UncacheManifest(t)
    PROVE  TypeInv'
<1>1. PICK k : k = task[t] /\ Typed(k) /\ Sound(k)
  BY DEF TypeInv
<1>2. k.pc \in Deleting
  BY <1>1 DEF DeleteChunks, ClearStatus, RemoveManifest, UncacheManifest, At, Deleting
<1>3. /\ k.doc \in Docs /\ k.ids # {} /\ k.op = "delete" /\ k.next = 1
      /\ \A id \in k.ids : id[1] = k.doc
  BY <1>1, <1>2 DEF Typed, Sound, Deleting, Pcs, Uploading
<1>4. CASE DeleteChunks(t)
  <2>1. /\ UNCHANGED <<config, parsed, manifests, cached, texts, complete, extracted>>
        /\ Works \/ Fails
        /\ DOMAIN points' \subseteq DOMAIN points
        /\ DOMAIN promise' = DOMAIN promise
        /\ k.pc = "unindex"
    BY <1>1, <1>4 DEF DeleteChunks, redis, At, Doubt
  <2>2. Stored'
    BY <2>1 DEF TypeInv, Stored, ManifestOf, IsManifest
  <2>3. CompleteIsExtracted'
    BY <2>1 DEF TypeInv, CompleteIsExtracted
  <2>4. PICK u : Becomes(t, u) /\ \/ u = [k EXCEPT !.pc = "clear", !.got = k.ids]
                                  \/ u = [k EXCEPT !.pc = "clear", !.got = k.ids, !.clean = FALSE]
    BY <1>1, <1>4 DEF DeleteChunks
  <2>5. /\ u.op = k.op /\ u.pc = "clear" /\ u.doc = k.doc /\ u.docs = k.docs
        /\ u.ids = k.ids /\ u.all = k.all /\ u.got = k.ids /\ u.next = k.next
        /\ u.attempt = k.attempt
        /\ Shaped(u)
    BY <1>1, <2>4 DEF Typed, Shaped
  <2>6. Typed(u)
    BY <1>1, <1>3, <2>5 DEF Typed, Pcs, Looking, Uploading, Deleting, Extracting, Ops
  <2>7. Sound(u)
    BY <1>3, <2>5 DEF Sound, Looking, Uploading, Deleting, Extracting
  <2>8. Sound(u)'
    BY <2>1, <2>7, SoundStays
  <2>9. QED
    BY <2>1, <2>2, <2>3, <2>4, <2>6, <2>8, StepKeeps
<1>5. CASE ClearStatus(t)
  <2>1. PICK id : id = CHOOSE i \in k.got : TRUE
    OBVIOUS
  <2>2. PICK pc : pc = IF k.got = {id} THEN "remove" ELSE "clear"
    OBVIOUS
  <2>3. PICK rest : rest = [k EXCEPT !.got = @ \ {id}, !.pc = pc]
    OBVIOUS
  <2>4. /\ UNCHANGED <<config, parsed, manifests, cached, texts, points, extracted, promise>>
        /\ Works \/ Fails
        /\ complete' \subseteq complete
        /\ k.pc = "clear"
        /\ Becomes(t, rest) \/ Becomes(t, [rest EXCEPT !.clean = FALSE])
    BY <1>1, <1>5, <2>1, <2>2, <2>3 DEF ClearStatus, At
  <2>5. Stored'
    BY <2>4 DEF TypeInv, Stored, ManifestOf, IsManifest
  <2>6. CompleteIsExtracted'
    BY <2>4 DEF TypeInv, CompleteIsExtracted
  <2>7. PICK u : Becomes(t, u) /\ (u = rest \/ u = [rest EXCEPT !.clean = FALSE])
    BY <2>4
  <2>8. k.got # {} /\ id \in k.got
    BY <1>1, <2>1, <2>4 DEF Sound
  <2>9. /\ u.op = k.op /\ u.pc = pc /\ u.doc = k.doc /\ u.docs = k.docs
        /\ u.ids = k.ids /\ u.all = k.all /\ u.got = k.got \ {id} /\ u.next = k.next
        /\ u.attempt = k.attempt
        /\ Shaped(u)
    BY <1>1, <2>3, <2>7 DEF Typed, Shaped
  <2>10. pc \in {"remove", "clear"} /\ (pc = "clear" => k.got \ {id} # {})
    BY <2>2, <2>8
  <2>11. Typed(u)
    BY <1>1, <1>3, <2>9, <2>10 DEF Typed, Pcs, Looking, Uploading, Deleting, Extracting, Ops
  <2>12. Sound(u)
    BY <1>3, <2>9, <2>10 DEF Sound, Looking, Uploading, Deleting, Extracting
  <2>13. Sound(u)'
    BY <2>4, <2>12, SoundStays
  <2>14. QED
    BY <2>4, <2>5, <2>6, <2>7, <2>11, <2>13, StepKeeps
<1>6. CASE RemoveManifest(t)
  <2>1. /\ UNCHANGED <<config, parsed, cached, texts, complete, points, extracted, promise>>
        /\ Works \/ Fails
        /\ \/ manifests' = [manifests EXCEPT ![k.doc] = None]
           \/ manifests' = manifests
    BY <1>1, <1>6 DEF RemoveManifest, redis
  <2>2. Stored'
    BY <1>3, <2>1 DEF TypeInv, Stored, ManifestOf, IsManifest
  <2>3. CompleteIsExtracted'
    BY <2>1 DEF TypeInv, CompleteIsExtracted
  <2>4. CASE Replies(t)
    BY <2>1, <2>2, <2>3, <2>4, IdleIsSound, StepKeeps DEF Replies
  <2>5. CASE Goes(t, "uncache")
    <3>1. PICK u : u = [k EXCEPT !.pc = "uncache"]
      OBVIOUS
    <3>2. Becomes(t, u)
      BY <1>1, <2>5, <3>1 DEF Goes
    <3>3. Typed(u)
      BY <1>1, <1>3, <3>1, MovesOn DEF Typed, Pcs, Looking, Uploading, Deleting, Extracting, Ops
    <3>4. Sound(u)
      BY <1>1, <1>3, <3>1, MovesOn DEF Sound, Looking, Uploading, Deleting, Extracting
    <3>5. Sound(u)'
      BY <2>1, <3>4, SoundStays
    <3>6. QED
      BY <2>1, <2>2, <2>3, <3>2, <3>3, <3>5, StepKeeps
  <2>6. QED
    BY <1>6, <2>4, <2>5 DEF RemoveManifest
<1>7. CASE UncacheManifest(t)
  <2>1. /\ UNCHANGED <<config, parsed, manifests, texts, complete, points, extracted>>
        /\ Works \/ Fails
        /\ \/ cached' = [cached EXCEPT ![k.doc] = None]
           \/ cached' = cached
        /\ Replies(t)
        /\ DOMAIN promise' = DOMAIN promise
    BY <1>1, <1>7 DEF UncacheManifest, Uncached
  <2>2. Stored'
    BY <1>3, <2>1 DEF TypeInv, Stored, ManifestOf, IsManifest
  <2>3. CompleteIsExtracted'
    BY <2>1 DEF TypeInv, CompleteIsExtracted
  <2>4. QED
    BY <2>1, <2>2, <2>3, IdleIsSound, StepKeeps DEF Replies
<1>8. QED
  BY <1>4, <1>5, <1>6, <1>7

\* A step of an extraction that marks, finishes or forgets statuses.
LEMMA ExtractionStep ==
    ASSUME TypeInv, NEW t \in Slots, NEW u, Becomes(t, u), Typed(u), Sound(u)',
           Works \/ Fails, complete' \subseteq complete,
           UNCHANGED <<config, parsed, manifests, cached, points, promise>>,
           \A id \in DOMAIN texts' : id[1] \in Docs, extracted \subseteq extracted'
    PROVE  TypeInv'
<1>1. Stored'
  BY DEF TypeInv, Stored, ManifestOf, IsManifest
<1>2. CompleteIsExtracted'
  BY DEF TypeInv, CompleteIsExtracted
<1>3. QED
  BY <1>1, <1>2, StepKeeps

\* An extraction until it has the texts of its chunks.
LEMMA FetchKeeps ==
    ASSUME TypeInv, NEW t \in Slots, SkipComplete(t) \/ MarkRunning(t) \/ FetchText(t)
    PROVE  TypeInv'
<1>1. PICK k : k = task[t] /\ Typed(k) /\ Sound(k)
  BY DEF TypeInv
<1>2. k.pc \in {"pending", "mark", "text"}
  BY <1>1 DEF SkipComplete, MarkRunning, FetchText, At
<1>3. /\ k.doc \in Docs /\ k.op = "extract" /\ k.next = 1
      /\ \A id \in k.ids \cup k.all : id[1] \in Docs
      /\ Ids(k.got \cup k.answer) \subseteq k.all
  BY <1>1, <1>2 DEF Typed, Sound, Extracting, Uploading
<1>4. CASE SkipComplete(t)
  <2>1. PICK todo : todo = k.ids \ complete
    OBVIOUS
  <2>2. UNCHANGED <<config, parsed, stores, promise>> /\ Works /\ k.pc = "pending"
    BY <1>1, <1>4 DEF SkipComplete, At
  <2>3. CASE Replies(t)
    BY <2>2, <2>3, IdleIsSound, TaskKeeps DEF Replies
  <2>4. CASE ~ Replies(t)
    <3>1. PICK u : u = [k EXCEPT !.pc = "mark", !.ids = todo, !.all = todo]
      OBVIOUS
    <3>2. Becomes(t, u) /\ todo # {}
      BY <1>1, <1>4, <2>1, <2>4, <3>1 DEF SkipComplete
    <3>3. /\ u.op = k.op /\ u.pc = "mark" /\ u.doc = k.doc /\ u.docs = k.docs
          /\ u.ids = todo /\ u.all = todo /\ u.got = k.got /\ u.answer = k.answer
          /\ u.attempt = k.attempt /\ u.next = k.next
          /\ Shaped(u)
      BY <1>1, <3>1 DEF Typed, Shaped
    <3>4. Typed(u)
      BY <1>1, <1>3, <2>1, <3>3 DEF Typed, Pcs, Looking, Uploading, Deleting, Extracting, Ops
    <3>5. k.got = {} /\ k.answer = {}
      BY <1>1, <2>2 DEF Sound
    <3>6. Sound(u)
      BY <1>3, <3>2, <3>3, <3>5 DEF Sound, Looking, Uploading, Deleting, Extracting, Ids
    <3>7. QED
      BY <2>2, <3>2, <3>4, <3>6, TaskKeeps
  <2>5. QED
    BY <2>3, <2>4
<1>5. CASE MarkRunning(t)
  <2>1. /\ UNCHANGED <<config, parsed, manifests, cached, texts, points, extracted, promise>>
        /\ Works \/ Fails
        /\ complete' \subseteq complete
        /\ k.pc = "mark"
        /\ Goes(t, "text")
    BY <1>1, <1>5 DEF MarkRunning, At
  <2>2. PICK u : u = [k EXCEPT !.pc = "text"]
    OBVIOUS
  <2>3. Becomes(t, u)
    BY <1>1, <2>1, <2>2 DEF Goes
  <2>4. Typed(u)
    BY <1>1, <1>3, <2>2, MovesOn DEF Typed, Pcs, Looking, Uploading, Deleting, Extracting, Ops
  <2>5. k.ids # {} /\ k.ids \subseteq k.all
    BY <1>1, <2>1 DEF Sound
  <2>6. /\ u.pc = "text" /\ u.op = "extract" /\ u.next = 1 /\ u.ids = k.ids
        /\ u.all = k.all /\ u.got = k.got /\ u.answer = k.answer
    BY <1>1, <1>3, <2>2, MovesOn
  <2>7. Sound(u)
    BY <1>3, <2>5, <2>6 DEF Sound, Looking, Uploading, Deleting, Extracting
  <2>8. Sound(u)'
    BY <2>1, <2>7, SoundStays
  <2>9. \A id \in DOMAIN texts' : id[1] \in Docs
    BY <2>1 DEF TypeInv, Stored
  <2>10. QED
    BY <2>1, <2>3, <2>4, <2>8, <2>9, ExtractionStep
<1>6. CASE FetchText(t)
  <2>1. /\ UNCHANGED <<config, parsed, manifests, cached, points, extracted, promise>>
        /\ Works \/ Fails
        /\ k.pc = "text"
    BY <1>1, <1>6 DEF FetchText, At
  <2>2. PICK id : id = CHOOSE i \in k.ids : TRUE
    OBVIOUS
  <2>3. k.ids \subseteq k.all /\ id \in k.ids /\ id \in k.all
    BY <1>1, <2>1, <2>2 DEF Sound
  <2>4. PICK got :
          /\ \/ got = k.got
             \/ \E text : got = k.got \cup {<<id, text>>}
          /\ Becomes(t, IF k.ids = {id} /\ got = {} THEN Idle
                        ELSE [k EXCEPT !.ids = @ \ {id}, !.got = got,
                                !.pc = IF k.ids = {id} THEN "ask" ELSE "text"])
          /\ complete' \subseteq complete
          /\ DOMAIN texts' \subseteq DOMAIN texts \cup {id}
    BY <1>1, <1>6, <2>2 DEF FetchText
  <2>5. \A i \in DOMAIN texts' : i[1] \in Docs
    BY <1>3, <2>3, <2>4 DEF TypeInv, Stored
  <2>6. CASE Becomes(t, Idle)
    BY <2>1, <2>4, <2>5, <2>6, IdleIsSound, ExtractionStep
  <2>7. CASE ~ Becomes(t, Idle)
    <3>1. PICK pc : pc = IF k.ids = {id} THEN "ask" ELSE "text"
      OBVIOUS
    <3>2. PICK u : u = [k EXCEPT !.ids = @ \ {id}, !.got = got, !.pc = pc]
      OBVIOUS
    <3>3. Becomes(t, u)
      BY <2>4, <2>7, <3>1, <3>2
    <3>4. /\ u.op = k.op /\ u.pc = pc /\ u.doc = k.doc /\ u.docs = k.docs
          /\ u.ids = k.ids \ {id} /\ u.all = k.all /\ u.got = got /\ u.answer = k.answer
          /\ u.attempt = k.attempt /\ u.next = k.next
          /\ Shaped(u)
      BY <1>1, <3>2 DEF Typed, Shaped
    <3>5. pc \in {"ask", "text"} /\ (pc = "text" => k.ids \ {id} # {})
      BY <2>3, <3>1
    <3>6. Typed(u)
      BY <1>1, <1>3, <3>4, <3>5 DEF Typed, Pcs, Looking, Uploading, Deleting, Extracting, Ops
    <3>7. Ids(got \cup k.answer) \subseteq k.all
      BY <1>3, <2>3, <2>4 DEF Ids
    <3>8. Sound(u)
      BY <1>3, <2>3, <3>4, <3>5, <3>7 DEF Sound, Looking, Uploading, Deleting, Extracting
    <3>9. Sound(u)'
      BY <2>1, <3>8, SoundStays
    <3>10. QED
      BY <2>1, <2>4, <2>5, <3>3, <3>6, <3>9, ExtractionStep
  <2>8. QED
    BY <2>6, <2>7
<1>7. QED
  BY <1>4, <1>5, <1>6

\* The answer of the model, and what is taken of it.
LEMMA AnswerKeeps ==
    ASSUME TypeInv, NEW t \in Slots, AskModel(t) \/ ValidateAnswer(t) PROVE TypeInv'
<1>1. PICK k : k = task[t] /\ Typed(k) /\ Sound(k)
  BY DEF TypeInv
<1>2. k.pc \in {"ask", "validate"}
  BY <1>1 DEF AskModel, ValidateAnswer, At
<1>3. /\ k.doc \in Docs /\ k.op = "extract" /\ k.next = 1
      /\ \A id \in k.ids \cup k.all : id[1] \in Docs
      /\ Ids(k.got \cup k.answer) \subseteq k.all
      /\ k.attempt \in 1 .. MaxAttempts
  BY <1>1, <1>2 DEF Typed, Sound, Extracting, Uploading
<1>4. /\ UNCHANGED <<config, parsed, manifests, cached, texts, points, extracted, promise>>
      /\ Works \/ Fails
      /\ complete' \subseteq complete
  BY DEF AskModel, ValidateAnswer
<1>5. \A id \in DOMAIN texts' : id[1] \in Docs
  BY <1>4 DEF TypeInv, Stored
<1>6. CASE Replies(t)
  BY <1>4, <1>5, <1>6, IdleIsSound, ExtractionStep DEF Replies
<1>7. ASSUME NEW answer \in SUBSET (k.got \cup k.answer), NEW pc \in {"validate", "write"},
             pc = "write" => answer # {},
             Becomes(t, [k EXCEPT !.pc = pc, !.answer = answer])
      PROVE  TypeInv'
  <2>1. PICK u : u = [k EXCEPT !.pc = pc, !.answer = answer]
    OBVIOUS
  <2>2. /\ u.op = k.op /\ u.pc = pc /\ u.doc = k.doc /\ u.docs = k.docs
        /\ u.ids = k.ids /\ u.all = k.all /\ u.got = k.got /\ u.answer = answer
        /\ u.attempt = k.attempt /\ u.next = k.next
        /\ Shaped(u)
    BY <1>1, <2>1 DEF Typed, Shaped
  <2>3. Typed(u)
    BY <1>1, <1>3, <2>2 DEF Typed, Pcs, Looking, Uploading, Deleting, Extracting, Ops
  <2>4. Ids(k.got \cup answer) \subseteq k.all
    BY <1>3 DEF Ids
  <2>5. Sound(u)
    BY <1>3, <1>7, <2>2, <2>4 DEF Sound, Looking, Uploading, Deleting, Extracting
  <2>6. Sound(u)'
    BY <1>4, <2>5, SoundStays
  <2>7. QED
    BY <1>4, <1>5, <1>7, <2>1, <2>3, <2>6, ExtractionStep
<1>8. ASSUME Becomes(t, [k EXCEPT !.attempt = @ + 1]), Retries(k), AskModel(t)
      PROVE  TypeInv'
  <2>1. PICK u : u = [k EXCEPT !.attempt = @ + 1]
    OBVIOUS
  <2>2. /\ u.op = k.op /\ u.pc = k.pc /\ u.doc = k.doc /\ u.docs = k.docs
        /\ u.ids = k.ids /\ u.all = k.all /\ u.got = k.got /\ u.answer = k.answer
        /\ u.attempt = k.attempt + 1 /\ u.next = k.next
        /\ Shaped(u)
    BY <1>1, <2>1 DEF Typed, Shaped
  <2>3. k.pc = "ask" /\ k.attempt + 1 \in 1 .. MaxAttempts
    <3>1. k.pc = "ask" /\ k.attempt < MaxAttempts
      BY <1>1, <1>8 DEF AskModel, At, Retries
    <3>2. MaxAttempts \in Nat
      BY DocumentAssumption
    <3>3. QED
      BY <1>3, <3>1, <3>2
  <2>4. Typed(u)
    BY <1>1, <1>3, <2>2, <2>3 DEF Typed, Pcs, Looking, Uploading, Deleting, Extracting, Ops
  <2>5. Sound(u)
    BY <1>3, <2>2, <2>3 DEF Sound, Looking, Uploading, Deleting, Extracting
  <2>6. Sound(u)'
    BY <1>4, <2>5, SoundStays
  <2>7. QED
    BY <1>4, <1>5, <1>8, <2>1, <2>4, <2>6, ExtractionStep
<1>9. CASE AskModel(t)
  BY <1>1, <1>6, <1>7, <1>8, <1>9 DEF AskModel
<1>10. CASE ValidateAnswer(t)
  BY <1>1, <1>6, <1>7, <1>10 DEF ValidateAnswer, Conforming
<1>11. QED
  BY <1>9, <1>10

\* A result is in the graph before its chunk is reported complete.
LEMMA WriteKeeps ==
    ASSUME TypeInv, NEW t \in Slots, WriteResult(t) \/ ReportComplete(t) PROVE TypeInv'
<1>1. PICK k : k = task[t] /\ Typed(k) /\ Sound(k)
  BY DEF TypeInv
<1>2. k.pc \in {"write", "report"}
  BY <1>1 DEF WriteResult, ReportComplete, At
<1>3. /\ k.doc \in Docs /\ k.op = "extract" /\ k.next = 1 /\ k.answer # {}
      /\ \A id \in k.ids \cup k.all : id[1] \in Docs
      /\ Ids(k.got \cup k.answer) \subseteq k.all
  BY <1>1, <1>2 DEF Typed, Sound, Extracting, Uploading
<1>4. PICK result : result = CHOOSE r \in k.answer : TRUE
  OBVIOUS
<1>5. result \in k.answer /\ result[1] \in k.all
  BY <1>3, <1>4 DEF Ids
<1>6. \A id \in DOMAIN texts : id[1] \in Docs
  BY DEF TypeInv, Stored
\* What is left of the answer, with the next result to write.
<1>7. ASSUME NEW u, u = [k EXCEPT !.pc = "write", !.answer = @ \ {result}], k.answer # {result}
      PROVE  Typed(u) /\ Sound(u)
  <2>1. /\ u.op = k.op /\ u.pc = "write" /\ u.doc = k.doc /\ u.docs = k.docs
        /\ u.ids = k.ids /\ u.all = k.all /\ u.got = k.got /\ u.answer = k.answer \ {result}
        /\ u.attempt = k.attempt /\ u.next = k.next
        /\ Shaped(u)
    BY <1>1, <1>7 DEF Typed, Shaped
  <2>2. Typed(u)
    BY <1>1, <1>3, <2>1 DEF Typed, Pcs, Looking, Uploading, Deleting, Extracting, Ops
  <2>3. Ids(u.got \cup u.answer) \subseteq k.all /\ u.answer # {}
    BY <1>3, <1>7, <2>1 DEF Ids
  <2>4. Sound(u)
    BY <1>3, <2>1, <2>3 DEF Sound, Looking, Uploading, Deleting, Extracting
  <2>5. QED
    BY <2>2, <2>4
<1>8. CASE WriteResult(t)
  <2>1. /\ UNCHANGED <<config, parsed, manifests, cached, texts, points, promise>>
        /\ Works \/ Fails
        /\ complete' \subseteq complete
        /\ k.pc = "write"
        /\ extracted' = extracted \/ extracted' = extracted \cup {result}
    BY <1>1, <1>4, <1>8 DEF WriteResult, At
  <2>2. CASE Replies(t)
    BY <1>6, <2>1, <2>2, IdleIsSound, ExtractionStep DEF Replies
  <2>3. CASE Goes(t, "report") /\ extracted' = extracted \cup {result}
    <3>1. PICK u : u = [k EXCEPT !.pc = "report"]
      OBVIOUS
    <3>2. Becomes(t, u)
      BY <1>1, <2>3, <3>1 DEF Goes
    <3>3. Typed(u)
      BY <1>1, <1>3, <3>1, MovesOn DEF Typed, Pcs, Looking, Uploading, Deleting, Extracting, Ops
    <3>4. /\ u.pc = "report" /\ u.op = "extract" /\ u.next = 1 /\ u.answer = k.answer
          /\ u.got = k.got /\ u.all = k.all
      BY <1>1, <1>3, <3>1, MovesOn
    <3>5. Sound(u)'
      BY <1>3, <1>4, <2>3, <3>4 DEF Sound, Looking, Uploading, Deleting, Extracting, Ids
    <3>6. QED
      BY <1>6, <2>1, <3>2, <3>3, <3>5, ExtractionStep
  <2>4. CASE \E u : Becomes(t, u) /\ u = [k EXCEPT !.answer = @ \ {result}] /\ k.answer # {result}
    <3>1. PICK u : Becomes(t, u) /\ u = [k EXCEPT !.answer = @ \ {result}] /\ k.answer # {result}
      BY <2>4
    <3>2. PICK w : w = [k EXCEPT !.pc = "write", !.answer = @ \ {result}]
      OBVIOUS
    <3>3. u = w
      BY <1>1, <2>1, <3>1, <3>2 DEF Typed, Shaped
    <3>4. Typed(u) /\ Sound(u)
      BY <1>7, <3>1, <3>2, <3>3
    <3>5. Sound(u)'
      BY <2>1, <3>4, SoundStays
    <3>6. QED
      BY <1>6, <2>1, <3>1, <3>4, <3>5, ExtractionStep
  <2>5. QED
    <3>1. PICK rest : rest = [k EXCEPT !.answer = @ \ {result}]
      OBVIOUS
    <3>2. rest.answer = k.answer \ {result}
      BY <1>1, <3>1 DEF Typed, Shaped
    <3>3. \/ Goes(t, "report") /\ extracted' = extracted \cup {result}
          \/ IF rest.answer = {} THEN Replies(t) ELSE Becomes(t, rest)
      BY <1>1, <1>4, <1>8, <3>1 DEF WriteResult
    <3>4. QED
      BY <2>2, <2>3, <2>4, <3>1, <3>2, <3>3
<1>9. CASE ReportComplete(t)
  <2>1. /\ UNCHANGED <<config, parsed, manifests, cached, texts, points, extracted, promise>>
        /\ Works \/ Fails
        /\ complete' \subseteq complete \cup {result[1]}
        /\ k.pc = "report"
        /\ IF k.answer = {result} THEN Replies(t)
           ELSE Becomes(t, [k EXCEPT !.pc = "write", !.answer = @ \ {result}])
    BY <1>1, <1>4, <1>9 DEF ReportComplete, At
  <2>2. result \in extracted
    BY <1>1, <1>4, <2>1 DEF Sound
  <2>3. Stored'
    BY <1>3, <1>5, <2>1 DEF TypeInv, Stored, ManifestOf, IsManifest
  <2>4. CompleteIsExtracted'
    BY <2>1, <2>2 DEF TypeInv, CompleteIsExtracted
  <2>5. CASE Replies(t)
    BY <2>1, <2>3, <2>4, <2>5, IdleIsSound, StepKeeps DEF Replies
  <2>6. CASE ~ Replies(t)
    <3>1. PICK u : u = [k EXCEPT !.pc = "write", !.answer = @ \ {result}]
      OBVIOUS
    <3>2. Becomes(t, u) /\ Typed(u) /\ Sound(u)
      BY <1>7, <2>1, <2>6, <3>1
    <3>3. Sound(u)'
      BY <2>1, <3>2, SoundStays
    <3>4. QED
      BY <2>1, <2>3, <2>4, <3>2, <3>3, StepKeeps
  <2>7. QED
    BY <2>5, <2>6
<1>10. QED
  BY <1>8, <1>9

(***************************************************************************)
(* Types                                                                   *)
(***************************************************************************)
\* The environment starts the processes again, or lets keys expire.
LEMMA EnvironmentKeeps ==
    ASSUME TypeInv, Restart \/ Expire PROVE TypeInv'
<1>1. CASE Restart
  <2>1. PICK s \in Scenarios :
          /\ left = [ops |-> s.ops, requests |-> left.requests, faults |-> left.faults,
                     docs |-> s.docs, configs |-> s.configs]
          /\ parsed \in s.parses
    BY DEF TypeInv, OfScenario
  <2>2. /\ config' \in s.configs /\ parsed' = parsed
        /\ left' = [ops |-> s.ops, requests |-> left'.requests, faults |-> left'.faults,
                    docs |-> s.docs, configs |-> s.configs]
    BY <1>1, <2>1 DEF Restart, Fails
  <2>3. OfScenario'
    BY <2>1, <2>2 DEF OfScenario
  <2>4. Stored' /\ CompleteIsExtracted'
    BY <1>1 DEF Restart, stores, redis, TypeInv, Stored, ManifestOf, IsManifest, CompleteIsExtracted
  <2>5. DOMAIN task' = Slots /\ \A v \in Slots : Typed(task[v])' /\ Sound(task[v])'
    <3>1. \A v \in Slots : task'[v] = Idle
      BY <1>1 DEF Restart
    <3>2. ASSUME NEW v \in Slots PROVE Typed(task[v])' /\ Sound(task[v])'
      <4>1. Typed(Idle) /\ Sound(Idle)'
        BY IdleIsSound
      <4>2. QED
        BY <3>1, <4>1, InItsPlace
    <3>3. QED
      BY <1>1, <3>2 DEF Restart
  <2>6. QED
    BY <2>3, <2>4, <2>5 DEF TypeInv
<1>2. CASE Expire
  <2>1. /\ UNCHANGED <<config, parsed, manifests, points, extracted, task, promise, left>>
        /\ complete' \subseteq complete
        /\ DOMAIN texts' \subseteq DOMAIN texts
        /\ DOMAIN cached' = DOMAIN cached
        /\ \A d \in Docs : cached'[d] \in {None, cached[d]}
    BY <1>2 DEF Expire, TypeInv, Stored
  <2>2. Stored' /\ CompleteIsExtracted'
    BY <2>1 DEF TypeInv, Stored, ManifestOf, IsManifest, CompleteIsExtracted
  <2>3. OfScenario' /\ DOMAIN task' = Slots
    BY <2>1 DEF TypeInv, OfScenario
  <2>4. ASSUME NEW v \in Slots PROVE Typed(task[v])' /\ Sound(task[v])'
    <3>1. PICK k : k = task[v] /\ Typed(k) /\ Sound(k)
      BY DEF TypeInv
    <3>2. Sound(k)'
      BY <2>1, <3>1, SoundStays
    <3>3. task'[v] = k
      BY <2>1, <3>1
    <3>4. QED
      BY <3>1, <3>2, <3>3, InItsPlace
  <2>5. QED
    BY <2>2, <2>3, <2>4 DEF TypeInv
<1>3. QED
  BY <1>1, <1>2

\* The documents start in order.
LEMMA InitSound == Init => TypeInv
<1> SUFFICES ASSUME Init PROVE TypeInv
  OBVIOUS
<1>1. OfScenario
  BY DEF Init, OfScenario
<1>2. Stored /\ CompleteIsExtracted
  BY DEF Init, Stored, ManifestOf, IsManifest, CompleteIsExtracted
<1>3. DOMAIN task = Slots /\ \A v \in Slots : task[v] = Idle
  BY DEF Init
<1>4. QED
  BY <1>1, <1>2, <1>3, IdleIsSound DEF TypeInv

\* Every step keeps the invariant.
LEMMA NextSound == TypeInv /\ [Next]_vars => TypeInv'
<1> SUFFICES ASSUME TypeInv, [Next]_vars PROVE TypeInv'
  OBVIOUS
<1>1. ASSUME NEW t \in Slots, Step(t) PROVE TypeInv'
  <2>1. CASE ReadChunks(t)
    BY <2>1, IdleIsSound, TaskKeeps DEF ReadChunks, Replies
  <2>2. QED
    BY <1>1, <2>1, LookingKeeps, BackfillKeeps, ParseKeeps, IndexBatchKeeps, ManifestKeeps,
       DeletionKeeps, FetchKeeps, AnswerKeeps, WriteKeeps DEF Step
<1>2. CASE UNCHANGED vars
  <2>1. /\ UNCHANGED <<config, parsed, manifests, cached, texts, complete, points, extracted>>
        /\ UNCHANGED <<task, promise, left>>
    BY <1>2 DEF vars, stores, redis
  <2>2. ASSUME NEW v \in Slots PROVE Typed(task[v])' /\ Sound(task[v])'
    <3>1. PICK k : k = task[v] /\ Typed(k) /\ Sound(k)
      BY DEF TypeInv
    <3>2. Sound(k)'
      BY <2>1, <3>1, SoundStays
    <3>3. task'[v] = k
      BY <2>1, <3>1
    <3>4. QED
      BY <3>1, <3>2, <3>3, InItsPlace
  <2>3. OfScenario' /\ Stored' /\ CompleteIsExtracted' /\ DOMAIN task' = Slots
    BY <2>1 DEF TypeInv, OfScenario, Stored, ManifestOf, IsManifest, CompleteIsExtracted
  <2>4. QED
    BY <2>2, <2>3 DEF TypeInv
<1>3. QED
  BY <1>1, <1>2, EnvironmentKeeps DEF Next

\* The inductive invariant.
THEOREM DocumentsSound == Spec => []TypeInv
BY InitSound, NextSound, PTL DEF Spec

\* TypeOK, for every number of requests, documents, parsers, faults and attempts.
THEOREM TypeCorrect == Spec => []TypeOK
<1>1. TypeInv => TypeOK
  BY DEF TypeInv, TypeOK, Stored, ManifestOf, Typed, Sound, At
<1>2. QED
  BY <1>1, DocumentsSound, PTL

\* ChunksAreSound, for every document, parser, number of requests and fault: the
\* chunks an upload begins to index are as chunk_document promises.
THEOREM ChunksAlwaysSound == Spec => []ChunksAreSound
<1>1. TypeInv => ChunksAreSound
  <2> SUFFICES ASSUME TypeInv, NEW t \in Slots, NEW k, k = task[t], k.pc = "index"
               PROVE  WellChunked(parsed[k.doc][k.tier], k.chunks)
    BY DEF ChunksAreSound, At
  <2>1. Typed(k) /\ Sound(k) /\ OfScenario
    BY DEF TypeInv
  <2>2. k.doc \in Docs
    BY <2>1 DEF Typed, Looking, Uploading, Deleting, Extracting
  <2>3. k.tier \in TierSet /\ k.chunks = ChunksOf(k.doc, k.tier) /\ k.chunks # <<>>
    BY <2>1 DEF Sound, Uploading
  <2>4. QED
    BY <2>1, <2>2, <2>3, ChunksAreSequences
<1>2. QED
  BY <1>1, DocumentsSound, PTL

(***************************************************************************)
(* The stores agree: what a step leaves alone                              *)
(***************************************************************************)
\* A request that is over has nothing to lose.
LEMMA IdleUndisturbed == Undisturbed(Idle) /\ Undisturbed(Idle)'
BY DEF Undisturbed, Idle, Uploading

\* What is known of a task by itself is known of it in its place.
LEMMA UndisturbedInItsPlace ==
    ASSUME NEW v, \A k : k = task'[v] => Undisturbed(k)'
    PROVE  Undisturbed(task[v])'
BY DEF Undisturbed

\* A status that goes disturbs no request.
LEMMA UndisturbedStays ==
    ASSUME NEW k, Undisturbed(k), complete' \subseteq complete,
           UNCHANGED <<config, manifests, points, promise>>
    PROVE  Undisturbed(k)'
BY DEF Undisturbed, IsIndexed, IsGone, Manifest

\* Nor does what is said of a document change, if its manifest is only cached.
LEMMA KeptStays ==
    ASSUME NEW d, Kept(d), complete' \subseteq complete,
           UNCHANGED <<manifests, points, promise>>,
           \/ cached'[d] \in {None, cached[d]}
           \/ manifests[d] # None /\ cached'[d] = manifests[d]
    PROVE  Kept(d)'
BY DEF Kept, Served, Gone, IsGone

\* A request that goes on does not cross one it has not crossed before.
LEMMA ApartStays ==
    ASSUME DOMAIN task = Slots, Apart, NEW t \in Slots, NEW u, Becomes(t, u),
           \/ u.pc = "idle"
           \/ /\ ~ At(t, "idle")
              /\ u.op = task[t].op
              /\ u.doc = task[t].doc \/ u.op \in {"list", "extract"}
    PROVE  Apart'
<1> SUFFICES ASSUME NEW v \in Slots, NEW w \in Slots, v # w,
                    task'[v].pc # "idle", task'[w].pc # "idle"
             PROVE  ~ Crosses(task'[v], task'[w])
  BY DEF Apart, At, Crosses
<1>1. task'[t] = u /\ \A x \in Slots \ {t} : task'[x] = task[x]
  BY DEF Becomes
<1>2. CASE v = t
  <2>1. task[v].pc # "idle" /\ task[w].pc # "idle" /\ task'[w] = task[w] /\ task'[v] = u
    BY <1>1, <1>2 DEF At
  <2>2. ~ Crosses(task[v], task[w])
    BY <2>1 DEF Apart, At
  <2>3. QED
    BY <1>2, <2>1, <2>2 DEF Crosses
<1>3. CASE w = t
  <2>1. task[v].pc # "idle" /\ task[w].pc # "idle" /\ task'[v] = task[v] /\ task'[w] = u
    BY <1>1, <1>3 DEF At
  <2>2. ~ Crosses(task[v], task[w])
    BY <2>1 DEF Apart, At
  <2>3. QED
    BY <1>3, <2>1, <2>2 DEF Crosses
<1>4. CASE v # t /\ w # t
  <2>1. task'[v] = task[v] /\ task'[w] = task[w]
    BY <1>1, <1>4
  <2>2. QED
    BY <2>1 DEF Apart, At
<1>5. QED
  BY <1>2, <1>3, <1>4

\* A step of a request that changes no manifest, no chunk and no promise.
LEMMA QuietAgrees ==
    ASSUME TypeInv, AgreeInv, NEW t \in Slots, NEW u, Becomes(t, u),
           \/ u.pc = "idle"
           \/ /\ ~ At(t, "idle")
              /\ u.op = task[t].op
              /\ u.doc = task[t].doc \/ u.op \in {"list", "extract"},
           complete' \subseteq complete,
           UNCHANGED <<config, manifests, points, promise, crossed>>,
           ~ crossed => Undisturbed(u),
           ~ crossed => \A d \in Docs : \/ cached'[d] \in {None, cached[d]}
                                        \/ manifests[d] # None /\ cached'[d] = manifests[d]
    PROVE  AgreeInv'
<1> SUFFICES ASSUME ~ crossed'
             PROVE  Apart' /\ (\A d \in Docs : Kept(d)') /\ \A v \in Slots : Undisturbed(task[v])'
  BY DEF AgreeInv
<1>1. /\ ~ crossed
      /\ Apart /\ (\A d \in Docs : Kept(d)) /\ \A v \in Slots : Undisturbed(task[v])
  BY DEF AgreeInv
<1>2. Apart'
  BY <1>1, ApartStays DEF TypeInv
<1>3. ASSUME NEW d \in Docs PROVE Kept(d)'
  BY <1>1, KeptStays
<1>4. ASSUME NEW v \in Slots PROVE Undisturbed(task[v])'
  <2>1. ASSUME NEW k, k = task'[v] PROVE Undisturbed(k)'
    <3>1. Undisturbed(k)
      BY <1>1, <2>1 DEF Becomes, TypeInv
    <3>2. QED
      BY <3>1, UndisturbedStays
  <2>2. QED
    BY <2>1, UndisturbedInItsPlace
<1>5. QED
  BY <1>2, <1>3, <1>4

\* Requests that do not cross an upload or a deletion are about other documents.
LEMMA OthersApart ==
    ASSUME TypeInv, Apart, NEW t \in Slots, task[t].pc # "idle", task[t].op \in {"ingest", "delete"},
           NEW v \in Slots, v # t, task[v].pc # "idle"
    PROVE  task[v].doc # task[t].doc /\ task[v].op \notin {"list", "extract"}
BY DEF Apart, At, Crosses

\* A step of an upload or a deletion is about its own document.
LEMMA ChangeAgrees ==
    ASSUME TypeInv, AgreeInv, NEW t \in Slots, NEW u, Becomes(t, u), NEW k, k = task[t],
           k.pc # "idle", k.op \in {"ingest", "delete"},
           u.pc = "idle" \/ (u.op = k.op /\ u.doc = k.doc),
           complete' \subseteq complete, UNCHANGED <<config, crossed>>,
           \A d \in Docs \ {k.doc} : /\ manifests'[d] = manifests[d]
                                     /\ cached'[d] = cached[d]
                                     /\ promise'[d] = promise[d],
           \A id : id[1] # k.doc => /\ id \in DOMAIN points' <=> id \in DOMAIN points
                                    /\ id \in DOMAIN points => points'[id] = points[id],
           ~ crossed => Undisturbed(u)' /\ Kept(k.doc)'
    PROVE  AgreeInv'
<1> SUFFICES ASSUME ~ crossed'
             PROVE  Apart' /\ (\A d \in Docs : Kept(d)') /\ \A v \in Slots : Undisturbed(task[v])'
  BY DEF AgreeInv
<1>1. /\ ~ crossed
      /\ Apart /\ (\A d \in Docs : Kept(d)) /\ \A v \in Slots : Undisturbed(task[v])
  BY DEF AgreeInv
<1>2. Apart'
  BY <1>1, ApartStays DEF TypeInv, At
<1>3. ASSUME NEW d \in Docs PROVE Kept(d)'
  <2>1. CASE d = k.doc
    BY <1>1, <2>1
  <2>2. CASE d # k.doc
    <3>1. Kept(d) /\ manifests'[d] = manifests[d] /\ cached'[d] = cached[d] /\ promise'[d] = promise[d]
      BY <1>1, <2>2
    <3>2. manifests[d] # None => \A id \in manifests[d].ids : id[1] = d
      BY DEF TypeInv, Stored, ManifestOf
    <3>3. CASE promise[d] = None
      BY <3>1, <3>3 DEF Kept, IsGone
    <3>4. CASE promise[d] # None /\ promise[d].is = "served"
      <4>1. Served(d)
        BY <3>1, <3>4 DEF Kept
      <4>2. Served(d)'
        BY <2>2, <3>1, <3>2, <4>1 DEF Served
      <4>3. QED
        BY <3>1, <3>4, <4>2 DEF Kept, IsGone
    <3>5. CASE promise[d] # None /\ promise[d].is # "served"
      <4>1. Gone(d, promise[d].ids) /\ \A id \in promise[d].ids : id[1] = d
        BY <3>1, <3>5 DEF Kept, IsGone
      <4>2. manifests'[d] = None /\ cached'[d] = None /\ promise[d].ids \cap (DOMAIN points' \cup complete') = {}
        BY <2>2, <3>1, <4>1 DEF Gone
      <4>3. QED
        BY <3>1, <3>5, <4>1, <4>2 DEF Kept, IsGone, Gone
    <3>6. QED
      BY <3>3, <3>4, <3>5
  <2>3. QED
    BY <2>1, <2>2
<1>4. ASSUME NEW v \in Slots PROVE Undisturbed(task[v])'
  <2>1. ASSUME NEW l, l = task'[v] PROVE Undisturbed(l)'
    <3>1. CASE v = t
      <4>1. l = u
        BY <2>1, <3>1 DEF Becomes, TypeInv
      <4>2. QED
        BY <1>1, <4>1
    <3>2. CASE v # t
      <4>1. l = task[v] /\ Typed(l) /\ Sound(l) /\ Undisturbed(l)
        BY <1>1, <2>1, <3>2 DEF Becomes, TypeInv
      <4>2. CASE l.pc = "idle"
        <5>1. l = Idle
          BY <4>1, <4>2 DEF Typed
        <5>2. QED
          BY <5>1, IdleUndisturbed
      <4>3. CASE l.pc # "idle"
        <5>1. l.doc # k.doc /\ l.op \notin {"list", "extract"} /\ l.doc \in Docs
          BY <1>1, <3>2, <4>1, <4>3, OthersApart DEF Typed
        <5>2. manifests'[l.doc] = manifests[l.doc] /\ promise'[l.doc] = promise[l.doc]
          BY <5>1
        <5>3. l.pc \in Uploading /\ l.clean =>
                 \A i \in DOMAIN l.chunks : i < l.next \/ l.pc # "index" => IsIndexed(l, i)'
          <6>1. \A i : Id(l, i)[1] = l.doc
            BY DEF Id
          <6>2. ASSUME l.pc \in Uploading, l.clean, NEW i \in DOMAIN l.chunks, i < l.next \/ l.pc # "index"
                PROVE  IsIndexed(l, i)'
            <7>1. IsIndexed(l, i)
              BY <4>1, <6>2 DEF Undisturbed
            <7>2. Id(l, i)[1] # k.doc
              BY <5>1, <6>1
            <7>3. Id(l, i)' = Id(l, i)
              BY DEF Id
            <7>4. QED
              BY <7>1, <7>2, <7>3 DEF IsIndexed
          <6>3. QED
            BY <6>2
        <5>4. l.pc \in {"clear", "remove", "uncache"} /\ l.clean =>
                 /\ l.ids \cap DOMAIN points' = {}
                 /\ l.ids \cap complete' \subseteq IF l.pc = "clear" THEN l.got ELSE {}
          <6>1. l.pc \in {"clear", "remove", "uncache"} => \A id \in l.ids : id[1] = l.doc
            BY <4>1 DEF Sound, Deleting
          <6>2. QED
            BY <4>1, <5>1, <6>1 DEF Undisturbed
        <5>5. QED
          BY <4>1, <5>1, <5>2, <5>3, <5>4 DEF Undisturbed, Manifest
      <4>4. QED
        BY <4>2, <4>3
    <3>3. QED
      BY <3>1, <3>2
  <2>2. QED
    BY <2>1, UndisturbedInItsPlace
<1>5. QED
  BY <1>2, <1>3, <1>4

(***************************************************************************)
(* The stores agree: every step                                            *)
(***************************************************************************)
\* A request that begins while nothing has crossed either crosses or does not.
LEMMA BeginAgrees ==
    ASSUME TypeInv, AgreeInv, NEW t \in Slots, Begin(t) PROVE AgreeInv'
<1> SUFFICES ASSUME ~ crossed'
             PROVE  Apart' /\ (\A d \in Docs : Kept(d)') /\ \A v \in Slots : Undisturbed(task[v])'
  BY DEF AgreeInv
<1>1. /\ ~ crossed
      /\ Apart /\ (\A d \in Docs : Kept(d)) /\ \A v \in Slots : Undisturbed(task[v])
      /\ task[t].pc = "idle"
  BY DEF AgreeInv, Begin, At
<1>2. PICK op, d, u :
        /\ op \in left.ops /\ d \in left.docs
        /\ u = [Idle EXCEPT !.op = op, !.doc = d,
                   !.pc = IF op \in {"list", "extract"} THEN "scan" ELSE "lookup"]
        /\ Becomes(t, u)
        /\ crossed' = \E v \in Slots \ {t} : ~ At(v, "idle") /\ Crosses([op |-> op, doc |-> d], task[v])
  BY DEF Begin
<1>3. u.op = op /\ u.doc = d /\ u.pc \in {"scan", "lookup"} /\ u.ids = {} /\ u.all = {}
  BY <1>2 DEF Idle
<1>4. UNCHANGED <<config, manifests, cached, points, complete, promise>>
  BY DEF Begin, stores, redis
<1>5. task'[t] = u /\ \A v \in Slots \ {t} : task'[v] = task[v]
  BY <1>2 DEF Becomes, TypeInv
<1>6. Apart'
  <2> SUFFICES ASSUME NEW v \in Slots, NEW w \in Slots, v # w,
                      task'[v].pc # "idle", task'[w].pc # "idle"
               PROVE  ~ Crosses(task'[v], task'[w])
    BY DEF Apart, At, Crosses
  <2>1. \A x \in Slots \ {t} : task[x].pc # "idle" => ~ Crosses([op |-> op, doc |-> d], task[x])
    BY <1>2 DEF At
  <2>2. \A x \in Slots \ {t} : task[x].pc # "idle" => ~ Crosses(u, task[x]) /\ ~ Crosses(task[x], u)
    BY <1>3, <2>1 DEF Crosses
  <2>3. CASE v = t
    BY <1>5, <2>2, <2>3
  <2>4. CASE w = t
    BY <1>5, <2>2, <2>4
  <2>5. CASE v # t /\ w # t
    BY <1>1, <1>5, <2>5 DEF Apart, At
  <2>6. QED
    BY <2>3, <2>4, <2>5
<1>7. ASSUME NEW e \in Docs PROVE Kept(e)'
  BY <1>1, <1>4, KeptStays
<1>8. ASSUME NEW v \in Slots PROVE Undisturbed(task[v])'
  <2>1. ASSUME NEW k, k = task'[v] PROVE Undisturbed(k)'
    <3>1. CASE v = t
      BY <1>3, <1>5, <2>1, <3>1 DEF Undisturbed, Uploading
    <3>2. CASE v # t
      BY <1>1, <1>4, <1>5, <2>1, <3>2, UndisturbedStays
    <3>3. QED
      BY <3>1, <3>2
  <2>2. QED
    BY <2>1, UndisturbedInItsPlace
<1>9. QED
  BY <1>6, <1>7, <1>8

\* A request takes no chunk from a manifest of a document that is gone.
LEMMA TakenUndisturbed ==
    ASSUME NEW k, Typed(k), k.pc \in {"lookup", "load", "backfill"}, k.doc \in Docs,
           NEW l, l.op = k.op, l.ids = k.ids, l.all = k.all, l.docs = k.docs, Shaped(l),
           NEW m, ManifestOf(k.doc, m),
           \A d \in Docs : Kept(d), Undisturbed(k), IsGone(k.doc) => m = None
    PROVE  LET u == WithManifest(l, m)
           IN  /\ Undisturbed(u)
               /\ u.pc = "idle" \/ (u.op = l.op /\ (u.doc = l.doc \/ u.op \in {"list", "extract"}))
<1>1. k.op \in Ops
  BY DEF Typed
<1>2. Undisturbed(Idle) /\ Idle.pc = "idle"
  BY IdleUndisturbed DEF Idle
<1>3. CASE k.op \in {"ingest", "delete", "read"}
  <2>1. PICK u : u = WithManifest(l, m)
    OBVIOUS
  <2>2. u = Idle \/ (u.op = l.op /\ u.doc = l.doc /\ u.pc \in {"parse", "unindex", "scroll"})
    BY <1>3, <2>1 DEF WithManifest, Shaped
  <2>3. CASE u = Idle
    BY <1>2, <2>1, <2>3
  <2>4. CASE u.op = l.op /\ u.doc = l.doc /\ u.pc \in {"parse", "unindex", "scroll"}
    <3>1. Undisturbed(u)
      BY <1>3, <2>4 DEF Undisturbed, Uploading
    <3>2. QED
      BY <2>1, <2>4, <3>1
  <2>5. QED
    BY <2>2, <2>3, <2>4
<1>4. CASE k.op \in {"list", "extract"}
  <2>1. PICK ids : ids = k.ids \cup (IF m = None THEN {} ELSE m.ids)
    OBVIOUS
  <2>2. PICK u : u = WithManifest(l, m)
    OBVIOUS
  <2>3. u = Idle \/ (u.op = l.op /\ u.pc \in {"lookup", "pending"} /\ u.ids = ids /\ u.all = k.all)
    <3>1. PICK e : e = CHOOSE d \in l.docs : TRUE
      OBVIOUS
    <3>2. PICK v : v = [l EXCEPT !.ids = ids, !.doc = e, !.docs = @ \ {e}, !.pc = "lookup"]
      OBVIOUS
    <3>3. PICK w : w = [l EXCEPT !.ids = ids, !.pc = "pending"]
      OBVIOUS
    <3>4. u \in {Idle, v, w}
      BY <1>4, <2>1, <2>2, <3>1, <3>2, <3>3 DEF WithManifest
    <3>5. v.op = l.op /\ v.pc = "lookup" /\ v.ids = ids /\ v.all = k.all
      BY <3>2 DEF Shaped
    <3>6. w.op = l.op /\ w.pc = "pending" /\ w.ids = ids /\ w.all = k.all
      BY <3>3 DEF Shaped
    <3>7. QED
      BY <3>4, <3>5, <3>6
  <2>4. CASE u = Idle
    BY <1>2, <2>2, <2>4
  <2>5. CASE u.op = l.op /\ u.pc \in {"lookup", "pending"} /\ u.ids = ids /\ u.all = k.all
    <3>1. ASSUME NEW d \in Docs, IsGone(d), k.op = "extract"
          PROVE  (ids \cup k.all) \cap promise[d].ids = {}
      <4>1. (k.ids \cup k.all) \cap promise[d].ids = {}
        BY <3>1 DEF Undisturbed
      <4>2. \A id \in promise[d].ids : id[1] = d
        BY <3>1 DEF Kept
      <4>3. m # None => d # k.doc /\ \A id \in m.ids : id[1] = k.doc
        BY <3>1 DEF ManifestOf
      <4>4. QED
        BY <2>1, <4>1, <4>2, <4>3
    <3>2. Undisturbed(u)
      BY <2>5, <3>1 DEF Undisturbed, Uploading
    <3>3. QED
      BY <1>4, <2>2, <2>5, <3>2
  <2>6. QED
    BY <2>3, <2>4, <2>5
<1>5. QED
  BY <1>1, <1>3, <1>4 DEF Ops

\* Requests look for manifests.
LEMMA LookingAgrees ==
    ASSUME TypeInv, AgreeInv, NEW t \in Slots,
           ScanManifests(t) \/ LookUpManifest(t) \/ LoadManifest(t) \/ Backfill(t)
    PROVE  AgreeInv'
<1>1. PICK k : k = task[t] /\ Typed(k) /\ Sound(k) /\ k.pc = task[t].pc
  BY DEF TypeInv
<1>2. ~ crossed => /\ \A d \in Docs : Kept(d)
                   /\ Undisturbed(k)
  BY <1>1 DEF AgreeInv
<1>3. Undisturbed(Idle) /\ Idle.pc = "idle"
  BY IdleUndisturbed DEF Idle
<1>4. /\ UNCHANGED <<config, manifests, points, complete, promise, crossed>>
      /\ k.pc \in Looking /\ ~ At(t, "idle")
  BY <1>1 DEF ScanManifests, LookUpManifest, LoadManifest, Backfill, stores, redis, At, Looking
<1>5. CASE Replies(t) /\ cached' = cached
  BY <1>3, <1>4, <1>5, QuietAgrees DEF Replies
<1>6. CASE ScanManifests(t)
  <2>1. cached' = cached /\ k.pc = "scan"
    BY <1>1, <1>6 DEF ScanManifests, stores, redis, At
  <2>2. ASSUME NEW d, NEW docs, Becomes(t, [k EXCEPT !.pc = "lookup", !.doc = d, !.docs = docs])
        PROVE  AgreeInv'
    <3>1. PICK u : u = [k EXCEPT !.pc = "lookup", !.doc = d, !.docs = docs]
      OBVIOUS
    <3>2. u.op = k.op /\ u.op \in {"list", "extract"} /\ u.pc = "lookup" /\ u.ids = k.ids /\ u.all = k.all
      BY <1>1, <2>1, <3>1 DEF Typed, Shaped
    <3>3. ~ crossed => Undisturbed(u)
      BY <1>2, <3>2 DEF Undisturbed, Uploading
    <3>4. QED
      BY <1>1, <1>4, <2>1, <2>2, <3>1, <3>2, <3>3, QuietAgrees
  <2>3. QED
    BY <1>1, <1>5, <1>6, <2>1, <2>2 DEF ScanManifests
\* A request that takes the manifest m, with its own record of it cleared.
<1>7. ASSUME NEW m, ManifestOf(k.doc, m), k.pc \in {"lookup", "load", "backfill"},
             ~ crossed /\ IsGone(k.doc) => m = None,
             NEW l, l = k \/ l = [k EXCEPT !.found = None], Becomes(t, WithManifest(l, m)),
             ~ crossed => \A d \in Docs : \/ cached'[d] \in {None, cached[d]}
                                          \/ manifests[d] # None /\ cached'[d] = manifests[d]
      PROVE  AgreeInv'
  <2>1. PICK u : u = WithManifest(l, m)
    OBVIOUS
  <2>2. /\ k.doc \in Docs /\ l.op = k.op /\ l.doc = k.doc /\ l.ids = k.ids
        /\ l.all = k.all /\ l.docs = k.docs /\ Shaped(l)
    BY <1>1, <1>7 DEF Typed, Shaped
  <2>3. CASE ~ crossed
    <3>1. /\ Undisturbed(u)
          /\ u.pc = "idle" \/ (u.op = l.op /\ (u.doc = l.doc \/ u.op \in {"list", "extract"}))
      BY <1>1, <1>2, <1>7, <2>1, <2>2, <2>3, TakenUndisturbed
    <3>2. QED
      BY <1>1, <1>4, <1>7, <2>1, <2>2, <3>1, QuietAgrees
  <2>4. CASE crossed
    BY <1>4, <2>4 DEF AgreeInv
  <2>5. QED
    BY <2>3, <2>4
<1>8. CASE LookUpManifest(t)
  <2>1. cached' = cached /\ k.pc = "lookup" /\ k.doc \in Docs
    BY <1>1, <1>8 DEF LookUpManifest, stores, redis, At, Typed
  <2>2. CASE Becomes(t, WithManifest(k, cached[k.doc]))
    <3>1. ManifestOf(k.doc, cached[k.doc])
      BY <2>1 DEF TypeInv, Stored
    <3>2. ~ crossed /\ IsGone(k.doc) => cached[k.doc] = None
      BY <1>2, <2>1 DEF Kept, IsGone, Gone
    <3>3. QED
      BY <1>7, <2>1, <2>2, <3>1, <3>2
  <2>3. CASE Goes(t, "load")
    <3>1. PICK u : u = [k EXCEPT !.pc = "load"]
      OBVIOUS
    <3>2. u.op = k.op /\ u.pc = "load" /\ u.doc = k.doc /\ u.ids = k.ids /\ u.all = k.all
      BY <1>1, <3>1, MovesOn
    <3>3. ~ crossed => Undisturbed(u)
      BY <1>2, <3>2 DEF Undisturbed, Uploading
    <3>4. QED
      BY <1>1, <1>4, <2>1, <2>3, <3>1, <3>2, <3>3, QuietAgrees DEF Goes
  <2>4. QED
    BY <1>1, <1>8, <2>2, <2>3 DEF LookUpManifest
<1>9. CASE LoadManifest(t)
  <2>1. cached' = cached /\ k.pc = "load" /\ k.doc \in Docs
    BY <1>1, <1>9 DEF LoadManifest, stores, redis, At, Typed
  <2>2. CASE Becomes(t, WithManifest(k, None))
    <3>1. ManifestOf(k.doc, None)
      BY DEF ManifestOf, IsManifest
    <3>2. QED
      BY <1>7, <2>1, <2>2, <3>1
  <2>3. CASE Becomes(t, [k EXCEPT !.pc = "backfill", !.found = manifests[k.doc]])
    <3>1. PICK u : u = [k EXCEPT !.pc = "backfill", !.found = manifests[k.doc]]
      OBVIOUS
    <3>2. /\ u.op = k.op /\ u.pc = "backfill" /\ u.doc = k.doc /\ u.ids = k.ids /\ u.all = k.all
          /\ u.found = manifests[k.doc]
      BY <1>1, <3>1 DEF Typed, Shaped
    <3>3. ~ crossed => Undisturbed(u)
      BY <1>2, <3>2 DEF Undisturbed, Uploading
    <3>4. QED
      BY <1>1, <1>4, <2>1, <2>3, <3>1, <3>2, <3>3, QuietAgrees
  <2>4. QED
    BY <1>1, <1>5, <1>9, <2>1, <2>2, <2>3 DEF LoadManifest
<1>10. CASE Backfill(t)
  <2>1. k.pc = "backfill" /\ k.doc \in Docs /\ k.found # None /\ ManifestOf(k.doc, k.found)
    BY <1>1, <1>10 DEF Backfill, At, Typed, Sound
  <2>2. ~ crossed => k.found = manifests[k.doc] /\ ~ IsGone(k.doc)
    BY <1>2, <2>1 DEF Undisturbed, Kept, IsGone, Gone
  <2>3. PICK l : l = [k EXCEPT !.found = None]
    OBVIOUS
  <2>4. /\ Becomes(t, WithManifest(l, k.found))
        /\ cached' = [cached EXCEPT ![k.doc] = k.found] \/ cached' = cached
    BY <1>1, <1>10, <2>3 DEF Backfill
  <2>5. ~ crossed => \A d \in Docs : \/ cached'[d] \in {None, cached[d]}
                                     \/ manifests[d] # None /\ cached'[d] = manifests[d]
    BY <2>1, <2>2, <2>4 DEF TypeInv, Stored
  <2>6. QED
    BY <1>7, <2>1, <2>2, <2>3, <2>4, <2>5
<1>11. QED
  BY <1>6, <1>8, <1>9, <1>10

\* The smaller of two numbers.
LEMMA MinOfTwo ==
    ASSUME NEW a \in Int, NEW b \in Int
    PROVE  /\ Min({a, b}) \in {a, b}
           /\ Min({a, b}) <= a /\ Min({a, b}) <= b
<1>1. \E x \in {a, b} : \A y \in {a, b} : x <= y
  <2>1. CASE a <= b
    BY <2>1
  <2>2. CASE ~ a <= b
    BY <2>2
  <2>3. QED
    BY <2>1, <2>2
<1>2. Min({a, b}) \in {a, b} /\ \A y \in {a, b} : Min({a, b}) <= y
  BY <1>1 DEF Min
<1>3. QED
  BY <1>2

\* The chunks of the next batch are those before the batch after it.
LEMMA BatchIsNext ==
    ASSUME NEW k, k.next \in Nat \ {0}, Len(k.chunks) \in Nat
    PROVE  Batch(k) = {i \in 1 .. Len(k.chunks) : k.next <= i /\ i < k.next + UpsertBatch}
<1>1. UpsertBatch \in Nat \ {0}
  BY DocumentAssumption
<1>2. PICK m : m = Min({k.next + UpsertBatch - 1, Len(k.chunks)})
  OBVIOUS
<1>3. m \in {k.next + UpsertBatch - 1, Len(k.chunks)} /\ m <= k.next + UpsertBatch - 1 /\ m <= Len(k.chunks)
  <2>1. k.next + UpsertBatch - 1 \in Int /\ Len(k.chunks) \in Int
    BY <1>1
  <2>2. PICK a \in Int, b \in Int : a = k.next + UpsertBatch - 1 /\ b = Len(k.chunks)
    BY <2>1
  <2>3. Min({a, b}) \in {a, b} /\ Min({a, b}) <= a /\ Min({a, b}) <= b
    BY MinOfTwo
  <2>4. m = Min({a, b})
    BY <1>2, <2>2
  <2>5. QED
    BY <2>2, <2>3, <2>4
<1>4. Batch(k) = k.next .. m
  BY <1>2 DEF Batch
<1>5. QED
  BY <1>1, <1>3, <1>4

\* An upload parses its document.
LEMMA ParseAgrees ==
    ASSUME TypeInv, AgreeInv, NEW t \in Slots, Parse(t) PROVE AgreeInv'
<1>1. PICK k : k = task[t] /\ Typed(k) /\ Sound(k) /\ k.pc = "parse"
  BY DEF TypeInv, Parse, At
<1>2. UNCHANGED <<config, manifests, cached, points, complete, promise, crossed>> /\ ~ At(t, "idle")
  BY <1>1 DEF Parse, stores, redis, At
<1>3. CASE Replies(t)
  BY <1>2, <1>3, IdleUndisturbed, QuietAgrees DEF Replies, Idle
<1>4. ASSUME NEW tier, NEW chunks,
             Becomes(t, [k EXCEPT !.pc = "index", !.tier = tier, !.chunks = chunks]),
             chunks = ChunksOf(k.doc, tier), tier \in TierSet
      PROVE  AgreeInv'
  <2>1. PICK u : u = [k EXCEPT !.pc = "index", !.tier = tier, !.chunks = chunks]
    OBVIOUS
  <2>2. k.doc \in Docs /\ k.op = "ingest" /\ k.next = 1
    BY <1>1 DEF Typed, Sound, Uploading
  <2>3. u.op = "ingest" /\ u.doc = k.doc /\ u.pc = "index" /\ u.next = 1 /\ u.chunks = chunks
    BY <1>1, <2>1, <2>2 DEF Typed, Shaped
  <2>4. \A i \in DOMAIN chunks : ~ i < 1
    BY <1>4, <2>2, ChunksAreSequences DEF TypeInv
  <2>5. Undisturbed(u)
    BY <2>3, <2>4 DEF Undisturbed, Uploading
  <2>6. QED
    BY <1>1, <1>2, <1>4, <2>1, <2>2, <2>3, <2>5, QuietAgrees
<1>5. QED
  <2>1. \/ Replies(t)
        \/ \E i \in DOMAIN Tiers :
              Becomes(t, [k EXCEPT !.pc = "index", !.tier = Tiers[i],
                             !.chunks = ChunksOf(k.doc, Tiers[i])])
    BY <1>1 DEF Parse
  <2>2. \A i \in DOMAIN Tiers : Tiers[i] \in TierSet
    BY DEF TierSet
  <2>3. QED
    BY <2>1, <2>2, <1>3, <1>4

\* A document nothing is promised of.
LEMMA NothingPromised ==
    ASSUME NEW d, promise'[d] = None PROVE Kept(d)'
BY DEF Kept, IsGone

\* The chunks indexed so far are in Qdrant, unless one was left out.
LEMMA IndexBatchAgrees ==
    ASSUME TypeInv, AgreeInv, NEW t \in Slots, IndexBatch(t) PROVE AgreeInv'
<1>1. PICK k : k = task[t] /\ Typed(k) /\ Sound(k) /\ k.pc = "index"
  BY DEF TypeInv, IndexBatch, At
<1>2. /\ k.doc \in Docs /\ k.op = "ingest"
      /\ Len(k.chunks) \in Nat \ {0} /\ DOMAIN k.chunks = 1 .. Len(k.chunks)
      /\ k.next \in Nat \ {0}
  BY <1>1, UploadHolds DEF Uploading, Sound, Typed
<1>3. PICK batch : batch = {Id(k, i) : i \in Batch(k)}
  OBVIOUS
<1>4. PICK next : next = k.next + UpsertBatch
  OBVIOUS
<1>5. PICK pc : pc = IF next > Len(k.chunks) THEN "put" ELSE "index"
  OBVIOUS
<1>6. /\ \/ /\ DOMAIN points' = DOMAIN points \cup batch
            /\ \A id \in DOMAIN points' :
                  points'[id] = IF id \in batch THEN Text(k, CHOOSE i \in Batch(k) : Id(k, i) = id)
                                ELSE points[id]
            /\ Becomes(t, [k EXCEPT !.next = next, !.pc = pc])
         \/ /\ points' = points
            /\ Becomes(t, [k EXCEPT !.next = next, !.pc = pc, !.clean = FALSE])
         \/ /\ points' = points
            /\ Becomes(t, [k EXCEPT !.pc = "put", !.clean = FALSE])
      /\ UNCHANGED <<config, manifests, cached, complete, crossed>>
      /\ promise' = [promise EXCEPT ![k.doc] = None]
  BY <1>1, <1>3, <1>4, <1>5 DEF IndexBatch, Doubt, redis, NoCollection
<1>7. promise'[k.doc] = None /\ \A d \in Docs \ {k.doc} : promise'[d] = promise[d]
  BY <1>2, <1>6 DEF TypeInv, Stored
<1>8. UpsertBatch \in Nat \ {0} /\ pc \in {"put", "index"} /\ (pc = "put" => next > Len(k.chunks))
  BY <1>5, DocumentAssumption
<1>9. Batch(k) = {i \in 1 .. Len(k.chunks) : k.next <= i /\ i < next}
  BY <1>2, <1>4, BatchIsNext
<1>10. Kept(k.doc)'
  BY <1>7, NothingPromised
<1>11. CASE /\ points' = points
            /\ \/ Becomes(t, [k EXCEPT !.next = next, !.pc = pc, !.clean = FALSE])
               \/ Becomes(t, [k EXCEPT !.pc = "put", !.clean = FALSE])
  <2>1. PICK u : Becomes(t, u) /\ \/ u = [k EXCEPT !.next = next, !.pc = pc, !.clean = FALSE]
                                  \/ u = [k EXCEPT !.pc = "put", !.clean = FALSE]
    BY <1>11
  <2>2. u.op = k.op /\ u.doc = k.doc /\ u.pc \in {"put", "index"} /\ u.clean = FALSE
    BY <1>1, <1>8, <2>1 DEF Typed, Shaped
  <2>3. Undisturbed(u)'
    BY <1>2, <1>7, <2>2 DEF Undisturbed
  <2>4. QED
    BY <1>1, <1>2, <1>6, <1>7, <1>10, <1>11, <2>1, <2>2, <2>3, ChangeAgrees
<1>12. CASE /\ DOMAIN points' = DOMAIN points \cup batch
            /\ \A id \in DOMAIN points' :
                  points'[id] = IF id \in batch THEN Text(k, CHOOSE i \in Batch(k) : Id(k, i) = id)
                                ELSE points[id]
            /\ Becomes(t, [k EXCEPT !.next = next, !.pc = pc])
  <2>1. PICK u : u = [k EXCEPT !.next = next, !.pc = pc]
    OBVIOUS
  <2>2. /\ u.op = k.op /\ u.doc = k.doc /\ u.pc = pc /\ u.clean = k.clean /\ u.tier = k.tier
        /\ u.chunks = k.chunks /\ u.next = next
    BY <1>1, <2>1 DEF Typed, Shaped
  <2>3. \A i : Id(u, i) = Id(k, i) /\ Id(k, i)[1] = k.doc
    BY <2>2 DEF Id
  <2>4. \A id : id[1] # k.doc => id \notin batch
    BY <1>3, <2>3
  <2>5. \A id \in batch : id \in DOMAIN points' /\ points'[id][1] = k.tier
    <3>1. \A i : Text(k, i)[1] = k.tier
      BY DEF Text
    <3>2. QED
      BY <1>12, <3>1
  <2>6. \A id \in DOMAIN points \ batch : id \in DOMAIN points' /\ points'[id] = points[id]
    BY <1>12
  <2>7. ASSUME ~ crossed, k.clean, NEW i \in DOMAIN k.chunks, i < next \/ pc # "index"
        PROVE  Id(k, i) \in DOMAIN points' /\ points'[Id(k, i)][1] = k.tier
    <3>1. i \in 1 .. Len(k.chunks) /\ i < next
      BY <1>2, <1>4, <1>8, <2>7
    <3>2. CASE i < k.next
      <4>1. IsIndexed(k, i)
        BY <1>1, <2>7, <3>2 DEF AgreeInv, Undisturbed, Uploading
      <4>2. QED
        BY <2>5, <2>6, <4>1 DEF IsIndexed
    <3>3. CASE ~ i < k.next
      <4>1. Id(k, i) \in batch
        BY <1>2, <1>3, <1>9, <3>1, <3>3
      <4>2. QED
        BY <2>5, <4>1
    <3>4. QED
      BY <3>2, <3>3
  <2>8. ASSUME ~ crossed PROVE Undisturbed(u)'
    <3>1. u.clean => \A i \in DOMAIN u.chunks : i < u.next \/ u.pc # "index" => IsIndexed(u, i)'
      BY <2>2, <2>3, <2>7, <2>8 DEF IsIndexed, Id
    <3>2. QED
      BY <1>2, <1>7, <1>8, <2>2, <3>1 DEF Undisturbed
  <2>9. \A id : id[1] # k.doc => /\ id \in DOMAIN points' <=> id \in DOMAIN points
                                 /\ id \in DOMAIN points => points'[id] = points[id]
    BY <1>12, <2>4
  <2>10. /\ Becomes(t, u) /\ k.pc # "idle" /\ k.op \in {"ingest", "delete"}
         /\ u.op = k.op /\ u.doc = k.doc
    BY <1>1, <1>2, <1>12, <2>1, <2>2
  <2>11. complete' = complete /\ UNCHANGED <<config, crossed>>
    BY <1>6
  <2>12. \A d \in Docs \ {k.doc} : /\ manifests'[d] = manifests[d]
                                  /\ cached'[d] = cached[d]
                                  /\ promise'[d] = promise[d]
    BY <1>6, <1>7
  <2>13. QED
    BY <1>1, <1>10, <2>8, <2>9, <2>10, <2>11, <2>12, ChangeAgrees
<1>13. QED
  BY <1>6, <1>11, <1>12

\* A manifest that is stored lists what is in Qdrant, unless something was lost.
LEMMA ManifestAgrees ==
    ASSUME TypeInv, AgreeInv, NEW t \in Slots, PutManifest(t) \/ CacheManifest(t) PROVE AgreeInv'
<1>1. PICK k : k = task[t] /\ Typed(k) /\ Sound(k)
  BY DEF TypeInv
<1>2. k.pc \in {"put", "cache"}
  BY <1>1 DEF PutManifest, CacheManifest, At
<1>3. /\ k.doc \in Docs /\ k.op = "ingest" /\ k.pc # "idle"
      /\ Manifest(k) # None /\ DOMAIN k.chunks = 1 .. Len(k.chunks)
  BY <1>1, <1>2, UploadHolds DEF Typed, Uploading
<1>4. PICK m : m = Manifest(k)
  OBVIOUS
<1>5. m.tier = k.tier /\ m.ids = {Id(k, i) : i \in DOMAIN k.chunks} /\ m # None
  BY <1>3, <1>4 DEF Manifest
<1>6. ~ crossed => Undisturbed(k)
  BY <1>1 DEF AgreeInv
<1>7. ~ crossed => promise[k.doc] = None
  BY <1>2, <1>6 DEF Undisturbed
<1>8. Undisturbed(Idle)' /\ Idle.pc = "idle"
  BY IdleUndisturbed DEF Idle
<1>9. CASE PutManifest(t)
  <2>1. UNCHANGED <<config, cached, complete, points, promise, crossed>> /\ k.pc = "put"
    BY <1>1, <1>9 DEF PutManifest, redis, At
  <2>2. ~ crossed => Kept(k.doc)'
    BY <1>7, <2>1, NothingPromised
  <2>3. manifests' = [manifests EXCEPT ![k.doc] = m] \/ manifests' = manifests
    BY <1>1, <1>4, <1>9 DEF PutManifest
  <2>4. \A d \in Docs \ {k.doc} : manifests'[d] = manifests[d]
    BY <2>3 DEF TypeInv, Stored
  <2>5. CASE Replies(t)
    BY <1>1, <1>3, <1>8, <2>1, <2>2, <2>4, <2>5, ChangeAgrees DEF Replies
  <2>6. CASE Goes(t, "cache") /\ manifests' = [manifests EXCEPT ![k.doc] = m]
    <3>1. PICK u : u = [k EXCEPT !.pc = "cache"]
      OBVIOUS
    <3>2. /\ u.op = k.op /\ u.doc = k.doc /\ u.pc = "cache" /\ u.clean = k.clean /\ u.tier = k.tier
          /\ u.chunks = k.chunks /\ u.next = k.next
      BY <1>1, <3>1, MovesOn
    <3>3. manifests'[k.doc] = m
      BY <1>3, <2>6 DEF TypeInv, Stored
    <3>4. Manifest(u)' = m
      BY <1>4, <2>1, <3>2 DEF Manifest, Id
    <3>5. ASSUME ~ crossed PROVE Undisturbed(u)'
      <4>1. k.clean => \A i \in DOMAIN k.chunks : IsIndexed(k, i)
        BY <1>6, <2>1, <3>5 DEF Undisturbed, Uploading
      <4>2. u.clean => \A i \in DOMAIN u.chunks : IsIndexed(u, i)'
        BY <2>1, <3>2, <4>1 DEF IsIndexed, Id
      <4>3. QED
        BY <1>3, <1>7, <2>1, <3>2, <3>3, <3>4, <3>5, <4>2 DEF Undisturbed
    <3>6. Becomes(t, u)
      BY <1>1, <2>6, <3>1 DEF Goes
    <3>7. QED
      BY <1>1, <1>3, <2>1, <2>2, <2>4, <3>2, <3>5, <3>6, ChangeAgrees
  <2>7. QED
    BY <1>1, <1>4, <1>9, <2>5, <2>6 DEF PutManifest
<1>10. CASE CacheManifest(t)
  <2>1. UNCHANGED <<config, manifests, complete, points, crossed>> /\ k.pc = "cache" /\ Replies(t)
    BY <1>1, <1>10 DEF CacheManifest, At
  <2>2. /\ \A d \in Docs \ {k.doc} : cached'[d] = cached[d] /\ promise'[d] = promise[d]
        /\ \/ cached' = cached /\ promise' = promise
           \/ /\ cached'[k.doc] = m
              /\ promise'[k.doc] = IF k.clean THEN [is |-> "served"] ELSE None
    BY <1>1, <1>3, <1>4, <1>10 DEF CacheManifest, TypeInv, Stored
  <2>3. ASSUME ~ crossed PROVE Kept(k.doc)'
    <3>1. CASE promise'[k.doc] = None
      BY <3>1, NothingPromised
    <3>2. CASE promise'[k.doc] # None
      <4>1. cached'[k.doc] = m /\ k.clean /\ promise'[k.doc] = [is |-> "served"]
        BY <1>7, <2>2, <2>3, <3>2
      <4>2. manifests'[k.doc] = m
        BY <1>4, <1>6, <2>1, <2>3 DEF Undisturbed
      <4>3. \A i \in DOMAIN k.chunks : IsIndexed(k, i)
        BY <1>6, <2>1, <2>3, <4>1 DEF Undisturbed, Uploading
      <4>4. \A id \in m.ids : id \in DOMAIN points' /\ points'[id][1] = m.tier
        BY <1>5, <2>1, <4>3 DEF IsIndexed
      <4>5. Served(k.doc)'
        BY <1>5, <4>1, <4>2, <4>4 DEF Served
      <4>6. promise'[k.doc].is = "served"
        BY <4>1
      <4>7. QED
        BY <3>2, <4>5, <4>6 DEF Kept, IsGone
    <3>3. QED
      BY <3>1, <3>2
  <2>4. QED
    BY <1>1, <1>3, <1>8, <2>1, <2>2, <2>3, ChangeAgrees DEF Replies
<1>11. QED
  BY <1>9, <1>10

\* After a deletion in which nothing failed nothing of the document is left.
LEMMA DeletionAgrees ==
    ASSUME TypeInv, AgreeInv, NEW t \in Slots,
           DeleteChunks(t) \/ ClearStatus(t) \/ RemoveManifest(t) \/ UncacheManifest(t)
    PROVE  AgreeInv'
<1>1. PICK k : k = task[t] /\ Typed(k) /\ Sound(k)
  BY DEF TypeInv
<1>2. k.pc \in Deleting
  BY <1>1 DEF DeleteChunks, ClearStatus, RemoveManifest, UncacheManifest, At, Deleting
<1>3. /\ k.doc \in Docs /\ k.op = "delete" /\ k.pc # "idle"
      /\ \A id \in k.ids : id[1] = k.doc
  BY <1>1, <1>2 DEF Typed, Sound, Deleting
<1>4. ~ crossed => Undisturbed(k)
  BY <1>1 DEF AgreeInv
<1>5. ~ crossed /\ k.pc # "unindex" => promise[k.doc] = None
  BY <1>2, <1>4 DEF Undisturbed, Deleting
<1>6. Undisturbed(Idle)' /\ Idle.pc = "idle"
  BY IdleUndisturbed DEF Idle
<1>7. CASE DeleteChunks(t)
  <2>1. /\ UNCHANGED <<config, manifests, cached, complete, crossed>> /\ k.pc = "unindex"
        /\ promise'[k.doc] = None /\ \A d \in Docs \ {k.doc} : promise'[d] = promise[d]
    BY <1>1, <1>3, <1>7 DEF DeleteChunks, redis, At, Doubt, TypeInv, Stored
  <2>2. PICK u : /\ Becomes(t, u)
                 /\ \/ /\ u = [k EXCEPT !.pc = "clear", !.got = k.ids]
                       /\ points' = [id \in DOMAIN points \ k.ids |-> points[id]]
                    \/ /\ u = [k EXCEPT !.pc = "clear", !.got = k.ids, !.clean = FALSE]
                       /\ points' = points
    BY <1>1, <1>7 DEF DeleteChunks
  <2>3. /\ u.op = k.op /\ u.pc = "clear" /\ u.doc = k.doc /\ u.ids = k.ids /\ u.got = k.ids
        /\ u.clean => k.ids \cap DOMAIN points' = {}
    BY <1>1, <2>2 DEF Typed, Shaped
  <2>4. \A id : id[1] # k.doc => /\ id \in DOMAIN points' <=> id \in DOMAIN points
                                 /\ id \in DOMAIN points => points'[id] = points[id]
    BY <1>3, <2>2
  <2>5. Undisturbed(u)'
    BY <1>3, <2>1, <2>3 DEF Undisturbed, Uploading
  <2>6. Kept(k.doc)'
    BY <2>1, NothingPromised
  <2>7. QED
    BY <1>1, <1>3, <2>1, <2>2, <2>3, <2>4, <2>5, <2>6, ChangeAgrees
<1>8. CASE ClearStatus(t)
  <2>1. PICK id : id = CHOOSE i \in k.got : TRUE
    OBVIOUS
  <2>2. PICK pc : pc = IF k.got = {id} THEN "remove" ELSE "clear"
    OBVIOUS
  <2>3. PICK rest : rest = [k EXCEPT !.got = @ \ {id}, !.pc = pc]
    OBVIOUS
  <2>4. /\ UNCHANGED <<config, manifests, cached, points, promise, crossed>>
        /\ complete' \subseteq complete
        /\ k.pc = "clear"
        /\ \/ complete' = complete \ {id} /\ Becomes(t, rest)
           \/ Becomes(t, [rest EXCEPT !.clean = FALSE])
    BY <1>1, <1>8, <2>1, <2>2, <2>3 DEF ClearStatus, At
  <2>5. PICK u : /\ Becomes(t, u)
                 /\ \/ u = rest /\ complete' = complete \ {id}
                    \/ u = [rest EXCEPT !.clean = FALSE]
    BY <2>4
  <2>6. /\ u.op = k.op /\ u.pc = pc /\ u.doc = k.doc /\ u.ids = k.ids /\ u.got = k.got \ {id}
        /\ u.clean => k.clean /\ complete' = complete \ {id}
    BY <1>1, <2>3, <2>5 DEF Typed, Shaped
  <2>7. pc \in {"remove", "clear"} /\ (pc = "remove" => k.got \ {id} = {})
    BY <2>2
  <2>8. ASSUME ~ crossed PROVE Undisturbed(u)' /\ Kept(k.doc)'
    <3>1. k.clean => k.ids \cap DOMAIN points = {} /\ k.ids \cap complete \subseteq k.got
      BY <1>4, <2>4, <2>8 DEF Undisturbed
    <3>2. u.clean => /\ u.ids \cap DOMAIN points' = {}
                     /\ u.ids \cap complete' \subseteq IF u.pc = "clear" THEN u.got ELSE {}
      BY <2>4, <2>6, <2>7, <3>1
    <3>3. promise'[k.doc] = None
      BY <1>5, <2>4, <2>8
    <3>4. Undisturbed(u)'
      BY <1>3, <2>6, <2>7, <3>2, <3>3 DEF Undisturbed, Uploading
    <3>5. QED
      BY <3>3, <3>4, NothingPromised
  <2>9. QED
    BY <1>1, <1>3, <2>4, <2>5, <2>6, <2>8, ChangeAgrees
<1>9. CASE RemoveManifest(t)
  <2>1. UNCHANGED <<config, cached, complete, points, promise, crossed>> /\ k.pc = "remove"
    BY <1>1, <1>9 DEF RemoveManifest, redis, At
  <2>2. ~ crossed => promise'[k.doc] = None
    BY <1>5, <2>1
  <2>3. ~ crossed => Kept(k.doc)'
    BY <2>2, NothingPromised
  <2>4. manifests' = [manifests EXCEPT ![k.doc] = None] \/ manifests' = manifests
    BY <1>1, <1>9 DEF RemoveManifest
  <2>5. \A d \in Docs \ {k.doc} : manifests'[d] = manifests[d]
    BY <2>4 DEF TypeInv, Stored
  <2>6. CASE Replies(t)
    BY <1>1, <1>3, <1>6, <2>1, <2>3, <2>5, <2>6, ChangeAgrees DEF Replies
  <2>7. CASE Goes(t, "uncache") /\ manifests' = [manifests EXCEPT ![k.doc] = None]
    <3>1. PICK u : u = [k EXCEPT !.pc = "uncache"]
      OBVIOUS
    <3>2. u.op = k.op /\ u.pc = "uncache" /\ u.doc = k.doc /\ u.ids = k.ids /\ u.clean = k.clean
      BY <1>1, <3>1, MovesOn
    <3>3. manifests'[k.doc] = None
      BY <1>3, <2>7 DEF TypeInv, Stored
    <3>4. ASSUME ~ crossed PROVE Undisturbed(u)'
      <4>1. k.clean => k.ids \cap DOMAIN points = {} /\ k.ids \cap complete \subseteq {}
        BY <1>4, <2>1, <3>4 DEF Undisturbed
      <4>2. QED
        BY <1>3, <2>1, <2>2, <3>2, <3>3, <3>4, <4>1 DEF Undisturbed, Uploading
    <3>5. Becomes(t, u)
      BY <1>1, <2>7, <3>1 DEF Goes
    <3>6. QED
      BY <1>1, <1>3, <2>1, <2>3, <2>5, <3>2, <3>4, <3>5, ChangeAgrees
  <2>8. QED
    BY <1>1, <1>9, <2>6, <2>7 DEF RemoveManifest
<1>10. CASE UncacheManifest(t)
  <2>1. UNCHANGED <<config, manifests, complete, points, crossed>> /\ k.pc = "uncache" /\ Replies(t)
    BY <1>1, <1>10 DEF UncacheManifest, At
  <2>2. /\ \A d \in Docs \ {k.doc} : cached'[d] = cached[d] /\ promise'[d] = promise[d]
        /\ \/ cached' = cached /\ promise' = promise
           \/ /\ cached'[k.doc] = None
              /\ promise'[k.doc] = IF k.clean THEN [is |-> "gone", ids |-> k.ids] ELSE None
    BY <1>1, <1>3, <1>10 DEF UncacheManifest, Uncached, TypeInv, Stored
  <2>3. ASSUME ~ crossed PROVE Kept(k.doc)'
    <3>1. CASE promise'[k.doc] = None
      BY <3>1, NothingPromised
    <3>2. CASE promise'[k.doc] # None
      <4>1. cached'[k.doc] = None /\ k.clean /\ promise'[k.doc] = [is |-> "gone", ids |-> k.ids]
        BY <1>5, <2>1, <2>2, <2>3, <3>2
      <4>2. /\ manifests'[k.doc] = None
            /\ k.ids \cap DOMAIN points = {} /\ k.ids \cap complete \subseteq {}
        BY <1>4, <2>1, <2>3, <4>1 DEF Undisturbed
      <4>3. promise'[k.doc].is # "served" /\ promise'[k.doc].ids = k.ids
        BY <4>1
      <4>4. Gone(k.doc, k.ids)'
        BY <2>1, <4>1, <4>2 DEF Gone
      <4>5. QED
        BY <1>3, <3>2, <4>3, <4>4 DEF Kept, IsGone, Gone
    <3>3. QED
      BY <3>1, <3>2
  <2>4. QED
    BY <1>1, <1>3, <1>6, <2>1, <2>2, <2>3, ChangeAgrees DEF Replies
<1>11. QED
  BY <1>7, <1>8, <1>9, <1>10

\* An extraction goes on with chunks it had already.
LEMMA ExtractionQuiet ==
    ASSUME TypeInv, AgreeInv, NEW t \in Slots, NEW k, k = task[t], k.pc \in Extracting,
           NEW u, Becomes(t, u),
           \/ u = Idle
           \/ /\ u.op = "extract" /\ u.pc \in Extracting
              /\ u.ids \cup u.all \subseteq k.ids \cup k.all,
           complete' \subseteq complete,
           UNCHANGED <<config, manifests, cached, points, promise, crossed>>
    PROVE  AgreeInv'
<1>1. k.op = "extract" /\ ~ At(t, "idle")
  BY DEF TypeInv, Typed, Extracting, At
<1>2. ~ crossed => Undisturbed(k)
  BY DEF AgreeInv
<1>3. CASE u = Idle
  BY <1>3, IdleUndisturbed, QuietAgrees DEF Idle
<1>4. CASE u.op = "extract" /\ u.pc \in Extracting /\ u.ids \cup u.all \subseteq k.ids \cup k.all
  <2>1. ~ crossed => Undisturbed(u)
    BY <1>1, <1>2, <1>4 DEF Undisturbed, Extracting, Uploading
  <2>2. QED
    BY <1>1, <1>4, <2>1, QuietAgrees
<1>5. QED
  BY <1>3, <1>4

\* An extraction until it has the answer of the model.
LEMMA FetchAgrees ==
    ASSUME TypeInv, AgreeInv, NEW t \in Slots,
           \/ SkipComplete(t) \/ MarkRunning(t) \/ FetchText(t) \/ AskModel(t) \/ ValidateAnswer(t)
    PROVE  AgreeInv'
<1>1. PICK k : k = task[t] /\ Typed(k) /\ Sound(k)
  BY DEF TypeInv
<1>2. k.pc \in Extracting
  BY <1>1 DEF SkipComplete, MarkRunning, FetchText, AskModel, ValidateAnswer, At, Extracting
<1>3. k.op = "extract"
  BY <1>1, <1>2 DEF Typed
<1>4. complete' \subseteq complete /\ UNCHANGED <<config, manifests, cached, points, promise, crossed>>
  <2>1. CASE SkipComplete(t)
    BY <2>1 DEF SkipComplete, stores, redis
  <2>2. CASE MarkRunning(t)
    BY <2>2 DEF MarkRunning
  <2>3. CASE FetchText(t)
    BY <2>3 DEF FetchText
  <2>4. CASE AskModel(t) \/ ValidateAnswer(t)
    BY <2>4 DEF AskModel, ValidateAnswer
  <2>5. QED
    BY <2>1, <2>2, <2>3, <2>4
<1>5. CASE Replies(t)
  BY <1>1, <1>2, <1>4, <1>5, ExtractionQuiet DEF Replies
<1>6. CASE SkipComplete(t)
  <2>1. PICK todo : todo = k.ids \ complete
    OBVIOUS
  <2>2. PICK u : u = [k EXCEPT !.pc = "mark", !.ids = todo, !.all = todo]
    OBVIOUS
  <2>3. Replies(t) \/ Becomes(t, u)
    BY <1>1, <1>6, <2>1, <2>2 DEF SkipComplete
  <2>4. u.op = "extract" /\ u.pc = "mark" /\ u.ids = todo /\ u.all = todo
    BY <1>1, <1>3, <2>2 DEF Typed, Shaped
  <2>5. u.pc \in Extracting /\ u.ids \cup u.all \subseteq k.ids \cup k.all
    BY <2>1, <2>4 DEF Extracting
  <2>6. QED
    BY <1>1, <1>2, <1>4, <1>5, <2>3, <2>4, <2>5, ExtractionQuiet
<1>7. CASE MarkRunning(t)
  <2>1. PICK u : u = [k EXCEPT !.pc = "text"]
    OBVIOUS
  <2>2. Becomes(t, u)
    BY <1>1, <1>7, <2>1 DEF MarkRunning, Goes
  <2>3. u.op = "extract" /\ u.pc \in Extracting /\ u.ids \cup u.all \subseteq k.ids \cup k.all
    BY <1>1, <1>3, <2>1, MovesOn DEF Extracting
  <2>4. QED
    BY <1>1, <1>2, <1>4, <2>2, <2>3, ExtractionQuiet
<1>8. CASE FetchText(t)
  <2>1. PICK id : id = CHOOSE i \in k.ids : TRUE
    OBVIOUS
  <2>2. PICK got : Becomes(t, IF k.ids = {id} /\ got = {} THEN Idle
                              ELSE [k EXCEPT !.ids = @ \ {id}, !.got = got,
                                      !.pc = IF k.ids = {id} THEN "ask" ELSE "text"])
    BY <1>1, <1>8, <2>1 DEF FetchText
  <2>3. PICK pc : pc = IF k.ids = {id} THEN "ask" ELSE "text"
    OBVIOUS
  <2>4. PICK u : u = [k EXCEPT !.ids = @ \ {id}, !.got = got, !.pc = pc]
    OBVIOUS
  <2>5. Becomes(t, Idle) \/ Becomes(t, u)
    BY <2>2, <2>3, <2>4
  <2>6. u.op = "extract" /\ u.pc = pc /\ u.ids = k.ids \ {id} /\ u.all = k.all
    BY <1>1, <1>3, <2>4 DEF Typed, Shaped
  <2>7. u.pc \in Extracting /\ u.ids \cup u.all \subseteq k.ids \cup k.all
    BY <2>3, <2>6 DEF Extracting
  <2>8. QED
    BY <1>1, <1>2, <1>4, <2>5, <2>6, <2>7, ExtractionQuiet
<1>9. CASE AskModel(t) \/ ValidateAnswer(t)
  <2>1. PICK u : Becomes(t, u) /\ \/ u = Idle
                                  \/ \E answer : u = [k EXCEPT !.pc = "validate", !.answer = answer]
                                  \/ \E answer : u = [k EXCEPT !.pc = "write", !.answer = answer]
                                  \/ u = [k EXCEPT !.attempt = @ + 1]
    BY <1>1, <1>9 DEF AskModel, ValidateAnswer, Replies
  <2>2. \/ u = Idle
        \/ u.op = "extract" /\ u.pc \in {k.pc, "validate", "write"} /\ u.ids = k.ids /\ u.all = k.all
    BY <1>1, <1>3, <2>1 DEF Typed, Shaped
  <2>3. u = Idle \/ (u.op = "extract" /\ u.pc \in Extracting /\ u.ids \cup u.all \subseteq k.ids \cup k.all)
    BY <1>2, <2>2 DEF Extracting
  <2>4. QED
    BY <1>1, <1>2, <1>4, <2>1, <2>3, ExtractionQuiet
<1>10. QED
  BY <1>6, <1>7, <1>8, <1>9

\* While an extraction is under way no document is being deleted, and a chunk it
\* completes is none of a document that is gone.
LEMMA WriteAgrees ==
    ASSUME TypeInv, AgreeInv, NEW t \in Slots, WriteResult(t) \/ ReportComplete(t) PROVE AgreeInv'
<1>1. PICK k : k = task[t] /\ Typed(k) /\ Sound(k)
  BY DEF TypeInv
<1>2. k.pc \in {"write", "report"} /\ k.pc \in Extracting
  BY <1>1 DEF WriteResult, ReportComplete, At, Extracting
<1>3. k.op = "extract" /\ k.answer # {} /\ Ids(k.got \cup k.answer) \subseteq k.all
  BY <1>1, <1>2 DEF Typed, Sound
<1>4. PICK result : result = CHOOSE r \in k.answer : TRUE
  OBVIOUS
<1>5. result[1] \in k.all
  BY <1>3, <1>4 DEF Ids
<1>6. /\ UNCHANGED <<config, manifests, cached, points, promise, crossed>>
      /\ complete' \subseteq complete \cup {result[1]}
      /\ WriteResult(t) => complete' \subseteq complete
  BY <1>1, <1>4 DEF WriteResult, ReportComplete
<1>7. PICK u : Becomes(t, u) /\ \/ u = Idle
                                \/ u = [k EXCEPT !.pc = "report"]
                                \/ u = [k EXCEPT !.answer = @ \ {result}]
                                \/ u = [k EXCEPT !.pc = "write", !.answer = @ \ {result}]
  BY <1>1, <1>4 DEF WriteResult, ReportComplete, Replies, Goes
<1>8. \/ u = Idle
      \/ u.op = "extract" /\ u.pc \in {"write", "report"} /\ u.ids = k.ids /\ u.all = k.all
  BY <1>1, <1>2, <1>3, <1>7 DEF Typed, Shaped
<1>9. u = Idle \/ (u.op = "extract" /\ u.pc \in Extracting /\ u.ids \cup u.all \subseteq k.ids \cup k.all)
  BY <1>8 DEF Extracting
<1>10. CASE complete' \subseteq complete
  BY <1>1, <1>2, <1>6, <1>7, <1>9, <1>10, ExtractionQuiet
<1>11. CASE ~ crossed /\ complete' \subseteq complete \cup {result[1]}
  <2>1. /\ Apart /\ (\A d \in Docs : Kept(d)) /\ \A v \in Slots : Undisturbed(task[v])
    BY <1>11 DEF AgreeInv
  <2>2. \A d \in Docs : IsGone(d) => result[1] \notin promise[d].ids
    BY <1>1, <1>3, <1>5, <2>1 DEF Undisturbed
  <2>3. Apart'
    <3>1. u.pc = "idle" \/ (~ At(t, "idle") /\ u.op = task[t].op /\ u.op \in {"list", "extract"})
      BY <1>1, <1>2, <1>3, <1>8 DEF At, Idle
    <3>2. QED
      BY <1>7, <2>1, <3>1, ApartStays DEF TypeInv
  <2>4. ASSUME NEW d \in Docs PROVE Kept(d)'
    BY <1>6, <2>1, <2>2 DEF Kept, Served, Gone, IsGone
  <2>5. ASSUME NEW v \in Slots PROVE Undisturbed(task[v])'
    <3>1. ASSUME NEW l, l = task'[v] PROVE Undisturbed(l)'
      <4>1. CASE v = t
        <5>1. l = u
          BY <1>7, <3>1, <4>1 DEF Becomes, TypeInv
        <5>2. CASE u = Idle
          BY <5>1, <5>2, IdleUndisturbed
        <5>3. CASE u.op = "extract" /\ u.pc \in {"write", "report"} /\ u.ids = k.ids /\ u.all = k.all
          <6>1. Undisturbed(k)
            BY <1>1, <2>1
          <6>2. QED
            BY <1>3, <1>6, <5>1, <5>3, <6>1 DEF Undisturbed, IsGone, Uploading
        <5>4. QED
          BY <1>8, <5>2, <5>3
      <4>2. CASE v # t
        <5>1. l = task[v] /\ Typed(l) /\ Undisturbed(l)
          BY <1>7, <2>1, <3>1, <4>2 DEF Becomes, TypeInv
        <5>2. l.op # "delete" \/ l.pc = "idle"
          <6>1. k.pc # "idle"
            BY <1>2
          <6>2. QED
            BY <1>1, <1>3, <2>1, <4>2, <5>1, <6>1 DEF Apart, At, Crosses
        <5>3. l.pc \notin Deleting
          BY <5>1, <5>2 DEF Typed, Deleting
        <5>4. QED
          BY <1>6, <5>1, <5>3 DEF Undisturbed, IsIndexed, IsGone, Manifest, Deleting
      <4>3. QED
        BY <4>1, <4>2
    <3>2. QED
      BY <3>1, UndisturbedInItsPlace
  <2>6. QED
    BY <2>3, <2>4, <2>5 DEF AgreeInv
<1>12. CASE crossed
  BY <1>6, <1>12 DEF AgreeInv
<1>13. QED
  BY <1>6, <1>11, <1>12

\* A restart ends the requests, and a key that expires takes no word back.
LEMMA EnvironmentAgrees ==
    ASSUME TypeInv, AgreeInv, Restart \/ Expire PROVE AgreeInv'
<1> SUFFICES ASSUME ~ crossed'
             PROVE  Apart' /\ (\A d \in Docs : Kept(d)') /\ \A v \in Slots : Undisturbed(task[v])'
  BY DEF AgreeInv
<1>1. /\ ~ crossed
      /\ Apart /\ (\A d \in Docs : Kept(d)) /\ \A v \in Slots : Undisturbed(task[v])
  BY DEF AgreeInv, Restart, Expire
<1>2. UNCHANGED <<manifests, points, promise>> /\ complete' \subseteq complete
      /\ \A d \in Docs : cached'[d] \in {None, cached[d]}
  BY DEF Restart, Expire, stores, redis, TypeInv, Stored
<1>3. ASSUME NEW d \in Docs PROVE Kept(d)'
  BY <1>1, <1>2, KeptStays
<1>4. CASE Restart
  <2>1. \A v \in Slots : task'[v] = Idle
    BY <1>4 DEF Restart
  <2>2. Apart'
    BY <2>1 DEF Apart, At, Idle
  <2>3. \A v \in Slots : Undisturbed(task[v])'
    BY <2>1, IdleUndisturbed, UndisturbedInItsPlace
  <2>4. QED
    BY <1>3, <2>2, <2>3
<1>5. CASE Expire
  <2>1. task' = task /\ config' = config
    BY <1>5 DEF Expire
  <2>2. Apart'
    BY <1>1, <2>1 DEF Apart, At, Crosses
  <2>3. ASSUME NEW v \in Slots PROVE Undisturbed(task[v])'
    BY <1>1, <1>2, <2>1, UndisturbedStays, UndisturbedInItsPlace
  <2>4. QED
    BY <1>3, <2>2, <2>3
<1>6. QED
  BY <1>4, <1>5

\* Nothing is promised at first.
LEMMA InitAgrees == Init => AgreeInv
<1> SUFFICES ASSUME Init PROVE AgreeInv
  OBVIOUS
<1>1. \A v \in Slots : task[v] = Idle
  BY DEF Init
<1>2. Apart
  BY <1>1 DEF Apart, At, Idle
<1>3. \A d \in Docs : Kept(d)
  BY DEF Init, Kept, IsGone
<1>4. \A v \in Slots : Undisturbed(task[v])
  BY <1>1, IdleUndisturbed
<1>5. QED
  BY <1>2, <1>3, <1>4 DEF AgreeInv

\* Every step keeps the agreement.
LEMMA NextAgrees == TypeInv /\ AgreeInv /\ [Next]_vars => AgreeInv'
<1> SUFFICES ASSUME TypeInv, AgreeInv, [Next]_vars PROVE AgreeInv'
  OBVIOUS
<1>1. ASSUME NEW t \in Slots, Step(t) PROVE AgreeInv'
  <2>1. CASE ReadChunks(t)
    <3>1. UNCHANGED <<config, manifests, cached, points, complete, promise, crossed>> /\ Becomes(t, Idle)
      BY <2>1 DEF ReadChunks, stores, redis, Replies
    <3>2. QED
      BY <3>1, IdleUndisturbed, QuietAgrees DEF Idle
  <2>2. QED
    BY <1>1, <2>1, BeginAgrees, LookingAgrees, ParseAgrees, IndexBatchAgrees, ManifestAgrees,
       DeletionAgrees, FetchAgrees, WriteAgrees DEF Step
<1>2. CASE UNCHANGED vars
  <2>1. UNCHANGED <<config, manifests, cached, complete, points, task, promise, crossed>>
    BY <1>2 DEF vars, stores, redis
  <2> SUFFICES ASSUME ~ crossed'
               PROVE  Apart' /\ (\A d \in Docs : Kept(d)') /\ \A v \in Slots : Undisturbed(task[v])'
    BY DEF AgreeInv
  <2>2. Apart /\ (\A d \in Docs : Kept(d)) /\ \A v \in Slots : Undisturbed(task[v])
    BY <2>1 DEF AgreeInv
  <2>3. Apart'
    BY <2>1, <2>2 DEF Apart, At, Crosses
  <2>4. ASSUME NEW d \in Docs PROVE Kept(d)'
    BY <2>1, <2>2, KeptStays
  <2>5. ASSUME NEW v \in Slots PROVE Undisturbed(task[v])'
    BY <2>1, <2>2, UndisturbedStays, UndisturbedInItsPlace
  <2>6. QED
    BY <2>3, <2>4, <2>5
<1>3. QED
  BY <1>1, <1>2, EnvironmentAgrees DEF Next

\* S3, Redis and Qdrant agree about every document whose last request succeeded,
\* whatever failed, crashed, expired or was configured, as long as no two requests
\* for a document have crossed; and a complete chunk is in the graph.
THEOREM StoresAlwaysAgree == Spec => []StoresAgree
<1>1. Spec => [](TypeInv /\ AgreeInv)
  <2>1. Init => TypeInv /\ AgreeInv
    BY InitSound, InitAgrees
  <2>2. TypeInv /\ AgreeInv /\ [Next]_vars => (TypeInv /\ AgreeInv)'
    BY NextSound, NextAgrees
  <2>3. QED
    BY <2>1, <2>2, PTL DEF Spec
<1>2. TypeInv /\ AgreeInv => StoresAgree
  BY DEF TypeInv, AgreeInv, StoresAgree, CompleteIsExtracted, Kept
<1>3. QED
  BY <1>1, <1>2, PTL
=============================================================================
