------------------------------ MODULE Chunking ------------------------------
(* ChunkingService: the elements a parser found are grouped into chunks.  An   *)
(* element has a type, a page or None, and a size, the length of its text; a    *)
(* text of blanks has size 0.  Of a chunk only the positions of its elements    *)
(* are kept, with its index and its pages; quality flags are left out.         *)
EXTENDS Naturals, Sequences, SequencesExt

CONSTANTS
    MaxChars,       \* max_chars
    MaxTokens,      \* max_tokens
    CharsPerToken,  \* _CHARS_PER_TOKEN
    NoPage          \* page=None

ASSUME ChunkingAssumption ==
    /\ MaxChars \in Nat /\ MaxTokens \in Nat /\ CharsPerToken \in Nat \ {0}
    /\ NoPage \notin Nat

Types == {"heading", "paragraph", "table", "image", "caption", "list_item",
          "header", "footer", "other"}
ParsedElement == [type : Types, size : Nat, page : Nat \cup {NoPage}]

\* The two line feeds between the texts of a chunk.
Separator == 2

HasText(e) == e.size > 0
Skipped(e) == e.type \in {"header", "footer"}
Accumulated(e) == ~ Skipped(e) /\ e.type \notin {"table", "image", "heading"}

\* _PendingChunk: the positions of the elements grouped so far.
LengthWith(elements, n, i) ==
    IF ~ HasText(elements[i]) THEN n
    ELSE IF n = 0 THEN elements[i].size ELSE n + Separator + elements[i].size

TextLength(elements, group) == FoldLeft(LAMBDA n, i : LengthWith(elements, n, i), 0, group)

\* wrong: the length of the text that is there already.
ExceedsBefore(elements, group, i) == TextLength(elements, group) > MaxChars

WouldExceedLimit(elements, group, i) ==
    LET projected == TextLength(elements, Append(group, i))
    IN  projected > MaxChars \/ projected \div CharsPerToken > MaxTokens

Pages(elements, group) ==
    {elements[group[i]].page : i \in DOMAIN group} \ {NoPage}

\* _flush; a group without text is left alone.  A chunk without a page is
\* rejected in the end.
Flush(elements, chunks, group) ==
    LET pages == Pages(elements, group)
    IN  IF TextLength(elements, group) = 0 THEN chunks
        ELSE Append(chunks,
                [elements |-> group,
                 index |-> Len(chunks),
                 start |-> IF pages = {} THEN NoPage ELSE Min(pages),
                 end |-> IF pages = {} THEN NoPage ELSE Max(pages)])

\* The chunks so far, the group, and the image that waits for its caption: the
\* group is empty then, so it makes no difference that it is flushed late.
Start == [chunks |-> <<>>, group |-> <<>>, image |-> <<>>]

FlushAll(elements, acc) ==
    [Start EXCEPT !.chunks = Flush(elements, Flush(elements, acc.chunks, acc.image), acc.group)]

Element(elements, before, i) ==
    LET e == elements[i]
        caption == before.image # <<>> /\ e.type = "caption"
        acc == IF before.image # <<>> THEN FlushAll(elements, before) ELSE before
        flushed == FlushAll(elements, acc)
    IN  IF caption
        THEN [Start EXCEPT !.chunks = Flush(elements, before.chunks, Append(before.image, i))]
        ELSE CASE e.type = "table" -> [flushed EXCEPT !.chunks = Flush(elements, @, <<i>>)]
               [] e.type = "image" -> [flushed EXCEPT !.image = <<i>>]
               [] e.type = "heading" ->
                     IF HasText(e) THEN [flushed EXCEPT !.group = <<i>>] ELSE flushed
               [] Accumulated(e) /\ HasText(e) ->
                     IF acc.group # <<>> /\ WouldExceedLimit(elements, acc.group, i)
                     THEN [flushed EXCEPT !.group = <<i>>]
                     ELSE [acc EXCEPT !.group = Append(@, i)]
               [] OTHER -> acc

Grouped(elements) ==
    FlushAll(elements, FoldLeftDomain(LAMBDA acc, i : Element(elements, acc, i), Start, elements)).chunks

\* empty_document, missing_page_info
Rejected(chunks) ==
    chunks = <<>> \/ \E i \in DOMAIN chunks : chunks[i].start = NoPage

\* chunk_document: the chunks, or none when the document is rejected.
ChunkDocument(elements) ==
    LET chunks == Grouped(elements) IN IF Rejected(chunks) THEN <<>> ELSE chunks

\* The id of a chunk within its document: hashed with the id of the document.
ChunkId(chunk) == <<chunk.start, chunk.index>>
ChunkIds == Nat \X Nat

(***************************************************************************)
(* What the grouping promises                                              *)
(***************************************************************************)
\* Every text that is neither a page header nor a footer is in a chunk, once and in
\* the order of the document, and no header or footer is.
TextKept(elements, chunks) ==
    /\ \A i \in DOMAIN elements : HasText(elements[i]) /\ ~ Skipped(elements[i]) =>
          \E c \in DOMAIN chunks : i \in Range(chunks[c].elements)
    /\ \A c \in DOMAIN chunks : \A i \in Range(chunks[c].elements) :
          i \in DOMAIN elements /\ ~ Skipped(elements[i])
    /\ \A c, d \in DOMAIN chunks : \A p \in DOMAIN chunks[c].elements, q \in DOMAIN chunks[d].elements :
          c < d \/ (c = d /\ p < q) => chunks[c].elements[p] < chunks[d].elements[q]

\* Tables stand alone, images but for their caption, and a heading comes first.
Bounded(elements, group) ==
    \A i \in DOMAIN group :
        LET type == elements[group[i]].type
        IN  /\ type = "table" => Len(group) = 1
            /\ type = "image" =>
                  /\ i = 1 /\ Len(group) <= 2
                  /\ Len(group) = 2 => elements[group[2]].type = "caption" /\ group[2] = group[1] + 1
            /\ type = "heading" => i = 1

BoundariesKept(elements, chunks) ==
    \A c \in DOMAIN chunks : Bounded(elements, chunks[c].elements)

\* Only an element that is too long by itself, or an image with its caption,
\* makes a chunk longer than the limits.
WithinLimits(elements, group) ==
    LET length == TextLength(elements, group)
    IN  \/ Len(group) = 1
        \/ elements[group[1]].type = "image"
        \/ length <= MaxChars /\ length \div CharsPerToken <= MaxTokens

LimitsKept(elements, chunks) ==
    \A c \in DOMAIN chunks : WithinLimits(elements, chunks[c].elements)

\* No chunk could have taken the first element of the next one.
Breaks == {"table", "image", "heading"}
Opens(e) == e.type = "heading" \/ Accumulated(e)

CannotTake(elements, group, next) ==
    /\ Opens(elements[group[1]]) /\ Accumulated(elements[next])
    /\ \A i \in (group[Len(group)] + 1) .. (next - 1) : elements[i].type \notin Breaks
    => WouldExceedLimit(elements, group, next)

Greedy(elements, chunks) ==
    \A c \in DOMAIN chunks : c < Len(chunks) =>
        CannotTake(elements, chunks[c].elements, chunks[c + 1].elements[1])

\* Two chunks of a document never have the same id, whatever their pages.
IdsDiffer(chunks) ==
    \A c, d \in DOMAIN chunks : ChunkId(chunks[c]) = ChunkId(chunks[d]) => c = d

WellChunked(elements, chunks) ==
    /\ TextKept(elements, chunks)
    /\ BoundariesKept(elements, chunks)
    /\ LimitsKept(elements, chunks)
    /\ Greedy(elements, chunks)
    /\ IdsDiffer(chunks)
=============================================================================
