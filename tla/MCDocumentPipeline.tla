------------------------- MODULE MCDocumentPipeline -------------------------
(* Instances of DocumentPipeline for TLC.                                    *)
EXTENDS DocumentPipeline

CONSTANTS d1, d2, t1, t2

Alike == Permutations(Slots)

Tiers3 == <<"docling", "unstructured", "raw_text">>
E(kind, length) == [type |-> kind, size |-> length, page |-> 0]

\* Three chunks, two with the second parser, one with the last.
Structured == <<E("heading", 2), E("paragraph", 4), E("table", 3), E("paragraph", 3)>>
Flat == <<E("paragraph", 4), E("paragraph", 4)>>
Raw == <<E("paragraph", 8)>>

ForAll(elements(_)) == [d \in Docs |-> [tier \in TierSet |-> elements(tier)]]
SameForAll ==
    ForAll(LAMBDA tier : CASE tier = "docling" -> Structured [] tier = "unstructured" -> Flat [] OTHER -> Raw)
RawOnly == ForAll(LAMBDA tier : Raw)

Bound(ops, docs, requests, faults, configs, parses) ==
    [ops |-> ops, docs |-> docs, requests |-> requests, faults |-> faults, configs |-> configs, parses |-> parses]

\* What a caller of ChunkingService may pass: every sequence of up to four of these kinds.
Kinds == {E("heading", 0), E("heading", 2), E("paragraph", 3), E("paragraph", 9), E("list_item", 2),
          E("table", 0), E("table", 3), E("header", 2), E("image", 0), E("caption", 2),
          [type |-> "image", size |-> 2, page |-> NoPage], [type |-> "other", size |-> 1, page |-> 2]}
Inputs == SeqOf(Kinds, 4)
AnyInput == {ForAll(LAMBDA tier : elements) : elements \in Inputs}

MCScenarios ==
    {Bound({"ingest"}, {d1}, 1, 0, {{"docling"}}, AnyInput),
     Bound({"ingest", "delete", "read"}, {d1}, 4, 2, {{"docling", "unstructured"}, {"raw_text"}}, {SameForAll}),
     Bound({"ingest", "list", "delete"}, {d1, d2}, 3, 1, {TierSet, {}}, {SameForAll}),
     Bound({"ingest", "extract", "delete"}, {d1}, 3, 1, {{"docling"}, {"raw_text"}}, {SameForAll}),
     Bound({"ingest", "extract"}, {d1}, 2, 3, {{"raw_text"}}, {RawOnly})}
=============================================================================
