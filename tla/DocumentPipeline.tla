-------------------------- MODULE DocumentPipeline --------------------------
(* The documents of one run: POST /documents/ingest, the endpoints that read    *)
(* and delete them, and an extraction of their chunks by the language model,    *)
(* over S3 (manifests), Redis (cached manifests, chunk texts, job statuses)     *)
(* and Qdrant (chunks), one action per await.                                 *)
(*                                                                           *)
(* A document is its bytes; what a parser makes of it is in `parsed`.  The     *)
(* text of a chunk is the parser it comes from and the elements in it.  Of the *)
(* job statuses only `complete` is kept, and one batch is all of the chunks:   *)
(* the queue, the other statuses and batches are the matter of ExtractionJobs. *)
EXTENDS Chunking, FiniteSets

CONSTANTS
    Slots,          \* requests at a time
    Docs,           \* documents uploaded
    Tiers,          \* the parsers, in the order they are tried
    UpsertBatch,    \* UPSERT_BATCH_SIZE
    MaxAttempts,    \* _MAX_ATTEMPTS
    Scenarios,      \* bounds, one record of them for each behaviour
    None            \* a missing value

Ops == {"ingest", "delete", "read", "list", "extract"}

ASSUME DocumentAssumption ==
    /\ UpsertBatch \in Nat \ {0} /\ MaxAttempts \in Nat \ {0}
    /\ \A s \in Scenarios : s.ops \subseteq Ops /\ s.docs \subseteq Docs /\ s.docs # {}

VARIABLES
    config,     \* the parsers the settings enable
    parsed,     \* the elements each parser finds in each document
    manifests,  \* {run_id}/manifests/{doc_id}.json in S3
    cached,     \* manifest:{run_id}:{doc_id} in Redis
    points,     \* the text of each chunk in Qdrant
    texts,      \* chunk:{chunk_id} in Redis
    complete,   \* chunks whose job status is complete
    extracted,  \* texts whose result is in the graph
    task,       \* what each request is doing
    promise,    \* history: what the last reply said about each document
    crossed,    \* history: two requests for a document have crossed
    left        \* what is left of the bounds

redis == <<cached, texts, complete>>
stores == <<manifests, redis, points, extracted>>
vars == <<config, parsed, stores, task, promise, crossed, left>>

TierSet == {Tiers[i] : i \in DOMAIN Tiers}
ChunksOf(d, tier) == ChunkDocument(parsed[d][tier])

\* A parser finds elements, and a manifest is not None.
ASSUME ParsesAssumption ==
    \A s \in Scenarios :
        /\ \A p \in s.parses, d \in Docs, tier \in TierSet : p[d][tier] \in Seq(ParsedElement)
        /\ None \notin [config : s.configs, tier : TierSet, ids : SUBSET (Docs \X ChunkIds)]

\* Chunk ids are hashes of the document, the page and the index.
Id(k, i) == <<k.doc, ChunkId(k.chunks[i])>>

Idle == [op |-> None, pc |-> "idle", doc |-> None, docs |-> {}, found |-> None, tier |-> None,
         chunks |-> <<>>, next |-> 1, ids |-> {}, all |-> {}, got |-> {}, answer |-> {}, attempt |-> 1,
         clean |-> TRUE]

Becomes(t, k) == task' = [task EXCEPT ![t] = k]
Goes(t, pc) == Becomes(t, [task[t] EXCEPT !.pc = pc])
Replies(t) == Becomes(t, Idle)
At(t, pc) == task[t].pc = pc

Works == UNCHANGED left
Fails == left.faults > 0 /\ left' = [left EXCEPT !.faults = @ - 1]

\* Nothing is known of the document any more.
Doubt(d) == promise' = [promise EXCEPT ![d] = None]

(***************************************************************************)
(* Requests                                                                *)
(***************************************************************************)
\* Nothing keeps two requests for a document apart when one of them changes it.
Crosses(k, l) ==
    /\ {k.op, l.op} \cap {"ingest", "delete"} # {}
    /\ k.doc = l.doc \/ {k.op, l.op} \cap {"list", "extract"} # {}

\* Bound: no request follows a crossing, as nothing is promised after it.
Begin(t) ==
    /\ At(t, "idle") /\ left.requests > 0 /\ ~ crossed
    /\ left' = [left EXCEPT !.requests = @ - 1]
    /\ \E op \in left.ops, d \in left.docs :
          /\ op \in {"list", "extract"} => d = CHOOSE e \in left.docs : TRUE
          /\ Becomes(t, [Idle EXCEPT !.op = op, !.doc = d,
                            !.pc = IF op \in {"list", "extract"} THEN "scan" ELSE "lookup"])
          /\ crossed' = \E u \in Slots \ {t} :
                            ~ At(u, "idle") /\ Crosses([op |-> op, doc |-> d], task[u])
    /\ UNCHANGED <<config, parsed, stores, promise>>

\* The keys under {run_id}/manifests/; the statuses wait until all are read.
ScanManifests(t) ==
    LET listed == {d \in Docs : manifests[d] # None}
        first == CHOOSE d \in listed : TRUE
    IN  /\ At(t, "scan")
        /\ \/ /\ Works
              /\ IF listed = {} THEN Replies(t)
                 ELSE Becomes(t, [task[t] EXCEPT !.pc = "lookup", !.doc = first, !.docs = listed \ {first}])
           \/ Fails /\ Replies(t)
        /\ UNCHANGED <<config, parsed, stores, promise, crossed>>

(***************************************************************************)
(* retrieve_manifest                                                       *)
(***************************************************************************)
\* The content is the same: it is hashed into the id of the document.
IsHit(manifest) == manifest # None /\ manifest.config = config

\* What a request does with the manifest it asked for.
WithManifest(k, manifest) ==
    CASE k.op = "ingest" ->
            IF IsHit(manifest) THEN Idle ELSE [k EXCEPT !.pc = "parse"]
      [] k.op = "delete" ->
            IF manifest = None THEN Idle ELSE [k EXCEPT !.pc = "unindex", !.ids = manifest.ids]
      [] k.op = "read" -> IF manifest = None THEN Idle ELSE [k EXCEPT !.pc = "scroll"]
      [] OTHER ->
            LET ids == k.ids \cup (IF manifest = None THEN {} ELSE manifest.ids)
                d == CHOOSE e \in k.docs : TRUE
            IN  IF k.docs # {} THEN [k EXCEPT !.ids = ids, !.doc = d, !.docs = @ \ {d}, !.pc = "lookup"]
                ELSE IF k.op = "list" THEN Idle
                ELSE [k EXCEPT !.ids = ids, !.pc = "pending"]

LookUpManifest(t) ==
    LET k == task[t]
        d == k.doc
    IN  /\ At(t, "lookup")
        /\ \/ /\ Works
              /\ IF cached[d] # None THEN Becomes(t, WithManifest(k, cached[d])) ELSE Goes(t, "load")
           \/ Fails /\ Goes(t, "load")
        /\ UNCHANGED <<config, parsed, stores, promise, crossed>>

\* An S3 error is 503, or 500 for an upload.
LoadManifest(t) ==
    LET k == task[t]
        manifest == manifests[k.doc]
    IN  /\ At(t, "load")
        /\ \/ /\ Works
              /\ Becomes(t, IF manifest = None THEN WithManifest(k, None)
                            ELSE [k EXCEPT !.pc = "backfill", !.found = manifest])
           \/ Fails /\ Replies(t)
        /\ UNCHANGED <<config, parsed, stores, promise, crossed>>

Backfill(t) ==
    LET k == task[t]
    IN  /\ At(t, "backfill")
        /\ \/ Works /\ cached' = [cached EXCEPT ![k.doc] = k.found]
           \/ Fails /\ cached' = cached
        /\ Becomes(t, WithManifest([k EXCEPT !.found = None], k.found))
        /\ UNCHANGED <<config, parsed, manifests, texts, complete, points, extracted, promise, crossed>>

\* All points of the document, page by page; when Qdrant fails, an empty list.
ReadChunks(t) ==
    /\ At(t, "scroll")
    /\ Works \/ Fails
    /\ Replies(t)
    /\ UNCHANGED <<config, parsed, stores, promise, crossed>>

(***************************************************************************)
(* Upload                                                                  *)
(***************************************************************************)
\* The first enabled parser that does not fail; without one, or when the
\* chunking rejects what it found, the answer is 422.
Parse(t) ==
    LET k == task[t]
        enabled == {i \in DOMAIN Tiers : Tiers[i] \in config}
        chunked(tier) ==
            IF ChunksOf(k.doc, tier) = <<>> THEN Replies(t)
            ELSE Becomes(t, [k EXCEPT !.pc = "index", !.tier = tier, !.chunks = ChunksOf(k.doc, tier)])
    IN  /\ At(t, "parse")
        /\ \/ enabled = {} /\ Works /\ Replies(t)
           \/ \E i \in enabled : (\A j \in enabled : i <= j) /\ Works /\ chunked(Tiers[i])
           \/ \E i \in enabled : (\E j \in enabled : j < i) /\ Fails /\ chunked(Tiers[i])
           \/ enabled # {} /\ Fails /\ Replies(t)
        /\ UNCHANGED <<config, parsed, stores, promise, crossed>>

Text(k, i) == <<k.tier, k.chunks[i].elements>>

\* wrong: the batch is one chunk short.
BatchShort(k) == k.next .. Min({k.next + UpsertBatch - 2, Len(k.chunks)})

\* The chunks the next batch is made of.
Batch(k) == k.next .. Min({k.next + UpsertBatch - 1, Len(k.chunks)})

\* The collection is neither there nor can it be created: no batch is tried.
NoCollection(t) ==
    /\ Fails
    /\ task[t].next = 1
    /\ Becomes(t, [task[t] EXCEPT !.pc = "put", !.clean = FALSE])

\* A batch that cannot be embedded or stored is left out, and nobody is told.
IndexBatch(t) ==
    LET k == task[t]
        batch == {Id(k, i) : i \in Batch(k)}
        text(id) == Text(k, CHOOSE i \in Batch(k) : Id(k, i) = id)
        next == k.next + UpsertBatch
        pc == IF next > Len(k.chunks) THEN "put" ELSE "index"
    IN  /\ At(t, "index")
        /\ Doubt(k.doc)
        /\ \/ /\ Works
              /\ points' = [id \in DOMAIN points \cup batch |-> IF id \in batch THEN text(id) ELSE points[id]]
              /\ Becomes(t, [k EXCEPT !.next = next, !.pc = pc])
           \/ /\ Fails
              /\ Becomes(t, [k EXCEPT !.next = next, !.pc = pc, !.clean = FALSE])
              /\ UNCHANGED points
           \/ NoCollection(t) /\ UNCHANGED points
        /\ UNCHANGED <<config, parsed, manifests, redis, extracted, crossed>>

Manifest(k) == [config |-> config, tier |-> k.tier, ids |-> {Id(k, i) : i \in DOMAIN k.chunks}]

\* 207 when the manifest cannot be stored.
PutManifest(t) ==
    LET k == task[t]
    IN  /\ At(t, "put")
        /\ \/ /\ Works
              /\ manifests' = [manifests EXCEPT ![k.doc] = Manifest(k)]
              /\ Goes(t, "cache")
           \/ Fails /\ Replies(t) /\ UNCHANGED manifests
        /\ UNCHANGED <<config, parsed, redis, points, extracted, promise, crossed>>

CacheManifest(t) ==
    LET k == task[t]
    IN  /\ At(t, "cache")
        /\ \/ /\ Works
              /\ cached' = [cached EXCEPT ![k.doc] = Manifest(k)]
              /\ promise' = [promise EXCEPT ![k.doc] = IF k.clean THEN [is |-> "served"] ELSE None]
           \/ Fails /\ UNCHANGED <<cached, promise>>
        /\ Replies(t)
        /\ UNCHANGED <<config, parsed, manifests, texts, complete, points, extracted, crossed>>

(***************************************************************************)
(* Deletion                                                                *)
(***************************************************************************)
DeleteChunks(t) ==
    LET k == task[t]
    IN  /\ At(t, "unindex")
        /\ Doubt(k.doc)
        /\ \/ /\ Works
              /\ points' = [id \in DOMAIN points \ k.ids |-> points[id]]
              /\ Becomes(t, [k EXCEPT !.pc = "clear", !.got = k.ids])
           \/ /\ Fails
              /\ Becomes(t, [k EXCEPT !.pc = "clear", !.got = k.ids, !.clean = FALSE])
              /\ UNCHANGED points
        /\ UNCHANGED <<config, parsed, manifests, redis, extracted, crossed>>

\* One key after the other.
ClearStatus(t) ==
    LET k == task[t]
        id == CHOOSE i \in k.got : TRUE
        rest == [k EXCEPT !.got = @ \ {id}, !.pc = IF k.got = {id} THEN "remove" ELSE "clear"]
    IN  /\ At(t, "clear")
        /\ \/ Works /\ complete' = complete \ {id} /\ Becomes(t, rest)
           \/ Fails /\ complete' = complete /\ Becomes(t, [rest EXCEPT !.clean = FALSE])
        /\ UNCHANGED <<config, parsed, manifests, cached, texts, points, extracted, promise, crossed>>

\* 503 when S3 fails.
RemoveManifest(t) ==
    LET k == task[t]
    IN  /\ At(t, "remove")
        /\ \/ /\ Works
              /\ manifests' = [manifests EXCEPT ![k.doc] = None]
              /\ Goes(t, "uncache")
           \/ Fails /\ Replies(t) /\ UNCHANGED manifests
        /\ UNCHANGED <<config, parsed, redis, points, extracted, promise, crossed>>

Uncached(d) == [cached EXCEPT ![d] = None]

UncacheManifest(t) ==
    LET k == task[t]
    IN  /\ At(t, "uncache")
        /\ \/ /\ Works
              /\ cached' = Uncached(k.doc)
              /\ promise' = [promise EXCEPT ![k.doc] =
                                IF k.clean THEN [is |-> "gone", ids |-> k.ids] ELSE None]
           \/ Fails /\ UNCHANGED <<cached, promise>>
        /\ Replies(t)
        /\ UNCHANGED <<config, parsed, manifests, texts, complete, points, extracted, crossed>>

(***************************************************************************)
(* Extraction                                                              *)
(***************************************************************************)
Ids(results) == {r[1] : r \in results}

\* Chunks that are complete are skipped.
SkipComplete(t) ==
    LET k == task[t]
        todo == k.ids \ complete
    IN  /\ At(t, "pending")
        /\ IF todo = {} THEN Replies(t)
           ELSE Becomes(t, [k EXCEPT !.pc = "mark", !.ids = todo, !.all = todo])
        /\ Works
        /\ UNCHANGED <<config, parsed, stores, promise, crossed>>

\* The worker writes `running` over whatever the status has become.
MarkRunning(t) ==
    /\ At(t, "mark")
    /\ \/ Works /\ complete' = complete \ task[t].all
       \/ Fails /\ complete' = complete
    /\ Goes(t, "text")
    /\ UNCHANGED <<config, parsed, manifests, cached, texts, points, extracted, promise, crossed>>

Indexed(id) == id \in DOMAIN points

\* The text of a chunk from the cache or else from Qdrant; the chunks without one
\* get the status `failed` when all have been looked for.
FetchText(t) ==
    LET k == task[t]
        id == CHOOSE i \in k.ids : TRUE
        last == k.ids = {id}
        found(got) ==
            /\ Becomes(t, IF last /\ got = {} THEN Idle
                          ELSE [k EXCEPT !.ids = @ \ {id}, !.got = got,
                                  !.pc = IF last THEN "ask" ELSE "text"])
            /\ complete' = IF last THEN complete \ (k.all \ Ids(got)) ELSE complete
        with(text) == k.got \cup {<<id, text>>}
    IN  /\ At(t, "text")
        /\ \/ Works /\ id \in DOMAIN texts /\ found(with(texts[id])) /\ UNCHANGED texts
           \/ /\ Works
              /\ id \notin DOMAIN texts /\ Indexed(id)
              /\ found(with(points[id]))
              /\ texts' = [i \in DOMAIN texts \cup {id} |-> IF i = id THEN points[i] ELSE texts[i]]
           \/ Works /\ id \notin DOMAIN texts /\ ~ Indexed(id) /\ found(k.got) /\ UNCHANGED texts
           \/ Fails /\ Indexed(id) /\ found(with(points[id])) /\ UNCHANGED texts
           \/ Fails /\ found(k.got) /\ UNCHANGED texts
        /\ UNCHANGED <<config, parsed, manifests, cached, points, extracted, promise, crossed>>

\* LLMClient.call: network errors, 5xx, bodies without a message and short
\* answers that are not valid are tried again; other failures are not.
Retryable == {"network", "server_error", "malformed_body", "short_answer"}
Final == {"client_error", "invalid_answer"}

\* wrong: once more than there are attempts.
RetriesTooOften(k) == k.attempt <= MaxAttempts

Retries(k) == k.attempt < MaxAttempts

AskModel(t) ==
    LET k == task[t]
        givenUp == Replies(t) /\ complete' = complete \ Ids(k.got)
    IN  /\ At(t, "ask")
        /\ \/ \E answered \in SUBSET k.got :
                 /\ Works
                 /\ Becomes(t, [k EXCEPT !.pc = "validate", !.answer = answered])
                 /\ UNCHANGED complete
           \/ \E error \in Retryable :
                 /\ Fails
                 /\ IF Retries(k) THEN Becomes(t, [k EXCEPT !.attempt = @ + 1]) /\ UNCHANGED complete
                    ELSE givenUp
           \/ \E error \in Final : Fails /\ givenUp
        /\ UNCHANGED <<config, parsed, manifests, cached, texts, points, extracted, promise, crossed>>

\* The answers that may be accepted: which of them have only types of the schema,
\* and values, is left open.
Conforming(k) == SUBSET k.answer

\* extract_batch: a chunk that was not answered, or with a type the schema does not
\* have, fails by itself; no schema, and all of them do.
ValidateAnswer(t) ==
    LET k == task[t]
    IN  /\ At(t, "validate")
        /\ \E conforming \in Conforming(k) :
              /\ IF conforming = {} THEN Replies(t)
                 ELSE Becomes(t, [k EXCEPT !.pc = "write", !.answer = conforming])
              /\ complete' = complete \ Ids(k.got \ conforming)
        /\ Works
        /\ UNCHANGED <<config, parsed, manifests, cached, texts, points, extracted, promise, crossed>>

WriteResult(t) ==
    LET k == task[t]
        result == CHOOSE r \in k.answer : TRUE
        rest == [k EXCEPT !.answer = @ \ {result}]
    IN  /\ At(t, "write")
        /\ \/ /\ Works
              /\ extracted' = extracted \cup {result}
              /\ Goes(t, "report")
              /\ UNCHANGED complete
           \/ /\ Fails
              /\ IF rest.answer = {} THEN Replies(t) ELSE Becomes(t, rest)
              /\ complete' = complete \ {result[1]}
              /\ UNCHANGED extracted
        /\ UNCHANGED <<config, parsed, manifests, cached, texts, points, promise, crossed>>

ReportComplete(t) ==
    LET k == task[t]
        result == CHOOSE r \in k.answer : TRUE
    IN  /\ At(t, "report")
        /\ \/ Works /\ complete' = complete \cup {result[1]}
           \/ Fails /\ complete' = complete
        /\ IF k.answer = {result} THEN Replies(t)
           ELSE Becomes(t, [k EXCEPT !.pc = "write", !.answer = @ \ {result}])
        /\ UNCHANGED <<config, parsed, manifests, cached, texts, points, extracted, promise, crossed>>

(***************************************************************************)
(* The environment                                                         *)
(***************************************************************************)
\* The processes are started again, perhaps with other parsers enabled.
Restart ==
    /\ Fails
    /\ config' \in left.configs
    /\ task' = [t \in Slots |-> Idle]
    /\ UNCHANGED <<parsed, stores, promise, crossed>>

\* An hour for a manifest, half an hour for a text, a day for a status.
Expire ==
    /\ \/ \E d \in Docs : cached[d] # None /\ cached' = [cached EXCEPT ![d] = None]
                          /\ UNCHANGED <<texts, complete>>
       \/ \E id \in DOMAIN texts : texts' = [i \in DOMAIN texts \ {id} |-> texts[i]]
                                   /\ UNCHANGED <<cached, complete>>
       \/ \E id \in complete : complete' = complete \ {id} /\ UNCHANGED <<cached, texts>>
    /\ UNCHANGED <<config, parsed, manifests, points, extracted, task, promise, crossed, left>>

(***************************************************************************)
(* Specification                                                           *)
(***************************************************************************)
Init ==
    /\ \E s \in Scenarios :
          /\ left = [ops |-> s.ops, requests |-> s.requests, faults |-> s.faults,
                     docs |-> s.docs, configs |-> s.configs]
          /\ config \in s.configs
          /\ parsed \in s.parses
    /\ manifests = [d \in Docs |-> None]
    /\ cached = [d \in Docs |-> None]
    /\ points = <<>>
    /\ texts = <<>>
    /\ complete = {}
    /\ extracted = {}
    /\ task = [t \in Slots |-> Idle]
    /\ promise = [d \in Docs |-> None]
    /\ crossed = FALSE

Step(t) ==
    \/ Begin(t) \/ ScanManifests(t)
    \/ LookUpManifest(t) \/ LoadManifest(t) \/ Backfill(t) \/ ReadChunks(t)
    \/ Parse(t) \/ IndexBatch(t) \/ PutManifest(t) \/ CacheManifest(t)
    \/ DeleteChunks(t) \/ ClearStatus(t) \/ RemoveManifest(t) \/ UncacheManifest(t)
    \/ SkipComplete(t) \/ MarkRunning(t) \/ FetchText(t) \/ AskModel(t) \/ ValidateAnswer(t)
    \/ WriteResult(t) \/ ReportComplete(t)

Next == (\E t \in Slots : Step(t)) \/ Restart \/ Expire

Spec == Init /\ [][Next]_vars

(***************************************************************************)
(* Properties                                                              *)
(***************************************************************************)
IsManifest(m) == m # None => m.ids # {} /\ m.tier \in m.config

\* Every variable has its type, and a loop goes on only while there is something
\* for it to do: chunks to index, statuses to clear, results to write.
TypeOK ==
    /\ \A d \in Docs : IsManifest(manifests[d]) /\ IsManifest(cached[d])
    /\ \A id \in DOMAIN points \cup DOMAIN texts \cup complete : id[1] \in Docs
    /\ \A t \in Slots :
          /\ At(t, "index") => task[t].next \in DOMAIN task[t].chunks
          /\ At(t, "clear") => task[t].got # {}
          /\ At(t, "text") => task[t].ids # {}
          /\ task[t].pc \in {"write", "report"} => task[t].answer # {}
          /\ task[t].attempt \in 1 .. MaxAttempts

\* The chunks an upload is cut into hold all of its text in order, break where the
\* structure does, are as long as they may be, and have different ids.
ChunksAreSound ==
    \A t \in Slots : LET k == task[t]
                    IN  At(t, "index") /\ k.next = 1 => WellChunked(parsed[k.doc][k.tier], k.chunks)

\* After an upload without a loss nobody was told of, every chunk of the manifest is
\* in Qdrant with its text, and Redis has that manifest or none.
Served(d) ==
    /\ manifests[d] # None
    /\ cached[d] \in {None, manifests[d]}
    /\ \A id \in manifests[d].ids :
          id \in DOMAIN points /\ points[id][1] = manifests[d].tier

\* After such a deletion nothing of what the manifest listed is left, but the texts
\* in the cache and the results in the graph.
Gone(d, ids) ==
    /\ manifests[d] = None /\ cached[d] = None
    /\ ids \cap (DOMAIN points \cup complete) = {}

\* The stores agree about every document whose last request was answered with
\* success, whatever failed, crashed, expired or was configured before and after,
\* as long as no two requests for a document have crossed; and a chunk that is
\* complete is in the graph, even if they have.
StoresAgree ==
    /\ \A id \in complete : \E r \in extracted : r[1] = id
    /\ ~ crossed => \A d \in Docs : promise[d] # None =>
          IF promise[d].is = "served" THEN Served(d) ELSE Gone(d, promise[d].ids)

(***************************************************************************)
(* The inductive invariant behind TypeOK and StoresAgree                   *)
(***************************************************************************)
\* The bounds and the inputs are those of one scenario.
OfScenario ==
    \E s \in Scenarios :
        /\ left = [ops |-> s.ops, requests |-> left.requests, faults |-> left.faults,
                   docs |-> s.docs, configs |-> s.configs]
        /\ config \in s.configs
        /\ parsed \in s.parses

\* A manifest of a document lists chunks of that document.
ManifestOf(d, m) == IsManifest(m) /\ (m # None => \A id \in m.ids : id[1] = d)

Stored ==
    /\ DOMAIN manifests = Docs /\ DOMAIN cached = Docs /\ DOMAIN promise = Docs
    /\ \A d \in Docs : ManifestOf(d, manifests[d]) /\ ManifestOf(d, cached[d])
    /\ \A id \in DOMAIN points \cup DOMAIN texts \cup complete : id[1] \in Docs

\* A chunk that is complete is in the graph.
CompleteIsExtracted == \A id \in complete : \E r \in extracted : r[1] = id

Looking == {"scan", "lookup", "load", "backfill"}
Uploading == {"index", "put", "cache"}
Deleting == {"unindex", "clear", "remove", "uncache"}
Extracting == {"pending", "mark", "text", "ask", "validate", "write", "report"}
Pcs == {"idle", "scroll", "parse"} \cup Looking \cup Uploading \cup Deleting \cup Extracting

Shaped(k) ==
    k = [op |-> k.op, pc |-> k.pc, doc |-> k.doc, docs |-> k.docs, found |-> k.found,
         tier |-> k.tier, chunks |-> k.chunks, next |-> k.next, ids |-> k.ids, all |-> k.all,
         got |-> k.got, answer |-> k.answer, attempt |-> k.attempt, clean |-> k.clean]

\* Where a request is fits what it is, and every field has its type.
Typed(k) ==
    /\ Shaped(k)
    /\ k.pc \in Pcs
    /\ k.pc # "idle" => k.op \in Ops /\ k.doc \in Docs
    /\ k.pc = "idle" => k = Idle
    /\ k.pc = "scan" => k.op \in {"list", "extract"}
    /\ k.pc \in {"parse"} \cup Uploading => k.op = "ingest"
    /\ k.pc \in Deleting => k.op = "delete"
    /\ k.pc \in Extracting => k.op = "extract"
    /\ k.docs \subseteq Docs
    /\ \A id \in k.ids \cup k.all : id[1] \in Docs
    /\ k.attempt \in 1 .. MaxAttempts

\* A request holds what the next steps of it use.
Sound(k) ==
    /\ k.pc \in Looking \cup {"pending"} => k.got = {} /\ k.answer = {}
    /\ k.pc \notin Uploading => k.next = 1
    /\ k.pc = "backfill" => k.found # None /\ ManifestOf(k.doc, k.found)
    /\ k.pc \in Uploading =>
          /\ k.tier \in TierSet \cap config
          /\ k.chunks = ChunksOf(k.doc, k.tier) /\ k.chunks # <<>>
          /\ k.next \in Nat \ {0}
    /\ k.pc = "index" => k.next \in DOMAIN k.chunks
    /\ k.pc \in Deleting => k.ids # {} /\ \A id \in k.ids : id[1] = k.doc
    /\ k.pc = "clear" => k.got # {}
    /\ k.pc \in {"mark", "text"} => k.ids # {} /\ k.ids \subseteq k.all
    /\ k.op = "extract" => Ids(k.got \cup k.answer) \subseteq k.all
    /\ k.pc \in {"write", "report"} => k.answer # {}
    /\ k.pc = "report" => (CHOOSE r \in k.answer : TRUE) \in extracted

TypeInv ==
    /\ OfScenario
    /\ Stored
    /\ CompleteIsExtracted
    /\ DOMAIN task = Slots
    /\ \A t \in Slots : Typed(task[t]) /\ Sound(task[t])

\* No two requests that are under way cross.
Apart ==
    \A t, u \in Slots :
        t # u /\ ~ At(t, "idle") /\ ~ At(u, "idle") => ~ Crosses(task[t], task[u])

IsGone(d) == promise[d] # None /\ promise[d].is # "served"

\* What was said of a document is still so, and a chunk belongs to one document.
Kept(d) ==
    /\ promise[d] # None =>
          IF promise[d].is = "served" THEN Served(d) ELSE Gone(d, promise[d].ids)
    /\ IsGone(d) => \A id \in promise[d].ids : id[1] = d

IsIndexed(k, i) == Id(k, i) \in DOMAIN points /\ points[Id(k, i)][1] = k.tier

\* What a request has seen or done is still so: only a request that crosses it
\* could have changed that.
Undisturbed(k) ==
    /\ k.pc = "backfill" => k.found = manifests[k.doc]
    /\ k.pc \in {"put", "cache", "clear", "remove", "uncache"} => promise[k.doc] = None
    /\ k.pc = "index" /\ k.next # 1 => promise[k.doc] = None
    /\ k.pc \in Uploading /\ k.clean =>
          \A i \in DOMAIN k.chunks : i < k.next \/ k.pc # "index" => IsIndexed(k, i)
    /\ k.pc = "cache" => manifests[k.doc] = Manifest(k)
    /\ k.pc = "uncache" => manifests[k.doc] = None
    /\ k.pc \in {"clear", "remove", "uncache"} /\ k.clean =>
          /\ k.ids \cap DOMAIN points = {}
          /\ k.ids \cap complete \subseteq IF k.pc = "clear" THEN k.got ELSE {}
    /\ k.op = "extract" =>
          \A d \in Docs : IsGone(d) => (k.ids \cup k.all) \cap promise[d].ids = {}

AgreeInv ==
    ~ crossed =>
        /\ Apart
        /\ \A d \in Docs : Kept(d)
        /\ \A t \in Slots : Undisturbed(task[t])
=============================================================================
