# Formal model of neo4all

neo4all turns documents into a knowledge graph and then curates that graph under
governance: agents or people *propose* a change, a person *approves* it, and one
component, Agent-C, *executes* it and writes an audit record. The modules here model
that system in TLA+, check it with TLC on small instances and prove the most important
invariants with TLAPS for all instances.

Source paths below are relative to `src/api/` unless they start with `src/`.

## 1. Inventory

The system is a FastAPI process (`main.py`), ARQ worker processes (`worker/`), a
Streamlit client (`src/ui`), and five external services: Redis, S3, Neo4j, Qdrant and
an LLM. A handler is a coroutine: it loses the processor at every `await`, so handlers
interleave between any two calls to a service. No lock or version check protects a
read-modify-write anywhere. Two conventions decide what failures do:

* `CacheClient` swallows every Redis error: a read answers "missing", a write is lost;
* S3 and Neo4j errors raise, and end the handler unless it catches them.

| component | state | operations | what makes it correct |
|---|---|---|---|
| Proposal store (`proposals/`) | packets in S3, cached in Redis; per-run index in Redis; archive prefix in S3 | create, get_for_run, transition, archive_for_run, clear_for_run | the state machine is obeyed; the cache never shows what S3 never held; terminal states are final; the index misses nothing |
| Approval gate (`routers/approvals.py`) | confirmation tokens (1 h) and approval records (no TTL) in Redis | approve, confirm, reject, defer, exclude, restore | a merge or delete needs two phases; an approval is of one proposal; an approved proposal can be executed |
| Agent-C (`agents/execution.py`, `routers/curation.py`) | committed graph steps, audit records in S3 | execute, delete_all_orphans | nothing unapproved reaches the graph; a diff is applied once; the audit tells the truth |
| Excluded ids (`routers/candidates_models.py`) | one list in Redis | add, remove, load | exactly the candidates of excluded proposals |
| Schema (`schema/service.py`) | locked schema and amendments, in Redis only | propose, approve, amend | locked once; amendments only grow; a diff runs only against its own version |
| Candidate detection (`services/curation/`) | none: functions of a graph read | the detectors, enrichment, bands, clusters, scoped detection | no duplicate of a kind is missed; a scoped detection agrees with the full one |
| Candidate lists, query cache, cooldown (`routers/candidates.py`, `graph/reader.py`) | cached query results, lists by schema and stage, cooldown marker, in Redis | generate, explore, invalidate | no list older than the last execution or amendment is served |
| Extraction jobs (`routers/extraction.py`, `worker/jobs.py`) | a status per chunk in Redis, ARQ queue | run, cancel, status, batch job | a chunk shown as complete is in the graph; a chunk in work has somebody working on it; every chunk ends |
| Agent pipeline (`routers/agent_pipeline.py`, `worker/jobs_agents*.py`) | a status per candidate in Redis, ARQ queue | run (archives first), cancel, batching, evidence, retrieval and proposal jobs | a candidate in progress has a job; its outcome has a proposal; no node is in two batches |
| Agents A, B and P (`agents/`) | a retrieval budget per candidate while it is reviewed | recommend, evidence, rounds of retrieval, compose | recommendations fit the detectors; searches are paid for; nothing new found means exhausted |
| Diff builder and graph steps (`diff/`, `agents/execution.py`) | graph in Neo4j | build, the seven step kinds | a merge loses neither entity nor relationship; what is applied is resolved |
| Documents (`routers/documents.py`, `services/ingestion.py`, `services/chunking.py`) | manifests in S3 and Redis, chunk texts in Redis | ingest, delete, list, read | chunks hold all the text; the stores agree; a deleted document is gone |
| Vector index (`vector/`) | one collection per run in Qdrant | ensure, upsert in batches, scroll, delete, search | every chunk of a manifest is in it |
| LLM client (`llm/`) | none | call with attempts, validate | a failure ends the attempt and not the job |
| Credentials (`credentials.py`) | session config in Redis, clients in each process | update, refresh | a process uses the last configuration |
| Monitoring, Streamlit client (`monitoring/`, `src/ui`) | none of the run | | their requests are inputs of the rest |

Interactions. The routers call `ProposalService`, which alone touches packets. The gate
and Agent-C share the approval records and meet nowhere else. A rerun of the agent
pipeline archives the proposals (`routers/agent_pipeline.py:548`); clearing the candidates
clears them (`routers/candidates.py:916`). Exclude and restore edit the excluded ids,
which candidate listings and the agent pipeline read. Agent-C invalidates the candidate
lists and the cached graph queries after an execution; amendments, exclude and restore
invalidate the lists. An upload writes manifests, chunk texts and points; the
extraction reads texts and falls back on the points; a deletion clears the statuses of chunks.

What is hard: every read-check-write spans awaits; each fact lives in two stores that are
written one after the other; Redis failures are invisible to callers; a crash leaves
whatever was written so far (Redis is run with append-only persistence, and Redis alone
holds the index, the approvals and the schema); jobs are retried from their start; a merge is many
transactions. `PROJECT.json` lists the hazards by source line with the properties aimed at them.

## 2. Modules

| module | what it models |
|---|---|
| `ProposalStates` | the states and permitted transitions of `proposals/models.py` |
| `GovernedMutation` | proposal store, gate, excluded ids, schema lock, Agent-C and audit of one run, interleaved await by await |
| `ProposalLifecycle` | abstract specification: what the pipeline promises about a proposal, with no stores, requests or failures |
| `GovernedMutationProofs` | theorems about `GovernedMutation` and their proofs: types, the gate, the stores; its history: audit log, executed proposals, confirmation; requests that lose no call, and the refinement of `ProposalLifecycle` |
| `ExtractionJobs` | `/extraction/run`, `/extraction/cancel`, the batch job and ARQ over the status of each chunk |
| `ExtractionJobsProofs` | theorems about `ExtractionJobs` and their proofs |
| `CandidateGroups` | the union-find over shared elements and the packing of its groups into batches |
| `CandidateGroupsProofs` | theorems about the groups and the batches, for every list, and their proofs |
| `AgentPipeline` | `/agents/run`, `/agents/cancel`, the chain of agent jobs and ARQ over the status of each candidate |
| `AgentPipelineProofs` | theorems about `AgentPipeline` and their proofs |
| `TextSimilarity` | Jaro-Winkler, word overlap and word containment, in thousandths |
| `CurationRules` | the detector of probable duplicates, scores, bands, recommendations, risk and budget |
| `CandidateReview` | a graph read, its candidates with what the pipeline adds, Agent-A's evidence and Agent-B's rounds |
| `CandidateReviewProofs` | theorems about `CandidateReview` and the rules it runs, and their proofs |
| `KnowledgeGraph` | nodes, relationships, and the queries that change them, a transaction each |
| `GraphDetectors` | the detectors that look at the shape of the graph, full and scoped |
| `CurationGraph` | extraction writes, detection, packets, the diff builder and Agent-C's steps on one graph |
| `CurationGraphProofs` | theorems about `CurationGraph` and their proofs |
| `CandidateCache` | query results, candidate lists, cooldown, schema and amendments in Redis over a graph with lagging replicas |
| `CandidateCacheProofs` | theorems about `CandidateCache` and their proofs |
| `Chunking` | the grouping of parsed elements into chunks, and what it promises |
| `DocumentPipeline` | upload, deletion, reading and extraction of documents over S3, Redis and Qdrant |
| `DocumentPipelineProofs` | theorems about `DocumentPipeline` and their proofs |
| `MC...` | the values of the constants and the scenarios for TLC |

Which composes which: `AgentPipeline`, `CandidateReview` and `CurationGraph` use the groups of
`CandidateGroups`; `CandidateReview` runs the rules of `CurationRules`, which stands on `TextSimilarity`;
`CurationGraph` runs `GraphDetectors` over `KnowledgeGraph`; `DocumentPipeline` cuts its documents with
`Chunking`. What one module leaves open another one decides: that an edit is approved (`GovernedMutation`),
what it does to the graph (`CurationGraph`), and what Redis still says afterwards (`CandidateCache`).

### How `GovernedMutation` corresponds to the code

`s3`, `redis`, `index`, `approvals`, `tokens`, `excluded`, `archive`, `schema`, `writes`
(committed diff steps) and `audit` are what the services hold. `challenged`, `issued` and
`durable` are history: they record that a token was stored, an approval id handed out, a
packet held by S3, and no action reads them. `task[t]` is a handler: its program counter
and its local variables.

Each action is the code from one `await` to the next. `get_for_run`, which every handler
calls, is three actions (`GetCached`, `GetStored`, `Backfill`) and a `resume` label; its
callers differ in what they do with the answer. Every action that calls a service has an
alternative in which the call fails: guarded by `Fails`, which counts against `MaxFaults`,
and doing what the code does then. `Crash` forgets every handler and keeps the services.

A packet is its state and its schema version. An approval id and a token are hashes of a
proposal and an operator; the model carries the pair. A proposal's class matters only in
whether it is merge or delete (`HighRisk`). A diff has `NSteps` steps, each a transaction
of its own that commits or fails. Requests name any proposal, any operator and any
credential, also ones that do not exist.

Left out of this module: the content of packets and diffs (`CurationGraph`); the operator named in an
execute request (it is only copied into the audit record); the candidate lists and the
cooldown (`CandidateCache`); the order of the index (a set here, since no property is about it);
the bulk orphan deletion is one request per candidate. `SchemaService.approve` is one step
whose reading half may fail, which is how a locked schema is replaced.

### How `ExtractionJobs` corresponds to the code

`status` is the Redis key of each chunk, `graph` the chunks whose result was merged into Neo4j,
`queue` the jobs waiting in ARQ. `call[h]` is a request being handled and `work[w]` a running job, each
with its program counter and its local variables; the API and the worker are different processes and
crash separately (`ApiCrash`, `WorkerCrash`).

A loop over chunks visits them in any order: chunk ids are hashes, and the manifests that list them
come in no fixed order. `SetStatus` is `CacheClient.set`, whose write may be lost without notice. The text of a chunk, the
answer of the model and the write into Neo4j can each fail; what a failure means is in the action
that meets it. `Interrupt` is the `CancelledError` by which ARQ ends a job at its 300 s timeout or at a shutdown; `Abandoned` and
`ReadForFailure` are the handler of `BaseException` at `worker/jobs.py:556`, after which the job may
be queued again (`Requeued`). ARQ itself is external: it starts a job at most `MaxTries` times, starts
it again when the worker died with it, and then drops it (`GivenUp`).

Left out: the checks before the loop of `/run` (schema locked, manifests readable), which end the
request with nothing changed; the graph's content, so that a write is done or not (`write_node` and `write_edge` are MERGEs, a
second write completes a half one); two more requests that only read; the deletion of statuses by a
document deletion (`DocumentPipeline`). A chunk status is taken to outlive the work on it: only a
resolved one expires. `extraction_job` is registered with the worker but nothing enqueues it.

### How `AgentPipeline` corresponds to the code

`status` is `agent_job:*` of each candidate, `jobs` the ARQ jobs, waiting and running, each with its program counter, its list of
candidates and its results; `call` and `cancel` are the two handlers. An evidence job assembles evidence,
and hands those candidates with enough of it to a batch proposal job and each other one to a retrieval job of its own,
which ends in a proposal job (`jobs_agents.py`); when Agent-B is off, all go to the batch proposal job. Each action is the
code up to the next `await`: mark, ask the agent, report, enqueue. A job holds a set of candidates, and a loop takes those
it has left (`todo`) in any order: no property is about the order, and the code's is one of them. The status writes may be lost, an
enqueue or an agent may fail, the worker or the API may stop, and a job may time out
(`JobTimesOut`: the jobs catch `Exception`, which `CancelledError` is not). ARQ is as in `ExtractionJobs`.

The proposal store is one step per call here, since `GovernedMutation` has its awaits; `Review` stands for
the requests that end a proposal in between. `composed` is history: the proposals Agent-P handed
to a job. `Classes` are the classes Agent-P answers. Left out: the status endpoint and the metrics, which only read;
`evidence_assembly_job`, which is registered and enqueued by no code.

### How `TextSimilarity`, `CurationRules` and `CandidateReview` correspond to the code

A name is a sequence of numbers with `Blank` between words, normalised already. Scores are in
thousandths, rounded down, which compares with the thresholds of the code as the exact fraction does. `Generate` is what happens to a graph between the reader and the cache: detect,
enrich, score, band and cluster. The candidates of the other detectors are `Others`, as only their type and
method matter to what follows. `review` is one run of Agent-A on a candidate and of Agent-B's
loop: which chunks are attached and what the model makes of each is a choice. `attached` is the history of what Agent-A had.

### How `KnowledgeGraph`, `GraphDetectors` and `CurationGraph` correspond to the code

The graph is a set of node keys and of relationships; a dedupe key is unique among nodes because
every write MERGEs on it, so the detector of exact node duplicates has nothing to find and is not modelled. Copies
of a relationship are kept apart, since the initial graph may hold some. Each transaction of Agent-C is an
action: reading what an obsolete node has, repointing one relationship after the other, dropping the node. A failure gives the
attempt up with what was committed; the packet may be begun again. The builder's steps are `Steps`;
targets of a packet are keys in the order the code sorts them, and where the key of a relationship sorts
among keys of nodes is a choice, because it depends on the names. `into`, `known`, `seen` and `deleted` are history: what a
merged node is part of now, and what was written and not deleted on purpose, between what its ends were merged into: both change
in one step when the obsolete node is dropped, as if the merge were that one step. Every packet is approved here, and no job writes while
Agent-C works: there is no lock, and a relationship that an extraction adds to an obsolete node between its
transactions is deleted with it.

### How `CandidateCache` corresponds to the code

Graph and lists are version numbers: what matters is which change of the graph a cached thing saw. A query is
answered by the leader or any replica, so by any version between `replica` and `graph`; replicas lag for less
than the cooldown, which is what the cooldown is for. `reads` are the cached query results, `lists` the candidates by
schema and stage with the versions and the amendments they were computed from, `affected` what Agent-C finds
after a merge. `Plan` gives what each request invalidates and in which order. `crossed` is history: a request has met one that
nothing in the code keeps it apart from, or a Redis call was lost. The bulk deletion of orphans takes its
candidates from the cached lists of all stages; its one execution stands for those of all of them.

### How `Chunking` and `DocumentPipeline` correspond to the code

An element has a type, a page and a size; a chunk is the positions of its elements. `ChunkDocument` is the
loop of `chunk_document` with its look-ahead for the caption of an image written as a state of the
fold. A document is its bytes and `parsed` what each parser makes of them, the parsers being tried in the order of `Tiers` among
those enabled; each may fail, and one that finds nothing is followed by the next. The text of a chunk is its parser
and its elements. `promise` is history: what the last answer said about a document; it is withdrawn
when something was lost of which nobody was told. Of the statuses only `complete` is kept and one
request stands for run and job, since `ExtractionJobs` has the others; the attempts of the language model
client are here. A restart may enable other parsers, which is when a document is parsed again.

## 3. Runs

Bounds. Each instance has one or two of each thing; requests, faults, runs and detections are bounded,
so the systems stop and deadlock is not checked. Where one bound for everything would be out of reach the MC module has
*scenarios*: `Init` chooses one, each a combination of request kinds, faults and initial values.

| run | instance | shows |
|---|---|---|
| `serial` | 1 slot, 2 proposals, 7 requests, no fault | `CacheAgreesAtRest`, `IndexCompleteAtRest`, `ExcludedIsFiltered`, `AppliedOnce`, and `ImplementsLifecycle`: the refinement of `ProposalLifecycle` |
| `gate` | 2 slots, 2 high-risk proposals, 4 requests, 1 fault or crash | `TwoPhase`, `AuditTruthful`, `ExecutedMeansApplied` |
| `storm` | 2 slots, every request kind but defer, 3 requests, 1 fault or crash | `TypeOK`, `MutationAuthorised`, `CacheNeverAhead` |
| `faultless` | 2 slots, 4 requests, no fault | `EveryWriteAccounted`, `ApprovedIsExecutable`, also for a proposal whose approval id was handed out |
| `extraction` | 2 chunks in one batch, 2 requests at once, 2 attempts, 1 fault of the sources, the graph, the job or the worker | `UnresolvedHasJob`, `EveryChunkResolves` |
| `extraction_faults` | 2 chunks in batches of one, 2 requests and 2 jobs at once, 1 attempt, 1 fault of any kind but an interrupted job (that one is in `extraction`; both properties are proved for all of them) | `TypeOK`, `CompleteMeansWritten` |
| `agents` | 3 candidates that share nodes, batches of one, 2 jobs at once, 2 attempts; eight scenarios of runs, cancel, review and each kind of fault (a worker that stops with more than one candidate only without Agent-B) | `TypeOK`, `WorkedOnHasJob`, `OutcomeHasProposal`, `NodeSafe`, `EveryCandidateEnds` |
| `rules` | every graph of 3 nodes over 7 names, 2 types, 4 property sets and 2 neighbourhoods; 2 chunks, 3 rounds | `TypeOK`, `ContainmentFound`, `RecommendationFits`, `HighBandIsCoherent`, `BatchesAreComponents`, `SearchesArePaid`, `ExhaustedMeansNothingNew` |
| `graph` | 4 nodes, 2 relationship types, 12 scenarios: chains, crossings, backward and misfit relationships, a job that writes, one failure | `TypeOK`, `EntitiesKept`, `ConnectionsKept`, `ResolvedWhenApplied`, `ScopedExact` |
| `candidates` | 2 handlers, 2 queries, 2 schemas, 2 stages, up to 4 requests; five scenarios | `TypeOK`, `ListsAreCurrent`, `RegistryGrows` |
| `documents` | every sequence of up to 4 elements of 12 kinds is chunked; 2 requests at once over 1 or 2 documents, up to 4 requests and 3 faults | `TypeOK`, `ChunksAreSound`, `StoresAgree` |

Why these bounds. The longest life of a high-risk proposal is create, approve, confirm,
execute: seven serial requests allow it with an exclusion and a restore before it or an
archive and a second creation after it. Two slots are enough for every race between two
handlers, and one fault to leave any pair of stores written by halves. For the extraction two
requests give a run with a second run
or a cancel across it, two chunks the loops and a batch that resolves by halves, and batches of one a
request that fails between two jobs. Three candidates in a ring (each shares a node with each of the others, one is
suppressed) give a batch larger than its limit, a cluster, and a candidate of a cluster routed apart.
Three nodes with a window of two are the least in which a duplicate lies outside the window.
Four nodes give a merge with three targets and a bystander, and a pair of edges that
becomes parallel, opposite, or a loop when its ends are merged. Of queries two are the least that can be of
different age. Four elements allow a table, image or heading between two texts, and the limits (9 characters, 2 tokens of
4) are crossed by two of them and by one.

Fairness. `GovernedMutation`, `CandidateCache`, `CurationGraph`, `CandidateReview` and `DocumentPipeline` state none: their
properties are safety properties, and a handler
may stop for ever. `EveryChunkResolves` is checked under `FairSpec`: weak fairness of each handler
and of each job of the worker, because an asyncio loop resumes every coroutine whose call has
returned and ARQ polls its queue. The calls are assumed to return or raise: the LLM client and
the Neo4j driver have timeouts and ARQ ends a job after 300 s, while the Redis client sets none. Requests, faults and the expiry of keys
are not fair. It needs fewer faults than attempts and an API process that does not die,
which `Faults` and `MaxTries` of the run say. `EveryCandidateEnds` is checked with weak fairness of the steps of the jobs, of which there are finitely many and which
do not start one another over; it is promised under `FaultsHandled`, the faults the jobs are written for.

The operators that name a wrong variant of another (`AnyTransition`, `PutFailureIgnored`,
`AnyToken`, `NotQueued`, ...) are not used by the specification: each is the definition as a plausible
bug would have it, and `PROJECT.json` names the property that notices.

### What the code does not keep

`mixed_cluster` expects a violation. The merge of a cluster is meant to have "ALL unique node refs" as its targets
(`worker/jobs_agents_batch.py:216`), but every ref counts, that of a relationship too, and the key that
sorts first survives (line 316): a duplicate that shares a node with a relationship of the wrong type becomes a merge
whose target, perhaps whose survivor, is a relationship (`ClusterIsOfNodes`). `EntitiesKept` and `ConnectionsKept` therefore suppose `Orderly`.

Several properties hold only for requests that do not cross or when no call fails, because nothing in the
code prevents it; the runs above say which. What is lost otherwise, though no run shows it:

* Proposals. Two approvals or reviews that cross overwrite a terminal state (`proposals/models.py:81`: "No further
  transitions permitted"), and leave the loser in the cache. An archive deletes a proposal executed since it was read
  (`proposals/service.py:409`: "retained"), and keeps the id of an excluded one excluded. A second
  operator gets an approval id without a record (`routers/approvals.py:261`), which executes nothing.
  A candidate of two proposals is listed again when one of them is restored (`routers/approvals.py:807`).
* Execution. An error after the last step leaves no audit record (`agents/execution.py:218`). The steps before a failed one stay.
  Under `DRY_RUN` a proposal becomes executed with nothing applied. The bulk deletion of orphans asks for no
  confirmation (`routers/curation.py:560`), so `TwoPhase` is about runs without it.
* Extraction. A cancel overwrites a chunk that completed since it was read (`routers/extraction.py:432`: "left
  untouched"). An API process that dies between marking a chunk and enqueueing its job leaves it queued; a
  job dropped by ARQ leaves its chunks running.
* Agents. With Agent-B on, a cluster is split between the candidates with enough evidence and the others, and two
  proposals share a node, which line 60 of `routers/agent_pipeline.py` rules out: `NodeSafe` is for runs without Agent-B. A job that times out leaves its
  candidates in progress, though `agents/orchestrator.py:42` says that it resolves them.
* Lists. An extraction invalidates nothing, so a list shows the graph before it, for a day: `cache/config.py:37`
  speaks of five minutes. A read that is in flight when an execution invalidates is cached after it.
  Two amendments, or two approvals of a schema, that cross lose one of them (`schema/service.py:165`).
* Graph. A relationship normalised by a delete and a create is missing until a failed attempt is repeated; what a job writes between
  the transactions of a merge may go with the obsolete node. The detection after a merge is not given the schema amendments
  (`agents/execution.py:747`), unlike the one of the router (`routers/candidates.py:829`), so it reports relationships that an amendment allows:
  `ScopedExact` is for a schema without them.
* Documents. A batch that could not be indexed is swallowed, and the next upload of the document is a hit
  (`routers/documents.py:246`). After another parser cut a document, the same chunk id has another text: the cached one is
  used for half an hour (`cache/config.py:32`), and a chunk that is complete is not extracted again.
  Requests for one document that cross bring back manifests, points or cached texts of it.

## 4. Proofs

`GovernedMutationProofs` proves, for every value of the constants allowed by
`ConstantsAssumption`, the theorems `Invariance`, `TypeCorrectness`, `Authorisation`
(`MutationAuthorised`) and `CacheFollowsStore` (`CacheNeverAhead`).

`MutationAuthorised` is not inductive: a step commits long after the approval was read. The
invariant `IInv` at the end of `GovernedMutation` adds what each handler knows where it is:

* `TaskShape`: which request kinds can be at which await, and which of their locals are set;
* `TaskGate`: past `CheckApproval` the handler holds a credential of its own proposal whose record
  is still there (records are never removed, only replaced by one of the same key), and the
  low-risk route of approve is never taken by a high-risk proposal;
* `GateInv`: every approval record of a high-risk proposal is a confirmed one, so the record found
  is enough, whichever it is;
* `TaskStore`, `StoreInv`: a packet a handler is about to write into Redis or copy into the
  archive, and every packet in S3, is one that S3 held under that key.

The proof has one lemma per action. Framing lemmas come first: a step that changes one slot and
only adds to the approvals and to the history keeps the invariant of every other slot (`OtherSlots`,
`SlotMoves`); a step that changes only a slot, only the store or only the gate then has to show its new local
state (`QuietMove`, `StoreMove`, `GateMove`, `FinishMove`).

The second part of the module builds on `Invariance` and proves what the history says: `AuditIsTruthful`
(`AuditTruthful`), `ExecutedIsApplied` (`ExecutedMeansApplied`) and `PhaseOneFirst` (`TwoPhase`). Its invariant
says that the attempts of two slots have different ids; that the steps committed under the id of a running attempt are
those its place in `Execute` implies, no more; that the record of an attempt is written after its last step and before the
proposal is marked executed; and that a copy of an executed packet was in S3 first, so a late copy cannot make a proposal
executed that was not. Two of the theorems have a hypothesis. `ExecutedIsApplied` is about
`~ DryRun`: with `DRY_RUN` the code marks a proposal executed and commits nothing, as it should. `PhaseOneFirst` is
about requests that do not include the bulk deletion of orphans: that one stores an approval and a confirmation
by itself, without a challenge, and the run `gate` has no such request either.

The third part proves what the runs `faultless` and `serial` check. First, for requests that cross as they like but
lose no call (`MaxFaults = 0`, so no crash either): `WritesAccounted` (`EveryWriteAccounted`) and `ApprovedHasRecord` (`ApprovedIsExecutable`). For
the first `AccountInv` adds that an attempt which marks its proposal executed has its own record in the log. For the second
`BackedInv` says of every packet S3 ever held as approved, not only of the present one, that its proposal has an approval record or a handler
past the PUT and before the record: the cache and a slow reader may show an approved packet long after, and it is what they show that gets
an approval id handed out. One failed write between the two is enough to break either, as section 3 tells.

Then, for any number of proposals, diff steps and requests that come one after the other, what `serial` checks:
`CacheAgrees` (`CacheAgreesAtRest`), `IndexComplete` (`IndexCompleteAtRest`), `ExclusionFilters` (`ExcludedIsFiltered`),
`AppliedByOne` (`AppliedOnce`) and `LifecycleImplemented` (`ImplementsLifecycle`). All are false in general, as section 3 tells: the
stores are written one after another with no lock. So they assume `Serial`: one slot, no fault, and no request that clears the run, for a clear
deletes executed proposals too, and a proposal created again under the same id could be executed again. `SerialInv` says, place by place,
by how much the stores may differ while a handler is under way: what it has read is still what S3 holds (`Knows`); the cache may
lag only for the proposal between its PUT and its cache write, or between DELETE and eviction (`CacheSerial`); the index lacks at most the
proposal being created, and an archive has yet to visit, or has kept, whatever S3 holds (`IndexSerial`); a candidate is missing from the excluded ids
only while its own exclusion is under way (`ExcludedSerial`); and every committed step is of an executed proposal, or of the
approved one whose attempt is running (`AppliedSerial`). `ExclusionFilters` also assumes `OneEach`: of two
excluded proposals about one candidate, restoring either takes the candidate out of the list. The refinement then takes four lemmas, one for
each action that writes S3 or the graph: a create, a transition (a review, or the mark of execution, for which the audit record proves that the
diff was applied), the delete of an archive, and an applied step, which is `Apply` if it is the first of its diff and a stutter if not.
It assumes `~ DryRun`, since a dry run marks as executed what it never applied. (TLC finds `SerialInv` true of the instance of
`serial`, `AccountInv` and `BackedInv` of that of `faultless`, when they are added to the invariants.)

`ExtractionJobsProofs` proves `Invariance`, `TypeCorrectness` and `CompleteIsWritten`
(`CompleteMeansWritten`) of `ExtractionJobs`. Here `IInv` adds `JobKnows`: a job under way has its ARQ job in hand, and a job about to report a
chunk complete has merged it; without it nothing would tie the report to the write one await
earlier. `CallKnows` keeps the chunk of a request typed. Each action gives a sound next
local state (`SoundCall`, `SoundWork`), from which four framing lemmas conclude.
`UnresolvedIsOwned` (`UnresolvedHasJob`) needs a second invariant, `OwedInv`: each unresolved chunk is in a job that waits, in a
request that will enqueue it, or among those a running job still owes a status, which depends on where in its loops the job is and on
whether an error or a cancellation will hand it back to the queue. It is proved under `JobsSurvive`, which says what the property
needs: no status write is lost, the API process does not die between marking and enqueuing, and there are fewer faults than
a job has tries. Without each of them the chunk is orphaned, as section 3 tells.

`AgentPipelineProofs` is about any finite set of candidates, any refs, batch size, concurrent jobs, attempts and faults, those the jobs do not
handle included. It proves of `AgentPipeline`

* `OutcomesAreBacked` (`OutcomeHasProposal`). The status of a candidate is written one await
  after another from what a job holds; `JobKnows` says that each answer a job holds is that of a proposal which was composed, and
  `composed` only grows. A job enters only with sound contents, whichever action put it there (`JobsMove`);
  a stage is written only when it is earned (`StatusMove`).
* `TypeCorrect` (`TypeOK`) and `NobodyIsForgotten` (`WorkedOnHasJob`). A job leaves the queue when its tries are used up, so the second needs
  to know what they were used for: `StartsAccounted`, each start of a job but the running one has cost a fault. The part of the property
  about a job that is under way is its own loop invariant: a candidate that still shows progress is one it owes an end to, and the
  hand-over to the next job must come before it goes. `WorkInv` is the two with the types (`TypeInv`).
* `NoNodeInTwoProposals` (`NodeSafe`). `PlanInv` says that there was a plan for each request, the switch of Agent-B and
  the candidates selected, though its handler is long gone: without Agent-B each job of the request holds one of the batches of that selection and each of its
  proposals is about a cluster of one of those batches, while jobs of other requests come and go. Two clusters of one batch, or of two batches, then
  share no node, by the theorems about groups.

TLC finds `WorkInv` and `PlanInv` true of the instance of `agents`, when they are added to its invariants.

`CandidateGroupsProofs` proves for every finite list of finite sets that two groups of the union-find share no ref (`GroupsApart`), that a group lies
within every set of positions which it meets and which shares no ref with the rest (`GroupsTied`), and that the
batches are disjoint sets of whole groups which hold each position once, one that exceeds the limit being a single group (`BatchesArePieces`). `RootIn` is a recursive function and `Parents` and
`BatchesOf` are folds: each is a `CHOOSE` of a function that satisfies its equation. That there is one is proved without the library's
induction theorems: the least relation closed under the equation is a function, or there would be a least argument for which it is not, and `<` on `Nat` is well-founded
(`LeastNatural`, `LeastSubset`, `RecursionDefined`, `FoldDefined`). What the folds keep is shown by a least counterexample in the same way:
the parents form a forest in which a link never leaves the component, and two positions with a common ref have one root from the step on that unites them (`UnionJoins`,
`UniteJoins`, `ParentsJoin`).

`CandidateReviewProofs` is about any graphs of finitely many nodes, with any texts as values, any types, properties and neighbours (`GraphsAssumption`), and
any window, cluster limit, budget and answers. It proves of `CandidateReview`

* `ContainmentIsFound` (`ContainmentFound`), `RecommendationsFit` (`RecommendationFits`) and `HighBandCoherent` (`HighBandIsCoherent`). Their invariant,
  `FoundInv`, only says that what was found is what detection and enrichment make of the graph; the proofs are about those. Jaro-Winkler stays
  within one because characters are matched one to one (`MatchedIsMatching`, a recursion over the text) and the prefix adds a part of what is missing to one
  (`JaroNumbers`); with it the detector's gate keeps every candidate above the last branch of the recommendation, of which each branch is compared
  with those a pair that is more alike can come to (`RecommendationMonotone`). The clusters of the pipeline are `Component`: the walk is whole after as many
  rounds as there are pairs, since each round that is not yet whole touches one more (`ReachEnds`).
* `BatchesAreWholeClusters` (`BatchesAreComponents`): the union-find over positions and the walk over nodes make the same partition
  (`GroupsAreClusters`), as a component is the least set that no pair leaves (`ComponentIs`) and a group the least that shares no ref with the rest (`GroupsTied`).
* `TypeCorrect` (`TypeOK`) and `SearchesPaid` (`SearchesArePaid`). The number of searches is not held against the budget anywhere in the code; `RoundsInv` says that the budget
  left is what the rounds so far have not cost, so a search that begins with some budget left is paid. `ExhaustedIsTruthful` is the action property `ExhaustedMeansNothingNew`.

TLC finds `FoundInv` and `RoundsInv` true of the instance of `rules`, when they are added to its invariants.

`CandidateCacheProofs` proves `Invariance`, `TypeCorrect`, `ListsStayCurrent` (`ListsAreCurrent`) and the action property
`RegistryOnlyGrows` (`RegistryGrows`) of `CandidateCache`, for any number of handlers, queries, stages, schemas and requests. A list is
computed over many awaits from query results that others cached earlier, so `ListsAreCurrent` rests on an invariant of
everybody else. `Uncrossed`, while nothing has crossed and no call was lost, says

* `Apart`: no two handlers are under way that nothing keeps apart, so who invalidates is alone with those it would disturb;
* `CachesCurrent`: not the lists only, but each cached query result saw the last execution, each list every amendment,
  and a replica may lag behind the last execution only under the cooldown, which is set no earlier than the change it is for;
* `ReadsCurrent`: past the cooldown a reader meets replicas that know the last execution, and what it has in hand does too;
* `Emptied`: what an execution has invalidated is still empty when it sets the cooldown and so makes itself the last one;
* `RegistryKnown`: the schema and the amendments a handler has read are still those that are there.

There is one lemma per action; `Stable` lists what the step of one handler may tell another, and `StaysInformed` and `Move` conclude from
it that the others keep what they know. The types (`TypeInv`) are proved without the proviso, after any fault or crossing.

`DocumentPipelineProofs` proves `DocumentsSound`, `TypeCorrect` and `StoresAlwaysAgree` (`StoresAgree`) of `DocumentPipeline`, for any number
of requests at a time, documents, parsers, faults, restarts and attempts, and any size of batch. `TypeInv` says what a request holds at each
of its awaits, whether or not requests cross: the keys under a document are its own, a loop has something left to do, and a result about to be reported is in the
graph, which is the first half of `StoresAgree`. The second half is about what was answered long ago, and rests on `AgreeInv`, which holds
while nothing has crossed:

* `Apart`: an upload or a deletion is alone with its document, and no listing or extraction is under way beside it;
* `Kept`: what the last answer said of a document is so, and the chunks it speaks of are that document's;
* `Undisturbed`: an upload finds every chunk before its next batch in Qdrant unless it noticed a loss (`clean`); nothing is promised of
  a document past the first change to it; a manifest about to be cached is the one in S3; a deletion has cleared what it
  has passed; and an extraction holds no chunk of a document that is gone, or it could complete one after its deletion.

`QuietAgrees` is the frame of the steps that change no manifest, chunk or promise, `ChangeAgrees` that of an upload or deletion, whose steps are about its own document.
(TLC finds `TypeInv` and `AgreeInv` true of the instance of `documents`, when they are added to its invariants.)

The same module proves `DocumentsWellChunked`: for every sequence of elements, whatever their types, pages and lengths and whatever the
limits, `Grouped` is `WellChunked`; `ChunksAlwaysSound` (`ChunksAreSound`) is that of the chunks of an upload. What is assumed of a parse is its
type (`ParsesAssumption`). `StepsTaken` and `StepByStep` turn the fold into a sequence of accumulators, with the lemmas of `CandidateGroupsProofs`, and `ElementKeeps` shows that
each element keeps `AccInv`, the invariant of the loop: every wanted text so far is in a chunk, in the group or in the image that waits for its caption,
all that is in the chunks comes before what is pending, and

* the pending group may itself become a chunk at any time (`Belongs`: it breaks where it must and keeps the limits);
* the last chunk could not have taken the first element of the pending group (`Ready`), and while nothing is pending it can take nothing that
  still comes (`Shut`), since it was flushed at a table, an image or a heading. Without this `Greedy` is not inductive: it speaks of a next chunk that does not exist yet.

`CurationGraphProofs` proves `GraphInvariance`, `TypeCorrect`, `MergeInvariance`, `EntitiesAlwaysKept` (`EntitiesKept`) and
`ConnectionsAlwaysKept` (`ConnectionsKept`) of `CurationGraph`, for any finite set of nodes and of relationship types, any schema, initial graph and
job, and any number of detections, packets and failures. `TypeInv` follows what a detection finds through the packet to the diff: a candidate
is made of elements of the graph (`DetectSights`, one lemma per detector), a packet of elements of its candidates (`PacketIsTyped`), a step of
elements of its packet (`StepsAreTyped`), so what Agent-C has in hand is typed between any two of its transactions. `NodeRefsOfSet` says that
sorting a set of nodes gives each of them once; it rests on a pigeonhole argument over the ranks, `RanksAreTaken`, as the cardinality theorems
of the library cannot be used for an induction here. Of the graph, every query leaves each relationship its ends (`NodeMerged`, `RelMerged`,
`NodeDetached`, `RelDeleted`).

Neither property of a merge is inductive: it is seen at the last transaction of an obsolete node, and depends on what earlier
packets, and failed attempts of this one, have done to the survivor. `MergeInv` adds

* `StillThere`: what was found is in the graph, or a packet of the same detection that has begun may have taken it away; the first key
  of a packet is in the graph, or *another* such packet may have. Two packets of a detection share no target if they are `Orderly`, so a merge finds its survivor there,
  however often it is repeated (`SurvivorIsThere`), and a repointed relationship has both its ends;
* `Repointed`: while a node is collapsed, each of its relationships but those with the survivor is in the rows still to be repointed or is in the graph at the
  survivor. When the rows are empty the node can go (`NothingLost`), with its loops and the relationships between the two;
* `NewIsItself`: a node that was never seen has gone into nothing.

`QuietStep` is the frame of the steps that take nothing out of the graph. (TLC finds `MergeInv` true of the instance of `graph`, when it is added to its
invariants.) How candidates are clustered does not matter to these.

`ScopedIsExact` (`ScopedExact`) says that the detection after a merge may confine itself to the keys collected on the way. `NeighbourhoodInv` is its inductive
invariant. `AroundMerge`, about the graph of now and the one before, says that relationships have come only to the survivor, and that of each one that has
gone whatever end is left is in the neighbourhood; for that, the ends of what goes with the node being collapsed must have been read. The rest is about the
detectors alone: a candidate of the new graph which was none of the old has an end in the neighbourhood (`NewDuplicates`, `NewMisfits`, `NewOrphans`), and a detector
confined to what touches the neighbourhood finds it (`DuplicatesAround`, `ProbableAround`, `MisfitsAround`), among them the pass for
both directions, which leaves out the keys of the pass before. The theorem assumes `Amended \subseteq Schema`, as section 3 tells. (TLC finds `AroundInv` true
of the instance of `graph`, when it is added to its invariants.)

`AppliedIsResolved` (`ResolvedWhenApplied`) follows a candidate from its detection through cluster, packet and diff to the verification of the last step.
`RemedyInv` says of each packet that its steps take away an element of every candidate it is to put right; what Agent-C verifies then means
that these are gone (`MergeVerified`, `DeleteVerified`, `NormalizeVerified`), and a detection finds only what is there (`DetectPresent`). A merge of nodes takes away all
but the first key, so of two nodes always one (`BehindTheFirst`, by the pigeonhole principle again); two opposite relationships make a packet of their own, or their keys would be taken for those of
nodes: a cluster of duplicates with such a pair has nothing else (`OppositesAlone`, from `GroupsApart` and `GroupsTied` of `CandidateGroupsProofs`). That a probable
duplicate is of two nodes is part of `GraphAssumption`. (TLC finds `RemedyInv` true of the instance of `graph` too.)

All the invariants and action properties that a passing run checks are thus proved. The liveness of the extraction and of the agents
(`EveryChunkResolves`, `EveryCandidateEnds`) stays with TLC: liveness under fairness and `ENABLED` are outside what the installed provers do. So are
recursive operators, and the induction theorems of the library, which take an operator as their parameter; a property of a recursive function
or of a fold is within reach by a least counterexample.

## 5. Plan

Done: all the modules above, and the theorems of `GovernedMutation`, `ExtractionJobs`, `AgentPipeline`, `CandidateGroups`, `CandidateReview`, `CandidateCache`, `DocumentPipeline` with `Chunking`, and `CurationGraph`. Left is what is not modelled.

### Not modelled

* Proposing and validating a schema: a call to the model and checks, which keep no state until the approval that is modelled.
* Two attempts that write one audit record: the HEAD and the PUT of an append are one step, since the key hashes a timestamp of
  microseconds (`audit/models.py:156`) and nothing appends a record again.
* `extraction_job` and `evidence_assembly_job`: registered with the worker and enqueued by no code.
* The search of the vector index, reranking and embeddings: their result is a choice of chunks in `CandidateReview`.
* What parsers make of bytes, the storage of the raw bytes, and quality flags: a parse is an input of `DocumentPipeline`.
* Prompts, token counting and telemetry: what a model answers is a choice among what the code accepts.
* Pagination, filters and orderings of what is listed.
* Credentials and session configuration: they decide which external services are called, and no modelled state depends on it.
* Monitoring, logging and the user interface: they decide nothing; the requests of the interface are inputs of the models.
