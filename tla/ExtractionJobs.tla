--------------------------- MODULE ExtractionJobs ---------------------------
(* Extraction of one run: POST /extraction/run and /cancel in the API        *)
(* process, batch_extraction_job in the ARQ worker, and the status of each   *)
(* chunk in Redis, which all of them overwrite without a look at what is     *)
(* there.                                                                    *)
(*                                                                           *)
(* A handler or a job is a coroutine with one action per await.  The order   *)
(* in which a loop visits its chunks is left open: chunk ids are hashes.     *)
(* ARQ is external: an enqueued job is run by the worker, once more if the   *)
(* worker dies with it, at most MaxTries times.                              *)
EXTENDS Naturals, FiniteSets

CONSTANTS
    Chunks,         \* chunk ids listed by the manifests of the run
    Calls,          \* requests the API process handles at the same time
    Workers,        \* jobs the worker runs at the same time (max_jobs)
    BatchSize,      \* EXTRACTION_BATCH_SIZE
    MaxTries,       \* how often ARQ starts a job
    Ops,            \* requests clients send
    Faults,         \* kinds of faults that occur
    MaxRequests,    \* bound: requests sent
    MaxFaults,      \* bound: faults
    None            \* a missing value

Statuses == {"queued", "running", "complete", "failed", "cancelled"}

ASSUME ConstantsAssumption ==
    /\ IsFiniteSet(Chunks)
    /\ BatchSize \in Nat \ {0}
    /\ MaxTries \in Nat \ {0}
    /\ Ops \subseteq {"run", "cancel"}
    /\ Faults \subseteq {"redis", "api", "source", "graph", "interrupt", "worker"}
    /\ MaxRequests \in Nat
    /\ MaxFaults \in Nat
    /\ None \notin Statuses

VARIABLES
    status,     \* ChunkJobStatus of each chunk; None: no such key
    graph,      \* chunks whose result was merged into Neo4j
    queue,      \* jobs waiting in ARQ
    call,       \* what each API handler is doing
    work,       \* what each running job is doing
    started,    \* requests sent so far
    enqueued,   \* jobs enqueued so far
    faults      \* faults so far

vars == <<status, graph, queue, call, work, started, enqueued, faults>>

Unresolved == {"queued", "running"}

Works == faults' = faults
Fails(kind) == kind \in Faults /\ faults < MaxFaults /\ faults' = faults + 1

\* CacheClient.set: the write arrives, or is lost and nobody is told.
SetStatus(c, s) ==
    \/ Works /\ status' = [status EXCEPT ![c] = s]
    \/ Fails("redis") /\ status' = status

(***************************************************************************)
(* API handlers.                                                           *)
(***************************************************************************)
NoCall == [pc |-> "idle", todo |-> {}, pending |-> {}, chunk |-> None]

CallBecomes(h, k) == call' = [call EXCEPT ![h] = k]
EndCall(h) == CallBecomes(h, NoCall)

\* The handler is done with chunk c of its loop.
SkipCall(h, c) ==
    CallBecomes(h, [call[h] EXCEPT !.todo = call[h].todo \ {c}])

\* POST /run walks every chunk of the manifests.
StartRun(h) ==
    /\ "run" \in Ops
    /\ call[h].pc = "idle"
    /\ started < MaxRequests
    /\ started' = started + 1
    /\ CallBecomes(h, [NoCall EXCEPT !.pc = "scan", !.todo = Chunks])
    /\ UNCHANGED <<status, graph, queue, work, enqueued, faults>>

ToQueue(h, c) ==
    CallBecomes(h, [call[h] EXCEPT !.pc = "markQueued", !.chunk = c])

\* A chunk that is complete is skipped; one whose status cannot be read is not.
ScanChunk(h, c) ==
    /\ call[h].pc = "scan"
    /\ c \in call[h].todo
    /\ \/ Works /\ status[c] = "complete" /\ SkipCall(h, c)
       \/ Works /\ status[c] # "complete" /\ ToQueue(h, c)
       \/ Fails("redis") /\ ToQueue(h, c)
    /\ UNCHANGED <<status, graph, queue, work, started, enqueued>>

MarkQueued(h) ==
    /\ call[h].pc = "markQueued"
    /\ SetStatus(call[h].chunk, "queued")
    /\ CallBecomes(h, [call[h] EXCEPT !.pc = "scan", !.chunk = None,
                          !.todo = call[h].todo \ {call[h].chunk},
                          !.pending = call[h].pending \cup {call[h].chunk}])
    /\ UNCHANGED <<graph, queue, work, started, enqueued>>

\* The batches a list of pending chunks may start with.
Batches(pending) ==
    {b \in SUBSET pending :
        Cardinality(b) = IF Cardinality(pending) < BatchSize
                         THEN Cardinality(pending) ELSE BatchSize}

NewJob(batch) == [id |-> enqueued + 1, chunks |-> batch, tries |-> 0]

\* Enqueue the next batch.  ARQ's own Redis call raises when it fails, and the
\* chunks that are left stay marked.
EnqueueBatch(h) ==
    /\ call[h].pc = "scan"
    /\ call[h].todo = {}
    /\ call[h].pending # {}
    /\ \/ /\ Works
          /\ \E batch \in Batches(call[h].pending) :
                /\ queue' = queue \cup {NewJob(batch)}
                /\ CallBecomes(h, [call[h] EXCEPT !.pending = call[h].pending \ batch])
          /\ enqueued' = enqueued + 1
       \/ /\ Fails("api")
          /\ EndCall(h)
          /\ UNCHANGED <<queue, enqueued>>
    /\ UNCHANGED <<status, graph, work, started>>

FinishRun(h) ==
    /\ call[h].pc = "scan"
    /\ call[h].todo = {} /\ call[h].pending = {}
    /\ EndCall(h)
    /\ UNCHANGED <<status, graph, queue, work, started, enqueued, faults>>

\* POST /cancel walks the chunks that have a status when it scans the keys; a
\* scan that fails finds none.
StartCancel(h) ==
    /\ "cancel" \in Ops
    /\ call[h].pc = "idle"
    /\ started < MaxRequests
    /\ started' = started + 1
    /\ \/ /\ Works
          /\ CallBecomes(h, [NoCall EXCEPT !.pc = "cancel",
                                !.todo = {c \in Chunks : status[c] # None}])
       \/ Fails("redis") /\ EndCall(h)
    /\ UNCHANGED <<status, graph, queue, work, enqueued>>

ReadForCancel(h, c) ==
    /\ call[h].pc = "cancel"
    /\ c \in call[h].todo
    /\ \/ /\ Works
          /\ status[c] \in Unresolved
          /\ CallBecomes(h, [call[h] EXCEPT !.pc = "markCancelled", !.chunk = c])
       \/ Works /\ status[c] \notin Unresolved /\ SkipCall(h, c)
       \/ Fails("redis") /\ SkipCall(h, c)
    /\ UNCHANGED <<status, graph, queue, work, started, enqueued>>

MarkCancelled(h) ==
    /\ call[h].pc = "markCancelled"
    /\ SetStatus(call[h].chunk, "cancelled")
    /\ CallBecomes(h, [call[h] EXCEPT !.pc = "cancel", !.chunk = None,
                          !.todo = call[h].todo \ {call[h].chunk}])
    /\ UNCHANGED <<graph, queue, work, started, enqueued>>

FinishCancel(h) ==
    /\ call[h].pc = "cancel"
    /\ call[h].todo = {}
    /\ EndCall(h)
    /\ UNCHANGED <<status, graph, queue, work, started, enqueued, faults>>

\* The API process dies with the requests it is handling.
ApiCrash ==
    /\ Fails("api")
    /\ \E h \in Calls : call[h].pc # "idle"
    /\ call' = [h \in Calls |-> NoCall]
    /\ UNCHANGED <<status, graph, queue, work, started, enqueued>>

(***************************************************************************)
(* batch_extraction_job.                                                   *)
(***************************************************************************)
NoWork == [pc |-> "idle", job |-> None, todo |-> {}, texts |-> {},
           results |-> {}, chunk |-> None, again |-> FALSE]

WorkBecomes(w, k) == work' = [work EXCEPT ![w] = k]
EndJob(w) == WorkBecomes(w, NoWork)
Proceed(w, label) == WorkBecomes(w, [work[w] EXCEPT !.pc = label])

\* The job is done with chunk c of its loop.
SkipWork(w, c) ==
    WorkBecomes(w, [work[w] EXCEPT !.todo = work[w].todo \ {c}])

Tried(j) == [j EXCEPT !.tries = j.tries + 1]

\* ARQ does not start a job once more than it may.
TriedTooOften(j) == j.tries > MaxTries              \* wrong: once too often
GivenUp(j) == j.tries = MaxTries

\* ARQ hands a waiting job to the worker, or gives it up.
TakeJob(w) ==
    /\ work[w].pc = "idle"
    /\ \E j \in queue :
        /\ queue' = queue \ {j}
        /\ IF GivenUp(j)
           THEN work' = work
           ELSE WorkBecomes(w, [NoWork EXCEPT !.pc = "mark", !.job = Tried(j),
                                   !.todo = j.chunks])
    /\ UNCHANGED <<status, graph, call, started, enqueued, faults>>

\* Every chunk is marked running, whatever its status was.
MarkRunning(w, c) ==
    /\ work[w].pc = "mark"
    /\ c \in work[w].todo
    /\ SetStatus(c, "running")
    /\ IF work[w].todo = {c}
       THEN WorkBecomes(w, [work[w] EXCEPT !.pc = "fetch",
                               !.todo = work[w].job.chunks])
       ELSE SkipWork(w, c)
    /\ UNCHANGED <<graph, queue, call, started, enqueued>>

\* The body raises: what is not resolved will be marked failed.
Abandoned(w, again) ==
    [work[w] EXCEPT !.pc = "abandon", !.todo = work[w].job.chunks,
                    !.chunk = None, !.again = again]
Raise(w) == WorkBecomes(w, Abandoned(w, FALSE))

\* The text of a chunk is found, is missing, or its store raises.
FetchText(w, c) ==
    /\ work[w].pc = "fetch"
    /\ c \in work[w].todo
    /\ \/ /\ Works
          /\ WorkBecomes(w, [work[w] EXCEPT !.todo = work[w].todo \ {c},
                                            !.texts = work[w].texts \cup {c}])
       \/ Fails("source") /\ SkipWork(w, c)
       \/ Fails("source") /\ Raise(w)
    /\ UNCHANGED <<status, graph, queue, call, started, enqueued>>

FetchDone(w) ==
    /\ work[w].pc = "fetch"
    /\ work[w].todo = {}
    /\ WorkBecomes(w, [work[w] EXCEPT !.pc = "missing",
                          !.todo = work[w].job.chunks \ work[w].texts])
    /\ UNCHANGED <<status, graph, queue, call, started, enqueued, faults>>

FailMissing(w, c) ==
    /\ work[w].pc = "missing"
    /\ c \in work[w].todo
    /\ SetStatus(c, "failed")
    /\ SkipWork(w, c)
    /\ UNCHANGED <<graph, queue, call, started, enqueued>>

SomethingMissing(w) == work[w].texts # work[w].job.chunks   \* wrong: drops the others
NothingToExtract(w) == work[w].texts = {}

MissingDone(w) ==
    /\ work[w].pc = "missing"
    /\ work[w].todo = {}
    /\ IF NothingToExtract(w) THEN EndJob(w) ELSE Proceed(w, "extract")
    /\ UNCHANGED <<status, graph, queue, call, started, enqueued, faults>>

\* extract_batch answers for any of the chunks it was given, none if the LLM
\* call failed, and raises if the schema is gone.
Extract(w) ==
    /\ work[w].pc = "extract"
    /\ \/ /\ Works
          /\ \E results \in SUBSET work[w].texts :
                WorkBecomes(w, [work[w] EXCEPT !.pc = "write",
                                   !.todo = work[w].texts, !.results = results])
       \/ Fails("source") /\ Raise(w)
    /\ UNCHANGED <<status, graph, queue, call, started, enqueued>>

FailUnanswered(w, c) ==
    /\ work[w].pc = "write"
    /\ c \in work[w].todo \ work[w].results
    /\ SetStatus(c, "failed")
    /\ SkipWork(w, c)
    /\ UNCHANGED <<graph, queue, call, started, enqueued>>

\* The result of a chunk is merged into Neo4j; an error is kept to this chunk.
WriteGraph(w, c) ==
    /\ work[w].pc = "write"
    /\ c \in work[w].todo \cap work[w].results
    /\ \/ /\ Works
          /\ graph' = graph \cup {c}
          /\ WorkBecomes(w, [work[w] EXCEPT !.pc = "written", !.chunk = c])
       \/ /\ Fails("graph")
          /\ graph' = graph
          /\ WorkBecomes(w, [work[w] EXCEPT !.pc = "broken", !.chunk = c])
    /\ UNCHANGED <<status, queue, call, started, enqueued>>

AlwaysComplete(pc) == "complete"                    \* wrong: an error is ignored
Outcome(pc) == IF pc = "written" THEN "complete" ELSE "failed"

ReportChunk(w) ==
    /\ work[w].pc \in {"written", "broken"}
    /\ SetStatus(work[w].chunk, Outcome(work[w].pc))
    /\ WorkBecomes(w, [work[w] EXCEPT !.pc = "write", !.chunk = None,
                          !.todo = work[w].todo \ {work[w].chunk}])
    /\ UNCHANGED <<graph, queue, call, started, enqueued>>

FinishJob(w) ==
    /\ work[w].pc = "write"
    /\ work[w].todo = {}
    /\ EndJob(w)
    /\ UNCHANGED <<status, graph, queue, call, started, enqueued, faults>>

\* ARQ cancels the job: it timed out, or the worker is being shut down and
\* queues the job again.  Outside the try block only a shutdown is quick enough.
Interrupt(w) ==
    /\ Fails("interrupt")
    /\ \/ /\ work[w].pc \in {"mark", "abandon", "markFailed"}
          /\ queue' = queue \cup {work[w].job}
          /\ EndJob(w)
       \/ /\ work[w].pc \in {"fetch", "missing", "extract", "write", "written", "broken"}
          /\ \E again \in BOOLEAN : WorkBecomes(w, Abandoned(w, again))
          /\ queue' = queue
    /\ UNCHANGED <<status, graph, call, started, enqueued>>

NotQueued == Statuses \ {"queued"}                  \* wrong: running is not resolved
Resolved == {"complete", "failed"}

\* The handler of BaseException: a chunk that is complete or failed is left alone.
ReadForFailure(w, c) ==
    /\ work[w].pc = "abandon"
    /\ c \in work[w].todo
    /\ \/ Works /\ status[c] \in Resolved /\ SkipWork(w, c)
       \/ /\ (Works /\ status[c] \notin Resolved) \/ Fails("redis")
          /\ WorkBecomes(w, [work[w] EXCEPT !.pc = "markFailed", !.chunk = c])
    /\ UNCHANGED <<status, graph, queue, call, started, enqueued>>

MarkFailed(w) ==
    /\ work[w].pc = "markFailed"
    /\ SetStatus(work[w].chunk, "failed")
    /\ WorkBecomes(w, [work[w] EXCEPT !.pc = "abandon", !.chunk = None,
                          !.todo = work[w].todo \ {work[w].chunk}])
    /\ UNCHANGED <<graph, queue, call, started, enqueued>>

Requeued(w) == IF work[w].again THEN {work[w].job} ELSE {}

FinishAbandoned(w) ==
    /\ work[w].pc = "abandon"
    /\ work[w].todo = {}
    /\ queue' = queue \cup Requeued(w)
    /\ EndJob(w)
    /\ UNCHANGED <<status, graph, call, started, enqueued, faults>>

\* The worker process dies.  ARQ finds its jobs again when their in-progress
\* keys expire.
WorkerCrash ==
    /\ Fails("worker")
    /\ \E w \in Workers : work[w].pc # "idle"
    /\ queue' = queue \cup {work[w].job : w \in {v \in Workers : work[v].pc # "idle"}}
    /\ work' = [w \in Workers |-> NoWork]
    /\ UNCHANGED <<status, graph, call, started, enqueued>>

\* A status lives for a day.
ExpireStatus(c) ==
    /\ status[c] \in Statuses \ Unresolved
    /\ status' = [status EXCEPT ![c] = None]
    /\ UNCHANGED <<graph, queue, call, work, started, enqueued, faults>>

(***************************************************************************)
(* The specification.                                                      *)
(***************************************************************************)
Init ==
    /\ status = [c \in Chunks |-> None]
    /\ graph = {}
    /\ queue = {}
    /\ call = [h \in Calls |-> NoCall]
    /\ work = [w \in Workers |-> NoWork]
    /\ started = 0
    /\ enqueued = 0
    /\ faults = 0

\* What a handler does once its request is there.
CallStep(h) ==
    \/ MarkQueued(h) \/ EnqueueBatch(h) \/ FinishRun(h)
    \/ MarkCancelled(h) \/ FinishCancel(h)
    \/ \E c \in Chunks : ScanChunk(h, c) \/ ReadForCancel(h, c)

\* What the worker does by itself.
WorkStep(w) ==
    \/ TakeJob(w) \/ FetchDone(w) \/ MissingDone(w) \/ Extract(w)
    \/ ReportChunk(w) \/ FinishJob(w) \/ MarkFailed(w) \/ FinishAbandoned(w)
    \/ \E c \in Chunks :
          \/ MarkRunning(w, c) \/ FetchText(w, c) \/ FailMissing(w, c)
          \/ FailUnanswered(w, c) \/ WriteGraph(w, c) \/ ReadForFailure(w, c)

Next ==
    \/ \E h \in Calls : StartRun(h) \/ StartCancel(h) \/ CallStep(h)
    \/ \E w \in Workers : WorkStep(w) \/ Interrupt(w)
    \/ ApiCrash
    \/ WorkerCrash
    \/ \E c \in Chunks : ExpireStatus(c)

Spec == Init /\ [][Next]_vars

\* The event loops of both processes run; requests, faults and the expiry of a
\* key need not happen.
FairSpec ==
    /\ Spec
    /\ \A h \in Calls : WF_vars(CallStep(h))
    /\ \A w \in Workers : WF_vars(WorkStep(w))

(***************************************************************************)
(* Properties.                                                             *)
(***************************************************************************)
Jobs == [id : Nat, chunks : SUBSET Chunks, tries : 0 .. MaxTries]

CallType ==
    [pc : {"idle", "scan", "markQueued", "cancel", "markCancelled"},
     todo : SUBSET Chunks, pending : SUBSET Chunks, chunk : Chunks \cup {None}]

WorkType ==
    [pc : {"idle", "mark", "fetch", "missing", "extract", "write", "written",
           "broken", "abandon", "markFailed"},
     job : Jobs \cup {None}, todo : SUBSET Chunks, texts : SUBSET Chunks,
     results : SUBSET Chunks, chunk : Chunks \cup {None}, again : BOOLEAN]

\* Every variable has its type.
TypeOK ==
    /\ status \in [Chunks -> Statuses \cup {None}]
    /\ graph \subseteq Chunks
    /\ queue \subseteq Jobs
    /\ call \in [Calls -> CallType]
    /\ work \in [Workers -> WorkType]
    /\ started \in Nat /\ enqueued \in Nat /\ faults \in Nat

\* A chunk shown as complete has its result in Neo4j, whatever fails, is
\* cancelled or is run twice: /run relies on it when it skips such chunks.
CompleteMeansWritten ==
    \A c \in Chunks : status[c] = "complete" => c \in graph

\* The chunks somebody is still going to work on.
HeldByCall(h) == call[h].pending \cup (IF call[h].pc = "markQueued" THEN {call[h].chunk} ELSE {})
HeldByJobs ==
    (UNION {j.chunks : j \in queue})
        \cup (UNION {work[w].job.chunks : w \in {v \in Workers : work[v].pc # "idle"}})

\* A chunk shown as queued or running is in a job that is waiting or running,
\* or in the hands of the /run request that will enqueue one: it is not orphaned
\* by an error, a timeout, a shutdown or a crash of the worker.
UnresolvedHasJob ==
    \A c \in Chunks : status[c] \in Unresolved =>
        c \in HeldByJobs \cup UNION {HeldByCall(h) : h \in Calls}

\* A chunk shown as queued or running is complete, failed or cancelled some day.
EveryChunkResolves ==
    \A c \in Chunks : status[c] \in Unresolved ~> status[c] \notin Unresolved

(***************************************************************************)
(* The inductive invariant behind TypeOK and CompleteMeansWritten: what    *)
(* handlers and running jobs know.                                         *)
(***************************************************************************)
JobKnows ==
    \A w \in Workers :
        /\ work[w].pc # "idle" => work[w].job \in Jobs
        /\ work[w].pc = "written" => work[w].chunk \in graph

CallKnows ==
    \A h \in Calls : call[h].pc = "markQueued" => call[h].chunk \in Chunks

IInv == TypeOK /\ CompleteMeansWritten /\ JobKnows /\ CallKnows

(***************************************************************************)
(* The inductive invariant behind UnresolvedHasJob, where no status is     *)
(* lost, the API process survives and there are fewer faults than tries:   *)
(* somebody still owes every unresolved chunk a final status.              *)
(***************************************************************************)
JobsSurvive == Faults \cap {"redis", "api"} = {} /\ MaxFaults < MaxTries

\* The chunks a running job will still set to a final status, or hand back.
Owed(k) ==
    IF k.pc \in {"mark", "fetch"} \/ k.again THEN k.job.chunks
    ELSE IF k.pc = "missing" THEN k.todo \cup k.texts
    ELSE IF k.pc = "extract" THEN k.texts
    ELSE k.todo

WorkOwes(k) == IF k.pc = "idle" THEN {} ELSE Owed(k)
CallOwes(k) == k.pending \cup (IF k.pc = "markQueued" THEN {k.chunk} ELSE {})

\* A job waits, or a job or a handler is going to resolve or enqueue the chunk.
Attended(c) ==
    \/ \E j \in queue : c \in j.chunks
    \/ \E w \in Workers : c \in WorkOwes(work[w])
    \/ \E h \in Calls : c \in CallOwes(call[h])

\* A running job works on its own chunks, and each new try was paid by a fault.
WorkInv(k) ==
    k.pc # "idle" =>
        /\ k.todo \cup k.texts \subseteq k.job.chunks
        /\ k.pc \in {"written", "broken", "markFailed"} => k.chunk \in k.todo
        /\ k.job.tries <= faults + (IF k.again THEN 0 ELSE 1)
        /\ k.again => k.pc \in {"abandon", "markFailed"}

CallInv(k) == k.pc \in {"idle", "cancel", "markCancelled"} => k.pending = {}

OwedInv ==
    /\ \A c \in Chunks : status[c] \in Unresolved => Attended(c)
    /\ \A w \in Workers : WorkInv(work[w])
    /\ \A h \in Calls : CallInv(call[h])
    /\ \A j \in queue : j.tries <= faults
    /\ faults <= MaxFaults
=============================================================================
