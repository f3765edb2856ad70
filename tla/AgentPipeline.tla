---------------------------- MODULE AgentPipeline ----------------------------
(* The AI-assisted curation of one run: POST /agents/run and /agents/cancel  *)
(* in the API process, the chained ARQ jobs of the agents in the worker, and *)
(* the status of each candidate in Redis.                                    *)
(*                                                                           *)
(*   batch_evidence_assembly_job -> retrieval_augmentation_job               *)
(*            |                              |                               *)
(*            v                              v                               *)
(*   batch_proposal_composition_job    proposal_composition_job              *)
(*                                                                           *)
(* One action per await.  What a language model answers is a choice; the     *)
(* proposal store and its archive are those of GovernedMutation, here one    *)
(* step each.  ARQ is external: it starts a job at most MaxTries times.      *)
EXTENDS Naturals, Sequences, FiniteSets, Functions, CandidateGroups

CONSTANTS
    Cached,         \* the cached candidates, in order
    Refs,           \* involved_element_refs of each candidate
    Suppressed,     \* candidates marked suppressed_by_group
    BatchSize,      \* AgentConfig.batch_size
    MaxRunning,     \* max_jobs of the worker
    MaxTries,       \* how often ARQ starts a job
    Classes,        \* proposal classes Agent-P answers
    Scenarios,      \* bounds, one record of them for each behaviour: how many
                    \* runs, cancels, reviews and faults of which kinds it may
                    \* have, and which candidate_ids ({}: all) and values of
                    \* enable_retrieval its runs ask for
    None            \* a missing value

Candidates == Range(Cached)

\* AgentPipelineJobStatus.stage.
Progressing == {"evidence_running", "evidence_complete", "retrieval_running",
                "retrieval_complete", "proposal_running"}
Ended == {"complete", "failed", "deferred", "cancelled"}
Stages == Progressing \cup Ended \cup {"queued"}

ASSUME ConstantsAssumption ==
    /\ Cached \in Seq(Candidates)
    /\ Refs \in [Candidates -> SUBSET UNION Range(Refs)]
    /\ \A c \in Candidates : IsFiniteSet(Refs[c])
    /\ Suppressed \subseteq Candidates
    /\ \A s \in Scenarios : s.ids \subseteq SUBSET Candidates
    /\ \A s \in Scenarios : s.retrieval \subseteq BOOLEAN
    /\ BatchSize \in Nat \ {0}
    /\ MaxTries \in Nat \ {0}
    /\ "defer" \in Classes /\ None \notin Classes
    /\ None \notin Progressing \cup Ended
    /\ \A s \in Scenarios : s.faults \in Nat
    /\ \A s \in Scenarios :
          s.kinds \subseteq {"redis", "enqueue", "agent", "worker", "timeout", "api"}

VARIABLES
    status,     \* AgentPipelineJobStatus.stage of each candidate; None: no key
    store,      \* proposals of the run
    excluded,   \* excluded candidate ids
    jobs,       \* ARQ jobs, waiting and running
    call,       \* what the handler of /agents/run is doing
    cancel,     \* what the handler of /agents/cancel is doing
    composed,   \* history: every proposal Agent-P handed back to a job
    left        \* what is left of the bounds; gen counts the runs

vars == <<status, store, excluded, jobs, call, cancel, composed, left>>

\* The id of a candidate is a hash of what it is: {c} for a cached one, and
\* the set of its members for the candidate a cluster is merged into.
Identity(c) == {c}

Works == left' = left
Fails(kind) ==
    /\ kind \in left.kinds
    /\ left.faults > 0
    /\ left' = [left EXCEPT !.faults = @ - 1]

\* _set_agent_job_status: the write arrives, or is lost and nobody is told.
SetStatus(c, stage) ==
    \/ Works /\ status' = [status EXCEPT ![c] = stage]
    \/ Fails("redis") /\ status' = status

(***************************************************************************)
(* Jobs                                                                    *)
(***************************************************************************)
Kinds == {"evidence", "retrieval", "proposal", "batch_proposal"}
Running(j) == j.pc # "queued"

\* A second job of the same kind for the same candidates differs in copy.
Copies == 1 .. 3

NewJob(kind, gen, retrieval, cands) ==
    [kind |-> kind, gen |-> gen, retrieval |-> retrieval, cands |-> cands,
     copy |-> Min(Copies \ {j.copy : j \in {k \in jobs : /\ k.kind = kind
                                                         /\ k.gen = gen
                                                         /\ k.cands = cands}}),
     pc |-> "queued", todo |-> cands, insufficient |-> {},
     results |-> [c \in Candidates |-> None], tries |-> 0]

JobBecomes(j, k) == jobs' = (jobs \ {j}) \cup {k}
JobEnds(j) == jobs' = jobs \ {j}
JobEnqueues(j, k, next) == jobs' = (jobs \ {j}) \cup {k, next}
JobHandsOver(j, next) == jobs' = (jobs \ {j}) \cup {next}

\* A list of candidates is the set of those in it: a loop takes them in any
\* order, and todo holds those it has not come to.
MoveTo(j, pc) == [j EXCEPT !.pc = pc, !.todo = j.cands]
\* The loop goes on, or after the last candidate the next phase begins.
Advance(j, done, pc) ==
    IF j.todo \subseteq done THEN MoveTo(j, pc) ELSE [j EXCEPT !.todo = @ \ done]

\* wrong: the job ends and says nothing.
RaiseUnreported(j) == JobEnds(j)

\* except Exception: every candidate of the job is marked failed.
Raise(j) == JobBecomes(j, MoveTo(j, "fail"))

\* wrong: one start too many.
MayStartAgain(j) == j.tries <= MaxTries

MayStart(j) == j.tries < MaxTries

StartJob(j) ==
    /\ j.pc = "queued"
    /\ MayStart(j)
    /\ Cardinality({k \in jobs : Running(k)}) < MaxRunning
    /\ JobBecomes(j, [j EXCEPT !.tries = @ + 1, !.pc = "mark"])
    /\ UNCHANGED <<status, store, excluded, call, cancel, composed, left>>

\* ARQ drops a job it has started often enough.
GivenUp(j) ==
    /\ j.pc = "queued"
    /\ ~ MayStart(j)
    /\ JobEnds(j)
    /\ UNCHANGED <<status, store, excluded, call, cancel, composed, left>>

RunningStage(j) ==
    CASE j.kind = "evidence" -> "evidence_running"
      [] j.kind = "retrieval" -> "retrieval_running"
      [] OTHER -> "proposal_running"

\* The evidence job leaves the status of a finished candidate alone.
Skips(j, c) == j.kind = "evidence" /\ status[c] \in {"complete", "deferred"}

MarkRunning(j) ==
    /\ j.pc = "mark"
    /\ \E c \in j.todo :
          /\ \/ Skips(j, c) /\ Works /\ status' = status
             \/ ~ Skips(j, c) /\ SetStatus(c, RunningStage(j))
          /\ JobBecomes(j, Advance(j, {c}, "agent"))
    /\ UNCHANGED <<store, excluded, call, cancel, composed>>

\* Agent-A's run_batch reports on every candidate, with a fallback report that
\* is insufficient for those the model left out.  Without Agent-B nobody asks
\* which are insufficient.
AssembleEvidence(j) ==
    /\ j.pc = "agent"
    /\ j.kind = "evidence"
    /\ \/ /\ Works
          /\ \E short \in IF j.retrieval THEN SUBSET j.cands ELSE {{}} :
                JobBecomes(j, [MoveTo(j, "report") EXCEPT !.insufficient = short])
       \/ Fails("agent") /\ Raise(j)
    /\ UNCHANGED <<status, store, excluded, call, cancel, composed>>

RetrieveMore(j) ==
    /\ j.pc = "agent"
    /\ j.kind = "retrieval"
    /\ \/ Works /\ JobBecomes(j, MoveTo(j, "report"))
       \/ Fails("agent") /\ Raise(j)
    /\ UNCHANGED <<status, store, excluded, call, cancel, composed>>

\* The refs of the candidates in a list, by their places in the cache.
RefsAt(cands) ==
    [i \in {k \in DOMAIN Cached : Cached[k] \in cands} |-> Refs[Cached[i]]]
CandidatesAt(positions) == {Cached[i] : i \in positions}

\* wrong: no consolidation, one proposal for each pair.
ClustersApart == [cands \in SUBSET Candidates |-> {{c} : c \in cands}]

\* _consolidate_clusters: candidates that share an element become one.
Clusters ==
    [cands \in SUBSET Candidates |->
        {CandidatesAt(group) : group \in Groups(RefsAt(cands))}]

Proposal(id, class, state) == [of |-> id, class |-> class, state |-> state]

\* ProposalService.create: the id is a hash of candidate and class, and a
\* proposal that exists is returned as it is.
Created(id, class) ==
    IF \E p \in store : p.of = id /\ p.class = class THEN store
    ELSE store \cup {Proposal(id, class, "pending")}

\* The model answers once for all candidates; then each answer becomes a
\* proposal.  No answer, a refused one and a failed put all give None.
Compose(j) ==
    /\ j.pc = "agent"
    /\ j.kind \in {"proposal", "batch_proposal"}
    /\ \/ /\ Works
          /\ \E id \in {cluster \in Clusters[j.cands] : cluster \subseteq j.todo} :
                LET with(class) ==
                        [Advance(j, id, "report") EXCEPT !.results =
                            [c \in Candidates |-> IF c \in id THEN class ELSE @[c]]]
                IN  \/ /\ JobBecomes(j, with(None))
                       /\ UNCHANGED <<store, composed>>
                    \/ \E class \in Classes :
                          /\ store' = Created(id, class)
                          /\ composed' = composed \cup
                                {[of |-> id, class |-> class, gen |-> j.gen,
                                  retrieval |-> j.retrieval]}
                          /\ JobBecomes(j, with(class))
       \/ /\ Fails("agent")
          /\ Raise(j)
          /\ UNCHANGED <<store, composed>>
    /\ UNCHANGED <<status, excluded, call, cancel>>

\* wrong: a candidate without a proposal is complete like the others.
AlwaysComplete(j, c) ==
    CASE j.kind = "evidence" -> "evidence_complete"
      [] j.kind = "retrieval" -> "retrieval_complete"
      [] OTHER -> IF j.results[c] = "defer" THEN "deferred" ELSE "complete"

\* What a proposal job says of a candidate, by the class it proposed.
Settled(class) ==
    CASE class = None -> "failed"
      [] class = "defer" -> "deferred"
      [] OTHER -> "complete"

\* What the job reports of candidate c when its agent is done.
Outcome(j, c) ==
    CASE j.kind = "evidence" -> "evidence_complete"
      [] j.kind = "retrieval" -> "retrieval_complete"
      [] OTHER -> Settled(j.results[c])

Terminal(j) == j.kind \in {"proposal", "batch_proposal"}

Report(j) ==
    /\ j.pc = "report"
    /\ \E c \in j.todo :
          /\ SetStatus(c, Outcome(j, c))
          /\ IF Terminal(j) /\ j.todo = {c} THEN JobEnds(j)
             ELSE JobBecomes(j, Advance(j, {c}, "route"))
    /\ UNCHANGED <<store, excluded, call, cancel, composed>>

\* Candidates Agent-B has to look at: one retrieval job each.
ForAgentB(j) == IF j.retrieval THEN j.cands \cap j.insufficient ELSE {}
\* The others go on together.
ForAgentP(j) == j.cands \ ForAgentB(j)

\* wrong: Agent-B is asked again and again.
ChainedBack(j, kind, cands) ==
    NewJob(IF j.kind = "retrieval" THEN "retrieval" ELSE kind, j.gen, j.retrieval, cands)

Chained(j, kind, cands) == NewJob(kind, j.gen, j.retrieval, cands)

RouteToAgentB(j) ==
    /\ j.pc = "route"
    /\ j.kind = "evidence"
    /\ \/ /\ Works
          /\ \E c \in j.todo \cap ForAgentB(j) :
                JobEnqueues(j, [j EXCEPT !.todo = @ \ {c}], Chained(j, "retrieval", {c}))
       \/ /\ j.todo \cap ForAgentB(j) # {}
          /\ Fails("enqueue")
          /\ Raise(j)
    /\ UNCHANGED <<status, store, excluded, call, cancel, composed>>

RouteToAgentP(j) ==
    /\ j.pc = "route"
    /\ j.kind = "evidence"
    /\ j.todo \cap ForAgentB(j) = {}
    /\ \/ /\ Works
          /\ IF ForAgentP(j) = {} THEN JobEnds(j)
             ELSE JobHandsOver(j, Chained(j, "batch_proposal", ForAgentP(j)))
       \/ /\ ForAgentP(j) # {}
          /\ Fails("enqueue")
          /\ Raise(j)
    /\ UNCHANGED <<status, store, excluded, call, cancel, composed>>

\* The retrieval job always goes on to a proposal.
RouteRetrieved(j) ==
    /\ j.pc = "route"
    /\ j.kind = "retrieval"
    /\ \/ Works /\ JobHandsOver(j, Chained(j, "proposal", j.cands))
       \/ Fails("enqueue") /\ Raise(j)
    /\ UNCHANGED <<status, store, excluded, call, cancel, composed>>

MarkFailed(j) ==
    /\ j.pc = "fail"
    /\ \E c \in j.todo :
          /\ SetStatus(c, "failed")
          /\ IF j.todo = {c} THEN JobEnds(j) ELSE JobBecomes(j, [j EXCEPT !.todo = @ \ {c}])
    /\ UNCHANGED <<store, excluded, call, cancel, composed>>

\* The job as ARQ starts it again: with its arguments and nothing else.
Restarted(j) ==
    [MoveTo(j, "queued") EXCEPT !.insufficient = {},
                                !.results = [c \in Candidates |-> None]]

\* The worker is shut down or dies: a cancelled coroutine is not caught by
\* except Exception, and ARQ starts each job again from its beginning.
WorkerStops ==
    /\ \E j \in jobs : Running(j)
    /\ Fails("worker")
    /\ jobs' = {Restarted(j) : j \in jobs}
    /\ UNCHANGED <<status, store, excluded, call, cancel, composed>>

\* job_timeout: ARQ cancels the coroutine and counts the job as failed.
JobTimesOut(j) ==
    /\ Running(j)
    /\ Fails("timeout")
    /\ JobEnds(j)
    /\ UNCHANGED <<status, store, excluded, call, cancel, composed>>

(***************************************************************************)
(* POST /agents/run                                                        *)
(***************************************************************************)
NoCall == [pc |-> "idle", chosen |-> {}, retrieval |-> FALSE, confirm |-> FALSE,
           cands |-> {}, todo |-> {}, i |-> 1, gen |-> 0]
NoCancel == [pc |-> "idle", todo |-> {}, cand |-> None]
CallBecomes(k) == call' = k
EndCall == CallBecomes(NoCall)

StartRun ==
    /\ call.pc = "idle"
    /\ left.runs > 0
    /\ left' = [left EXCEPT !.runs = @ - 1, !.gen = @ + 1]
    /\ \E ids \in left.ids, retrieval \in left.retrieval, confirm \in BOOLEAN :
          CallBecomes([NoCall EXCEPT !.pc = "existing", !.chosen = ids,
                                     !.gen = left.gen + 1,
                                     !.retrieval = retrieval, !.confirm = confirm])
    /\ UNCHANGED <<status, store, excluded, jobs, cancel, composed>>

\* Proposals of an earlier run are archived only when the request says so.  An
\* index that cannot be read is an empty one.
CheckExisting ==
    /\ call.pc = "existing"
    /\ \/ /\ Works
          /\ \/ store = {} /\ CallBecomes([call EXCEPT !.pc = "load"])
             \/ store # {} /\ ~ call.confirm /\ EndCall
             \/ store # {} /\ call.confirm /\ CallBecomes([call EXCEPT !.pc = "archive"])
       \/ Fails("redis") /\ CallBecomes([call EXCEPT !.pc = "load"])
    /\ UNCHANGED <<status, store, excluded, jobs, cancel, composed>>

\* ProposalService.archive_for_run keeps what has been executed.
ArchiveExisting ==
    /\ call.pc = "archive"
    /\ store' = {p \in store : p.state = "executed"}
    /\ CallBecomes([call EXCEPT !.pc = "load"])
    /\ UNCHANGED <<status, excluded, jobs, cancel, composed, left>>

\* Left out are excluded candidates, those with a proposal that was not
\* rejected, those the request did not ask for, and those a chain group stands
\* for.  What cannot be read from Redis is empty.  An empty rest ends the request.
Selected(ids, known) ==
    {c \in Candidates \ Suppressed :
        /\ Identity(c) \notin ids
        /\ \A p \in known : p.of = Identity(c) => p.state = "rejected"
        /\ call.chosen = {} \/ c \in call.chosen}

LoadCandidates ==
    LET go(rest) == IF rest = {} THEN EndCall
                    ELSE CallBecomes([call EXCEPT !.pc = "clear", !.cands = rest,
                                                  !.todo = rest])
    IN  /\ call.pc = "load"
        /\ \/ Works /\ go(Selected(excluded, store))
           \/ Fails("redis") /\ \E ids \in {excluded, {}}, known \in {store, {}} :
                                    go(Selected(ids, known))
        /\ UNCHANGED <<status, store, excluded, jobs, cancel, composed>>

\* The status of each candidate is deleted, so that the evidence job does not
\* take it for finished.
ClearStatus ==
    /\ call.pc = "clear"
    /\ \E c \in call.todo :
          /\ SetStatus(c, None)
          /\ CallBecomes([call EXCEPT !.todo = @ \ {c},
                                      !.pc = IF call.todo = {c} THEN "enqueue" ELSE @])
    /\ UNCHANGED <<store, excluded, jobs, cancel, composed>>

\* The batches of _group_by_shared_refs, in order.
BatchList ==
    [cands \in SUBSET Candidates |->
        LET batches == BatchesOf(RefsAt(cands), BatchSize)
        IN  [k \in DOMAIN batches |-> CandidatesAt(batches[k])]]

\* A batch that cannot be enqueued is skipped; without a pool none is.
EnqueueBatch ==
    LET batches == BatchList[call.cands]
        job == NewJob("evidence", call.gen, call.retrieval, batches[call.i])
        next == IF call.i = Len(batches) THEN NoCall ELSE [call EXCEPT !.i = @ + 1]
    IN  /\ call.pc = "enqueue"
        /\ \/ Works /\ jobs' = jobs \cup {job} /\ CallBecomes(next)
           \/ /\ Fails("enqueue")
              /\ jobs' = jobs
              /\ CallBecomes(next) \/ (call.i = 1 /\ EndCall)
        /\ UNCHANGED <<status, store, excluded, cancel, composed>>

ApiCrash ==
    /\ call # NoCall \/ cancel.pc # "idle"
    /\ Fails("api")
    /\ call' = NoCall
    /\ cancel' = NoCancel
    /\ UNCHANGED <<status, store, excluded, jobs, composed>>

(***************************************************************************)
(* POST /agents/cancel                                                     *)
(***************************************************************************)
StartCancel ==
    /\ cancel.pc = "idle"
    /\ left.cancels > 0
    /\ left' = [left EXCEPT !.cancels = @ - 1]
    /\ cancel' = [NoCancel EXCEPT !.pc = "scan",
                                  !.todo = {c \in Candidates : status[c] # None}]
    /\ UNCHANGED <<status, store, excluded, jobs, call, composed>>

\* A key that is gone or cannot be read is passed over, and an ended job too.
ReadForCancel ==
    /\ cancel.pc = "scan"
    /\ \E c \in cancel.todo :
          \/ /\ Works
             /\ IF status[c] \in Ended \cup {None}
                THEN cancel' = [cancel EXCEPT !.todo = @ \ {c}]
                ELSE cancel' = [pc |-> "write", todo |-> cancel.todo \ {c}, cand |-> c]
          \/ Fails("redis") /\ cancel' = [cancel EXCEPT !.todo = @ \ {c}]
    /\ UNCHANGED <<status, store, excluded, jobs, call, composed>>

MarkCancelled ==
    /\ cancel.pc = "write"
    /\ SetStatus(cancel.cand, "cancelled")
    /\ cancel' = [cancel EXCEPT !.pc = "scan", !.cand = None]
    /\ UNCHANGED <<store, excluded, jobs, call, composed>>

FinishCancel ==
    /\ cancel.pc = "scan"
    /\ cancel.todo = {}
    /\ cancel' = NoCancel
    /\ UNCHANGED <<status, store, excluded, jobs, call, composed, left>>

(***************************************************************************)
(* Reviewers: the approval gate, one step for each decision.               *)
(***************************************************************************)
Review ==
    /\ left.reviews > 0
    /\ left' = [left EXCEPT !.reviews = @ - 1]
    /\ \E p \in store, state \in {"rejected", "excluded", "executed"} :
          /\ p.state = "pending"
          /\ store' = (store \ {p}) \cup {[p EXCEPT !.state = state]}
          /\ excluded' = IF state = "excluded" THEN excluded \cup {p.of} ELSE excluded
    /\ UNCHANGED <<status, jobs, call, cancel, composed>>

(***************************************************************************)
(* Specification                                                           *)
(***************************************************************************)
Init ==
    /\ status = [c \in Candidates |-> None]
    /\ store = {}
    /\ excluded = {}
    /\ jobs = {}
    /\ call = NoCall
    /\ cancel = NoCancel
    /\ composed = {}
    /\ \E s \in Scenarios :
          left = [runs |-> s.runs, cancels |-> s.cancels, reviews |-> s.reviews,
                  faults |-> s.faults, allowed |-> s.faults, kinds |-> s.kinds,
                  ids |-> s.ids, retrieval |-> s.retrieval, gen |-> 0]

JobStep(j) ==
    \/ StartJob(j) \/ GivenUp(j) \/ MarkRunning(j)
    \/ AssembleEvidence(j) \/ RetrieveMore(j) \/ Compose(j)
    \/ Report(j)
    \/ RouteToAgentB(j) \/ RouteToAgentP(j) \/ RouteRetrieved(j)
    \/ MarkFailed(j)

RunStep ==
    \/ CheckExisting \/ ArchiveExisting \/ LoadCandidates
    \/ ClearStatus \/ EnqueueBatch

CancelStep == ReadForCancel \/ MarkCancelled \/ FinishCancel

Next ==
    \/ \E j \in jobs : JobStep(j) \/ JobTimesOut(j)
    \/ WorkerStops
    \/ StartRun \/ RunStep
    \/ StartCancel \/ CancelStep
    \/ ApiCrash
    \/ Review

Spec == Init /\ [][Next]_vars

\* The worker polls its queue, and a call to a model returns or raises.
Fairness == WF_vars(\E j \in jobs : JobStep(j))
FairSpec == Spec /\ Fairness

(***************************************************************************)
(* Properties                                                              *)
(***************************************************************************)
\* Every variable has its type.
TypeOK ==
    /\ status \in [Candidates -> Stages \cup {None}]
    /\ \A p \in store :
          /\ p.of \in (SUBSET Candidates) \ {{}}
          /\ p.class \in Classes
          /\ p.state \in {"pending", "rejected", "excluded", "executed"}
    /\ excluded \subseteq SUBSET Candidates
    /\ \A j \in jobs :
          /\ j.kind \in Kinds
          /\ j.pc \in {"queued", "mark", "agent", "report", "route", "fail"}
          /\ j.cands \in (SUBSET Candidates) \ {{}}
          /\ j.todo \cup j.insufficient \subseteq j.cands
          /\ j.results \in [Candidates -> Classes \cup {None}]
          /\ j.tries \in 0 .. MaxTries
    /\ call.pc \in {"idle", "existing", "archive", "load", "clear", "enqueue"}
    /\ call.todo \subseteq call.cands /\ call.cands \subseteq Candidates
    /\ cancel.pc \in {"idle", "scan", "write"}
    /\ cancel.todo \subseteq Candidates

\* A candidate shown as complete has a proposal that Agent-P composed for it or
\* for its cluster and that the store took; one shown as deferred has a
\* proposal to defer.  Any fault may strike in between.
OutcomeHasProposal ==
    \A c \in Candidates :
        /\ status[c] = "complete" =>
              \E p \in composed : c \in p.of /\ p.class # "defer"
        /\ status[c] = "deferred" =>
              \E p \in composed : c \in p.of /\ p.class = "defer"

\* Job j will still write the status of candidate c, or hand c to another job.
Owes(j, c) ==
    /\ c \in j.cands
    /\ j.pc = "fail" \/ (j.pc = "report" /\ Terminal(j)) => c \in j.todo
    /\ j.pc = "route" /\ j.kind = "evidence" => c \in j.todo \cup ForAgentP(j)

\* The faults the jobs are written for: all but a status write that is lost, a
\* job that times out, and one that ARQ gives up.
FaultsHandled ==
    /\ left.kinds \cap {"redis", "timeout"} = {}
    /\ "worker" \in left.kinds => left.allowed < MaxTries

\* A candidate shown as being worked on has a job, waiting or running, that will
\* move it on: no chain of jobs is dropped by a failed enqueue, a failing agent,
\* a worker or an API process that stops, a cancel or a second run across it.
WorkedOnHasJob ==
    FaultsHandled =>
        \A c \in Candidates :
            status[c] \in Progressing => \E j \in jobs : Owes(j, c)

\* The graph elements a proposal for some candidates touches.
Nodes(cands) == UNION {Refs[c] : c \in cands}

\* "Ensures no node is touched by two different batches": two proposals that one
\* request leads to share no graph element, as long as Agent-B is switched off.
NodeSafe ==
    \A p, q \in composed :
        p.gen = q.gen /\ p.of # q.of /\ ~ p.retrieval => Nodes(p.of) \cap Nodes(q.of) = {}

\* A candidate in progress comes to an end, under the same faults.
EveryCandidateEnds ==
    \A c \in Candidates :
        FaultsHandled /\ status[c] \in Progressing ~> status[c] \notin Progressing

(***************************************************************************)
(* Inductive invariants                                                    *)
(***************************************************************************)
\* What carries OutcomeHasProposal.
\* A job has the fields the outcome is computed from, and each answer it holds
\* is that of a proposal Agent-P has handed to some job.
JobKnows ==
    \A j \in jobs :
        /\ {"kind", "results"} \subseteq DOMAIN j
        /\ \A c \in Candidates : j.results[c] # None =>
              \E p \in composed : c \in p.of /\ p.class = j.results[c]

IInv ==
    /\ DOMAIN status = Candidates
    /\ OutcomeHasProposal
    /\ JobKnows

\* What carries TypeOK: records have their fields, a selection is not empty, and
\* the bounds are numbers.
JobFields == {"kind", "gen", "retrieval", "cands", "pc", "todo", "insufficient",
              "results", "tries"}

LeftTyped ==
    /\ {"runs", "cancels", "reviews", "faults", "allowed", "kinds", "ids", "retrieval",
        "gen"} \subseteq DOMAIN left
    /\ left.faults \in Nat /\ left.allowed \in Nat /\ left.faults <= left.allowed

CallTyped ==
    /\ {"pc", "chosen", "retrieval", "confirm", "cands", "todo", "i", "gen"} \subseteq DOMAIN call
    /\ call.pc = "clear" => call.cands # {}
    /\ call.pc = "enqueue" => call.cands # {} /\ call.i \in DOMAIN BatchList[call.cands]
    /\ call.pc # "enqueue" => call.i = 1

TypeInv ==
    /\ TypeOK
    /\ \A p \in store : {"of", "class", "state"} \subseteq DOMAIN p
    /\ \A j \in jobs : JobFields \subseteq DOMAIN j
    /\ LeftTyped
    /\ CallTyped
    /\ {"pc", "todo", "cand"} \subseteq DOMAIN cancel

\* ARQ starts a job again only when the worker has stopped: each start but the
\* running one has cost a fault.
StartsAccounted ==
    \A j \in jobs :
        /\ j.tries <= (left.allowed - left.faults) + (IF Running(j) THEN 1 ELSE 0)
        /\ "worker" \notin left.kinds /\ ~ Running(j) => j.tries = 0

WorkInv == TypeInv /\ StartsAccounted /\ WorkedOnHasJob

\* What carries NodeSafe: each request had a plan, the switch of Agent-B and the
\* candidates it selected, and without Agent-B its jobs hold batches of that
\* selection and its proposals are about clusters of such a batch.
Planned(plan) ==
    /\ \A j \in jobs :
          /\ j.gen \in 1 .. left.gen
          /\ j.retrieval = plan[j.gen].retrieval
          /\ j.retrieval \/ j.cands \in Range(BatchList[plan[j.gen].cands])
    /\ \A p \in composed :
          /\ p.gen \in 1 .. left.gen
          /\ p.retrieval = plan[p.gen].retrieval
          /\ p.retrieval \/ \E batch \in Range(BatchList[plan[p.gen].cands]) :
                               p.of \in Clusters[batch]
    /\ call.pc # "idle" =>
          /\ left.gen # 0 /\ call.gen = left.gen
          /\ call.retrieval = plan[left.gen].retrieval
    /\ call.pc \in {"existing", "archive", "load"} =>
          \A work \in jobs \cup composed : work.gen # left.gen
    /\ call.pc \in {"clear", "enqueue"} => call.cands = plan[left.gen].cands

PlanInv ==
    /\ left.gen \in Nat /\ left.retrieval \subseteq BOOLEAN
    /\ \E plan \in [1 .. left.gen -> [retrieval : BOOLEAN, cands : SUBSET Candidates]] :
          Planned(plan)
=============================================================================
