------------------------- MODULE AgentPipelineProofs -------------------------
(* Theorems about AgentPipeline, for every list of candidates, batch size,    *)
(* number of concurrent jobs, attempts and faults.                           *)
EXTENDS AgentPipeline, CandidateGroupsProofs

\* A composed proposal stays composed, so what IInv says of a job goes on being
\* true of it.
Backed(results, proposals) ==
    \A c \in Candidates : results[c] # None =>
        \E p \in proposals : c \in p.of /\ p.class = results[c]

\* What a job may become.
SoundJob(k, proposals) ==
    /\ {"kind", "results"} \subseteq DOMAIN k
    /\ Backed(k.results, proposals)

LEMMA BackedStays ==
    ASSUME NEW results, NEW P, NEW Q, P \subseteq Q, Backed(results, P)
    PROVE  Backed(results, Q)
BY DEF Backed

\* The jobs after a step are jobs there were before, or sound ones.
LEMMA JobsMove ==
    ASSUME IInv, composed \subseteq composed',
           \A k \in jobs' : k \in jobs \/ SoundJob(k, composed')
    PROVE  JobKnows'
<1>1. ASSUME NEW k \in jobs' PROVE SoundJob(k, composed')
  <2>1. CASE k \in jobs
    BY <2>1, BackedStays DEF IInv, JobKnows, SoundJob, Backed
  <2>2. CASE SoundJob(k, composed')
    BY <2>2
  <2>3. QED
    BY <1>1, <2>1, <2>2
<1>2. QED
  BY <1>1 DEF JobKnows, SoundJob, Backed

\* A step that leaves the statuses alone.
LEMMA QuietMove ==
    ASSUME IInv, UNCHANGED status, composed \subseteq composed',
           \A k \in jobs' : k \in jobs \/ SoundJob(k, composed')
    PROVE  IInv'
<1>1. JobKnows'
  BY JobsMove
<1>2. QED
  BY <1>1 DEF IInv, OutcomeHasProposal

\* A status that promises a proposal needs one.
Earned(c, stage) ==
    /\ stage = "complete" => \E p \in composed : c \in p.of /\ p.class # "defer"
    /\ stage = "deferred" => \E p \in composed : c \in p.of /\ p.class = "defer"

\* A step that sets a status.
LEMMA StatusMove ==
    ASSUME IInv, NEW c, NEW stage, SetStatus(c, stage), c \in Candidates => Earned(c, stage),
           UNCHANGED composed, \A k \in jobs' : k \in jobs \/ SoundJob(k, composed')
    PROVE  IInv'
<1>1. JobKnows'
  BY JobsMove
<1>2. DOMAIN status' = Candidates
  BY DEF IInv, SetStatus
<1>3. OutcomeHasProposal'
  BY DEF IInv, SetStatus, OutcomeHasProposal, Earned
<1>4. QED
  BY <1>1, <1>2, <1>3 DEF IInv

\* The job as it was, at another place.
LEMMA SameJob ==
    ASSUME IInv, NEW j \in jobs
    PROVE  /\ SoundJob(j, composed)
           /\ \A pc : SoundJob(MoveTo(j, pc), composed)
           /\ \A pc, done : SoundJob(Advance(j, done, pc), composed)
           /\ \A done : SoundJob([j EXCEPT !.todo = @ \ done], composed)
           /\ SoundJob([j EXCEPT !.tries = @ + 1, !.pc = "mark"], composed)
           /\ \A short, pc : SoundJob([MoveTo(j, pc) EXCEPT !.insufficient = short], composed)
<1>1. SoundJob(j, composed)
  BY DEF IInv, JobKnows, SoundJob, Backed
<1>2. \A pc : SoundJob(MoveTo(j, pc), composed)
  BY <1>1 DEF SoundJob, MoveTo
<1>3. \A done : SoundJob([j EXCEPT !.todo = @ \ done], composed)
  BY <1>1 DEF SoundJob
<1>5. SoundJob([j EXCEPT !.tries = @ + 1, !.pc = "mark"], composed)
  BY <1>1 DEF SoundJob
<1>6. \A short, pc : SoundJob([MoveTo(j, pc) EXCEPT !.insufficient = short], composed)
  BY <1>1 DEF SoundJob, MoveTo
<1>7. \A pc, done : SoundJob(Advance(j, done, pc), composed)
  BY <1>2, <1>3 DEF Advance
<1>8. QED
  BY <1>1, <1>2, <1>3, <1>5, <1>6, <1>7

\* A job that has no answers yet.
LEMMA FreshJob ==
    ASSUME NEW k, {"kind", "results"} \subseteq DOMAIN k, k.results = [c \in Candidates |-> None],
           NEW P
    PROVE  SoundJob(k, P)
BY DEF SoundJob, Backed

LEMMA NewJobSound ==
    ASSUME NEW kind, NEW gen, NEW retrieval, NEW cands, NEW P
    PROVE  SoundJob(NewJob(kind, gen, retrieval, cands), P)
BY FreshJob DEF NewJob

\* A step of a job that only moves it on.
LEMMA StartJobKeeps ==
    ASSUME IInv, NEW j \in jobs, StartJob(j) PROVE IInv'
<1>1. SoundJob([j EXCEPT !.tries = @ + 1, !.pc = "mark"], composed)
  BY SameJob
<1>2. QED
  BY <1>1, QuietMove DEF StartJob, JobBecomes

LEMMA GivenUpKeeps ==
    ASSUME IInv, NEW j \in jobs, GivenUp(j) PROVE IInv'
BY QuietMove DEF GivenUp, JobEnds

LEMMA MarkRunningKeeps ==
    ASSUME IInv, NEW j \in jobs, MarkRunning(j) PROVE IInv'
<1>1. PICK c \in j.todo :
         /\ \/ UNCHANGED status
            \/ SetStatus(c, RunningStage(j))
         /\ JobBecomes(j, Advance(j, {c}, "agent"))
  BY DEF MarkRunning
<1>2. SoundJob(Advance(j, {c}, "agent"), composed) /\ UNCHANGED composed
  BY SameJob DEF MarkRunning
<1>3. \A l \in jobs' : l \in jobs \/ SoundJob(l, composed')
  BY <1>1, <1>2 DEF JobBecomes
<1>4. CASE UNCHANGED status
  BY <1>2, <1>3, <1>4, QuietMove
<1>5. CASE SetStatus(c, RunningStage(j))
  <2>1. Earned(c, RunningStage(j))
    BY DEF Earned, RunningStage
  <2>2. QED
    BY <1>2, <1>3, <1>5, <2>1, StatusMove
<1>6. QED
  BY <1>1, <1>4, <1>5

\* except Exception: only the place in the job changes.
LEMMA RaiseKeeps ==
    ASSUME IInv, NEW j \in jobs, Raise(j), UNCHANGED <<status, composed>>
    PROVE  IInv'
<1>1. SoundJob(MoveTo(j, "fail"), composed)
  BY SameJob
<1>2. QED
  BY <1>1, QuietMove DEF Raise, JobBecomes

LEMMA AssembleEvidenceKeeps ==
    ASSUME IInv, NEW j \in jobs, AssembleEvidence(j) PROVE IInv'
<1>1. UNCHANGED <<status, composed>>
  BY DEF AssembleEvidence
<1>2. ASSUME NEW short, JobBecomes(j, [MoveTo(j, "report") EXCEPT !.insufficient = short])
      PROVE  IInv'
  <2>1. SoundJob([MoveTo(j, "report") EXCEPT !.insufficient = short], composed)
    BY SameJob
  <2>2. QED
    BY <1>1, <1>2, <2>1, QuietMove DEF JobBecomes
<1>3. CASE Raise(j)
  BY <1>1, <1>3, RaiseKeeps
<1>4. QED
  BY <1>2, <1>3 DEF AssembleEvidence

LEMMA RetrieveMoreKeeps ==
    ASSUME IInv, NEW j \in jobs, RetrieveMore(j) PROVE IInv'
<1>1. UNCHANGED <<status, composed>>
  BY DEF RetrieveMore
<1>2. CASE JobBecomes(j, MoveTo(j, "report"))
  <2>1. SoundJob(MoveTo(j, "report"), composed)
    BY SameJob
  <2>2. QED
    BY <1>1, <1>2, <2>1, QuietMove DEF JobBecomes
<1>3. CASE Raise(j)
  BY <1>1, <1>3, RaiseKeeps
<1>4. QED
  BY <1>2, <1>3 DEF RetrieveMore

\* The answers of a job after one more cluster was answered with class.
Answered(j, id, class) ==
    [c \in Candidates |-> IF c \in id THEN class ELSE j.results[c]]

LEMMA ComposeKeeps ==
    ASSUME IInv, NEW j \in jobs, Compose(j) PROVE IInv'
<1>1. UNCHANGED status
  BY DEF Compose
<1> SUFFICES ASSUME NEW id,
                    LET with(class) == [Advance(j, id, "report") EXCEPT !.results =
                            [c \in Candidates |-> IF c \in id THEN class ELSE @[c]]]
                    IN  \/ JobBecomes(j, with(None)) /\ UNCHANGED composed
                        \/ \E class \in Classes :
                              /\ composed' = composed \cup
                                    {[of |-> id, class |-> class, gen |-> j.gen,
                                      retrieval |-> j.retrieval]}
                              /\ JobBecomes(j, with(class))
             PROVE  IInv'
  <2>1. CASE Raise(j) /\ UNCHANGED composed
    BY <1>1, <2>1, RaiseKeeps
  <2>2. QED
    BY <2>1 DEF Compose
<1> DEFINE on == Advance(j, id, "report")
           with(class) == [on EXCEPT !.results = Answered(j, id, class)]
<1>8. on.results = j.results
  BY DEF Advance, MoveTo, IInv, JobKnows
<1>2. SoundJob(j, composed) /\ SoundJob(on, composed)
  BY SameJob
<1>3. ASSUME NEW class, NEW P, composed \subseteq P,
             class = None \/ \E p \in P : p.of = id /\ p.class = class
      PROVE  SoundJob(with(class), P)
  <2>1. {"kind", "results"} \subseteq DOMAIN with(class)
    BY <1>2 DEF SoundJob
  <2>2. with(class).results = Answered(j, id, class)
    BY <1>2 DEF SoundJob
  <2>3. Backed(Answered(j, id, class), P)
    BY <1>2, <1>3 DEF SoundJob, Backed, Answered
  <2>4. QED
    BY <2>1, <2>2, <2>3 DEF SoundJob
<1>4. CASE JobBecomes(j, with(None)) /\ UNCHANGED composed
  BY <1>1, <1>3, <1>4, QuietMove DEF JobBecomes
<1>5. ASSUME NEW class,
             composed' = composed \cup {[of |-> id, class |-> class, gen |-> j.gen,
                                         retrieval |-> j.retrieval]},
             JobBecomes(j, with(class))
      PROVE  IInv'
  <2>1. composed \subseteq composed' /\ \E p \in composed' : p.of = id /\ p.class = class
    <3> DEFINE p == [of |-> id, class |-> class, gen |-> j.gen, retrieval |-> j.retrieval]
    <3>1. p \in composed' /\ composed \subseteq composed'
      BY <1>5
    <3>2. p.of = id /\ p.class = class
      OBVIOUS
    <3> HIDE DEF p
    <3>3. QED
      BY <3>1, <3>2
  <2>2. SoundJob(with(class), composed')
    BY <1>3, <2>1
  <2>3. QED
    BY <1>1, <1>5, <2>1, <2>2, QuietMove DEF JobBecomes
<1>6. QED
  BY <1>4, <1>5, <1>8 DEF Answered

\* What a job reports of a candidate, it has an answer for.
LEMMA ReportKeeps ==
    ASSUME IInv, NEW j \in jobs, Report(j) PROVE IInv'
<1>1. PICK c \in j.todo :
         /\ SetStatus(c, Outcome(j, c))
         /\ JobEnds(j) \/ JobBecomes(j, Advance(j, {c}, "route"))
  BY DEF Report
<1>2. ASSUME c \in Candidates PROVE Earned(c, Outcome(j, c))
  <2>1. j.results[c] # None => \E p \in composed : c \in p.of /\ p.class = j.results[c]
    BY <1>2 DEF IInv, JobKnows
  <2>2. Outcome(j, c) = "complete" => j.results[c] # None /\ j.results[c] # "defer"
    BY DEF Outcome, Settled
  <2>3. Outcome(j, c) = "deferred" => j.results[c] # None /\ j.results[c] = "defer"
    BY ConstantsAssumption DEF Outcome, Settled
  <2>4. QED
    BY <2>1, <2>2, <2>3 DEF Earned
<1>3. UNCHANGED composed /\ SoundJob(Advance(j, {c}, "route"), composed)
  BY SameJob DEF Report
<1>4. \A k \in jobs' : k \in jobs \/ SoundJob(k, composed')
  BY <1>1, <1>3 DEF JobEnds, JobBecomes
<1>5. QED
  BY <1>1, <1>2, <1>3, <1>4, StatusMove

LEMMA RouteKeeps ==
    ASSUME IInv, NEW j \in jobs,
           RouteToAgentB(j) \/ RouteToAgentP(j) \/ RouteRetrieved(j)
    PROVE  IInv'
<1>1. UNCHANGED <<status, composed>>
  BY DEF RouteToAgentB, RouteToAgentP, RouteRetrieved
<1>2. CASE Raise(j)
  BY <1>1, <1>2, RaiseKeeps
<1>3. \A kind, cands : SoundJob(Chained(j, kind, cands), composed)
  BY NewJobSound DEF Chained
<1>4. ASSUME NEW kind, NEW cands, NEW done,
             \/ JobEnqueues(j, [j EXCEPT !.todo = @ \ done], Chained(j, kind, cands))
             \/ JobHandsOver(j, Chained(j, kind, cands))
             \/ JobEnds(j)
      PROVE  IInv'
  <2>1. /\ SoundJob([j EXCEPT !.todo = @ \ done], composed)
        /\ SoundJob(Chained(j, kind, cands), composed)
    BY <1>3, SameJob
  <2>2. QED
    BY <1>1, <1>4, <2>1, QuietMove DEF JobEnqueues, JobHandsOver, JobEnds
<1>5. CASE RouteToAgentB(j)
  BY <1>2, <1>4, <1>5 DEF RouteToAgentB
<1>6. CASE RouteToAgentP(j)
  BY <1>2, <1>4, <1>6 DEF RouteToAgentP
<1>7. CASE RouteRetrieved(j)
  BY <1>2, <1>4, <1>7 DEF RouteRetrieved
<1>8. QED
  BY <1>5, <1>6, <1>7

LEMMA MarkFailedKeeps ==
    ASSUME IInv, NEW j \in jobs, MarkFailed(j) PROVE IInv'
<1>1. PICK c \in j.todo :
         /\ SetStatus(c, "failed")
         /\ JobEnds(j) \/ JobBecomes(j, [j EXCEPT !.todo = @ \ {c}])
  BY DEF MarkFailed
<1>2. UNCHANGED composed /\ SoundJob([j EXCEPT !.todo = @ \ {c}], composed)
  BY SameJob DEF MarkFailed
<1>3. \A k \in jobs' : k \in jobs \/ SoundJob(k, composed')
  BY <1>1, <1>2 DEF JobEnds, JobBecomes
<1>4. Earned(c, "failed")
  BY DEF Earned
<1>5. QED
  BY <1>1, <1>2, <1>3, <1>4, StatusMove

LEMMA WorkerStopsKeeps ==
    ASSUME IInv, WorkerStops PROVE IInv'
<1>1. UNCHANGED <<status, composed>> /\ jobs' = {Restarted(j) : j \in jobs}
  BY DEF WorkerStops
<1>2. ASSUME NEW j \in jobs PROVE SoundJob(Restarted(j), composed)
  <2>1. SoundJob(MoveTo(j, "queued"), composed)
    BY SameJob
  <2>2. QED
    BY <2>1, FreshJob DEF Restarted, SoundJob
<1>3. QED
  BY <1>1, <1>2, QuietMove

\* The requests: no status they write promises a proposal.
LEMMA RequestKeeps ==
    ASSUME IInv,
           \/ StartRun \/ CheckExisting \/ ArchiveExisting \/ LoadCandidates
           \/ StartCancel \/ ReadForCancel \/ FinishCancel
           \/ ApiCrash \/ Review
    PROVE  IInv'
<1>1. UNCHANGED <<status, jobs, composed>>
  BY DEF StartRun, CheckExisting, ArchiveExisting, LoadCandidates, StartCancel,
         ReadForCancel, FinishCancel, ApiCrash, Review
<1>2. QED
  BY <1>1, QuietMove

LEMMA ClearStatusKeeps ==
    ASSUME IInv, ClearStatus PROVE IInv'
<1>1. PICK c \in call.todo : SetStatus(c, None)
  BY DEF ClearStatus
<1>2. Earned(c, None) /\ UNCHANGED <<jobs, composed>>
  BY ConstantsAssumption DEF Earned, ClearStatus, Progressing, Ended
<1>3. QED
  BY <1>1, <1>2, StatusMove

LEMMA EnqueueBatchKeeps ==
    ASSUME IInv, EnqueueBatch PROVE IInv'
<1> DEFINE job == NewJob("evidence", call.gen, call.retrieval, BatchList[call.cands][call.i])
<1>1. SoundJob(job, composed)
  BY NewJobSound
<1>2. UNCHANGED <<status, composed>> /\ jobs' \subseteq jobs \cup {job}
  BY DEF EnqueueBatch
<1>3. QED
  BY <1>1, <1>2, QuietMove

LEMMA MarkCancelledKeeps ==
    ASSUME IInv, MarkCancelled PROVE IInv'
<1>1. SetStatus(cancel.cand, "cancelled") /\ UNCHANGED <<jobs, composed>>
  BY DEF MarkCancelled
<1>2. Earned(cancel.cand, "cancelled")
  BY DEF Earned
<1>3. QED
  BY <1>1, <1>2, StatusMove

\* IInv holds in every reachable state.
THEOREM Invariance == Spec => []IInv
<1>1. Init => IInv
  BY ConstantsAssumption DEF Init, IInv, OutcomeHasProposal, JobKnows, Progressing, Ended
<1>2. IInv /\ [Next]_vars => IInv'
  <2> SUFFICES ASSUME IInv, [Next]_vars PROVE IInv'
    OBVIOUS
  <2>1. ASSUME NEW j \in jobs, JobStep(j) PROVE IInv'
    BY <2>1, StartJobKeeps, GivenUpKeeps, MarkRunningKeeps, AssembleEvidenceKeeps,
       RetrieveMoreKeeps, ComposeKeeps, ReportKeeps, RouteKeeps, MarkFailedKeeps
       DEF JobStep
  <2>2. ASSUME NEW j \in jobs, JobTimesOut(j) PROVE IInv'
    BY <2>2, QuietMove DEF JobTimesOut, JobEnds
  <2>3. CASE WorkerStops
    BY <2>3, WorkerStopsKeeps
  <2>4. CASE StartRun \/ RunStep
    BY <2>4, RequestKeeps, ClearStatusKeeps, EnqueueBatchKeeps DEF RunStep
  <2>5. CASE StartCancel \/ CancelStep
    BY <2>5, RequestKeeps, MarkCancelledKeeps DEF CancelStep
  <2>6. CASE ApiCrash \/ Review
    BY <2>6, RequestKeeps
  <2>7. CASE UNCHANGED vars
    <3>1. UNCHANGED <<status, jobs, composed>>
      BY <2>7 DEF vars
    <3>2. QED
      BY <3>1, QuietMove
  <2>8. QED
    BY <2>1, <2>2, <2>3, <2>4, <2>5, <2>6, <2>7 DEF Next
<1>3. QED
  BY <1>1, <1>2, PTL DEF Spec

\* A candidate shown as complete or deferred has the proposal behind it, whatever
\* fails, stops, is cancelled or runs across it.
THEOREM OutcomesAreBacked == Spec => []OutcomeHasProposal
<1>1. IInv => OutcomeHasProposal
  BY DEF IInv
<1>2. QED
  BY <1>1, Invariance, PTL

(***************************************************************************)
(* Clusters and batches of a list of candidates.                            *)
(***************************************************************************)
LEMMA ListOfRefs ==
    ASSUME NEW cands \in SUBSET Candidates
    PROVE  /\ IsList(RefsAt(cands))
           /\ DOMAIN RefsAt(cands) = {k \in DOMAIN Cached : Cached[k] \in cands}
           /\ \A k \in DOMAIN RefsAt(cands) : RefsAt(cands)[k] = Refs[Cached[k]]
           /\ CandidatesAt(DOMAIN RefsAt(cands)) = cands
<1> DEFINE P == {k \in DOMAIN Cached : Cached[k] \in cands}
<1>1. Cached \in Seq(Candidates) /\ Len(Cached) \in Nat /\ DOMAIN Cached = 1 .. Len(Cached)
  BY ConstantsAssumption
<1>2. DOMAIN RefsAt(cands) = P /\ \A k \in P : RefsAt(cands)[k] = Refs[Cached[k]]
  BY DEF RefsAt
<1>3. IsFiniteSet(P)
  <2>1. IsFiniteSet(1 .. Len(Cached))
    BY <1>1, FS_Interval
  <2>2. P \subseteq 1 .. Len(Cached)
    BY <1>1
  <2>3. QED
    BY <2>1, <2>2, FS_Subset
<1>4. P \subseteq 0 .. Len(Cached)
  BY <1>1
<1>5. \A k \in P : IsFiniteSet(Refs[Cached[k]])
  BY ConstantsAssumption
<1>6. IsList(RefsAt(cands))
  BY <1>1, <1>2, <1>3, <1>4, <1>5 DEF IsList
<1>7. CandidatesAt(P) = cands
  BY DEF CandidatesAt, Candidates, Range
<1>8. QED
  BY <1>2, <1>6, <1>7

\* A cluster is some of the candidates of its list, at least one.
LEMMA ClusterOfCandidates ==
    ASSUME NEW cands \in SUBSET Candidates, NEW id \in Clusters[cands]
    PROVE  id \subseteq cands /\ id # {}
<1> DEFINE refs == RefsAt(cands)
<1>1. PICK group \in Groups(refs) : id = CandidatesAt(group)
  BY DEF Clusters
<1>2. group \subseteq DOMAIN refs /\ group # {}
  BY <1>1 DEF Groups, Positions
<1>3. DOMAIN refs = {k \in DOMAIN Cached : Cached[k] \in cands}
  BY DEF RefsAt
<1>4. QED
  BY <1>1, <1>2, <1>3 DEF CandidatesAt

\* Two clusters of a list share no graph element.
LEMMA ClustersShareNothing ==
    ASSUME NEW cands \in SUBSET Candidates,
           NEW p \in Clusters[cands], NEW q \in Clusters[cands], p # q
    PROVE  Nodes(p) \cap Nodes(q) = {}
<1> DEFINE refs == RefsAt(cands)
<1>1. PICK g \in Groups(refs) : p = CandidatesAt(g)
  BY DEF Clusters
<1>2. PICK h \in Groups(refs) : q = CandidatesAt(h)
  BY DEF Clusters
<1>3. IsList(refs) /\ \A k \in DOMAIN refs : refs[k] = Refs[Cached[k]]
  BY ListOfRefs
<1>4. g \subseteq DOMAIN refs /\ h \subseteq DOMAIN refs
  BY GroupsCover
<1> HIDE DEF refs
<1> SUFFICES ASSUME NEW n \in Nodes(p), n \in Nodes(q) PROVE FALSE
  OBVIOUS
<1>5. PICK i \in g : n \in Refs[Cached[i]]
  BY <1>1 DEF Nodes, CandidatesAt
<1>6. PICK k \in h : n \in Refs[Cached[k]]
  BY <1>2 DEF Nodes, CandidatesAt
<1>7. n \in refs[i] /\ n \in refs[k]
  BY <1>3, <1>4, <1>5, <1>6
<1>8. refs[i] \cap refs[k] # {}
  BY <1>7
<1>9. g = h
  BY <1>3, <1>8, GroupsApart
<1>10. QED
  BY <1>1, <1>2, <1>9

\* What the batches of a selection are, as sets of positions.
LEMMA PiecesOfList ==
    ASSUME NEW cands \in SUBSET Candidates
    PROVE  LET refs == RefsAt(cands)
               c == BatchesOf(refs, BatchSize)
           IN  /\ Pieces(refs, c, DOMAIN refs)
               /\ BatchList[cands] = [k \in DOMAIN c |-> CandidatesAt(c[k])]
<1>1. IsList(RefsAt(cands))
  BY ListOfRefs
<1>2. QED
  BY <1>1, BatchesArePieces DEF BatchList

LEMMA BatchesFit ==
    ASSUME NEW cands \in (SUBSET Candidates) \ {{}}
    PROVE  /\ BatchList[cands] \in Seq((SUBSET Candidates) \ {{}})
           /\ BatchList[cands] # <<>>
<1> DEFINE refs == RefsAt(cands)
           c == BatchesOf(refs, BatchSize)
           list == BatchList[cands]
<1>1. /\ DOMAIN refs = {k \in DOMAIN Cached : Cached[k] \in cands}
      /\ CandidatesAt(DOMAIN refs) = cands
  BY ListOfRefs
<1>2. Pieces(refs, c, DOMAIN refs) /\ list = [k \in DOMAIN c |-> CandidatesAt(c[k])]
  BY PiecesOfList
<1>3. DOMAIN refs # {}
  BY <1>1 DEF CandidatesAt
<1> HIDE DEF refs, c, list
<1>4. c \in Seq(SUBSET DOMAIN refs) /\ DOMAIN c = 1 .. Len(c) /\ Len(c) \in Nat
  BY <1>2 DEF Pieces
<1>5. ASSUME NEW k \in DOMAIN c PROVE CandidatesAt(c[k]) \in (SUBSET Candidates) \ {{}}
  <2>1. c[k] \in SUBSET DOMAIN refs /\ c[k] # {}
    BY <1>2 DEF Pieces, IsBatch
  <2>2. QED
    BY <1>1, <2>1 DEF CandidatesAt
<1>6. list \in [1 .. Len(c) -> (SUBSET Candidates) \ {{}}]
  BY <1>2, <1>4, <1>5
<1>7. Len(c) # 0
  BY <1>2, <1>3, <1>4 DEF Pieces
<1>8. list \in Seq((SUBSET Candidates) \ {{}}) /\ Len(list) = Len(c)
  BY <1>4, <1>6
<1>9. QED
  BY <1>7, <1>8 DEF list

\* Two batches of a selection share no graph element, nor does a batch hold a
\* candidate that was not selected.
LEMMA BatchesShareNothing ==
    ASSUME NEW cands \in SUBSET Candidates,
           NEW a \in Range(BatchList[cands]), NEW b \in Range(BatchList[cands])
    PROVE  /\ a \subseteq cands
           /\ a # b => Nodes(a) \cap Nodes(b) = {}
<1> DEFINE refs == RefsAt(cands)
           c == BatchesOf(refs, BatchSize)
<1>1. /\ IsList(refs) /\ \A k \in DOMAIN refs : refs[k] = Refs[Cached[k]] /\ Cached[k] \in cands
      /\ Pieces(refs, c, DOMAIN refs) /\ BatchList[cands] = [k \in DOMAIN c |-> CandidatesAt(c[k])]
  BY ListOfRefs, PiecesOfList
<1> HIDE DEF refs, c
<1>2. PICK x \in DOMAIN c : a = CandidatesAt(c[x])
  BY <1>1 DEF Range
<1>3. PICK y \in DOMAIN c : b = CandidatesAt(c[y])
  BY <1>1 DEF Range
<1>4. IsBatch(refs, c[x]) /\ IsBatch(refs, c[y]) /\ (x # y => c[x] \cap c[y] = {})
  BY <1>1 DEF Pieces
<1>5. c[x] \subseteq DOMAIN refs /\ c[y] \subseteq DOMAIN refs
  BY <1>4 DEF IsBatch
<1>6. a \subseteq cands
  BY <1>1, <1>2, <1>5 DEF CandidatesAt
<1>7. ASSUME a # b, NEW n \in Nodes(a), n \in Nodes(b) PROVE FALSE
  <2>1. PICK i \in c[x] : n \in Refs[Cached[i]]
    BY <1>2 DEF Nodes, CandidatesAt
  <2>2. PICK k \in c[y] : n \in Refs[Cached[k]]
    BY <1>3, <1>7 DEF Nodes, CandidatesAt
  <2>3. i \in DOMAIN refs /\ k \in DOMAIN refs /\ n \in refs[i] /\ n \in refs[k]
    BY <1>1, <1>5, <2>1, <2>2
  <2>4. PICK g \in Groups(refs) : i \in g
    BY <2>3, GroupsCover
  <2>5. PICK h \in Groups(refs) : k \in h
    BY <2>3, GroupsCover
  <2>6. g = h
    BY <1>1, <2>3, <2>4, <2>5, GroupsApart
  <2>7. k \in c[x]
    BY <1>4, <2>1, <2>4, <2>5, <2>6 DEF IsBatch
  <2>8. x = y
    BY <1>4, <2>2, <2>7
  <2>9. QED
    BY <1>2, <1>3, <1>7, <2>8
<1>8. QED
  BY <1>6, <1>7

(***************************************************************************)
(* TypeOK and WorkedOnHasJob.                                              *)
(***************************************************************************)
Phases == {"queued", "mark", "agent", "report", "route", "fail"}

GoodJob(j) ==
    /\ JobFields \subseteq DOMAIN j
    /\ j.kind \in Kinds
    /\ j.pc \in Phases
    /\ j.cands \in (SUBSET Candidates) \ {{}}
    /\ j.todo \subseteq j.cands /\ j.insufficient \subseteq j.cands
    /\ j.results \in [Candidates -> Classes \cup {None}]
    /\ j.tries \in 0 .. MaxTries

GoodProposal(p) ==
    /\ {"of", "class", "state"} \subseteq DOMAIN p
    /\ p.of \in (SUBSET Candidates) \ {{}}
    /\ p.class \in Classes
    /\ p.state \in {"pending", "rejected", "excluded", "executed"}

GoodCall ==
    /\ CallTyped
    /\ call.pc \in {"idle", "existing", "archive", "load", "clear", "enqueue"}
    /\ call.todo \subseteq call.cands /\ call.cands \subseteq Candidates

GoodCancel ==
    /\ {"pc", "todo", "cand"} \subseteq DOMAIN cancel
    /\ cancel.pc \in {"idle", "scan", "write"}
    /\ cancel.todo \subseteq Candidates

StatusTyped == status \in [Candidates -> Stages \cup {None}]

\* The parts of the type invariant, one for each variable.
Parts ==
    /\ StatusTyped
    /\ \A p \in store : GoodProposal(p)
    /\ excluded \subseteq SUBSET Candidates
    /\ \A j \in jobs : GoodJob(j)
    /\ GoodCall
    /\ GoodCancel
    /\ LeftTyped

LEMMA TypeParts == TypeInv <=> Parts
<1>1. TypeInv => Parts
  BY DEF TypeInv, TypeOK, Parts, StatusTyped, GoodProposal, GoodJob, GoodCall, GoodCancel, Phases
<1>2. Parts => TypeInv
  BY DEF TypeInv, TypeOK, Parts, StatusTyped, GoodProposal, GoodJob, GoodCall, GoodCancel, Phases
<1>3. QED
  BY <1>1, <1>2

LEMMA TypePartsNext == Parts' => TypeInv'
BY DEF TypeInv, TypeOK, Parts, StatusTyped, GoodProposal, GoodJob, GoodCall, GoodCancel, Phases

\* What a step leaves of the bounds: their kinds stay, and faults are used up.
LeftKept ==
    /\ LeftTyped'
    /\ left'.kinds = left.kinds /\ left'.allowed = left.allowed
    /\ left'.faults <= left.faults

LEMMA Spent ==
    ASSUME LeftTyped, NEW kind, Works \/ Fails(kind)
    PROVE  LeftKept
BY DEF LeftTyped, LeftKept, Works, Fails

LEMMA HandledStays ==
    ASSUME LeftKept
    PROVE  FaultsHandled' <=> FaultsHandled
BY DEF LeftKept, FaultsHandled

LEMMA StatusSet ==
    ASSUME StatusTyped, NEW c, NEW stage \in Stages \cup {None}, SetStatus(c, stage)
    PROVE  /\ StatusTyped'
           /\ \A d \in Candidates : d # c => status'[d] = status[d]
           /\ FaultsHandled /\ c \in Candidates => status'[c] = stage
BY DEF StatusTyped, SetStatus, Fails, FaultsHandled

LEMMA SetSpends ==
    ASSUME LeftTyped, NEW c, NEW stage, SetStatus(c, stage)
    PROVE  LeftKept
<1>1. Works \/ Fails("redis")
  BY DEF SetStatus
<1>2. QED
  BY <1>1, Spent

\* A job at another place, with its other fields as they were.
LEMMA Moved ==
    ASSUME NEW j, GoodJob(j), NEW pc \in Phases
    PROVE  /\ GoodJob(MoveTo(j, pc))
           /\ MoveTo(j, pc).pc = pc
           /\ MoveTo(j, pc).todo = j.cands
           /\ MoveTo(j, pc).kind = j.kind /\ MoveTo(j, pc).cands = j.cands
           /\ MoveTo(j, pc).tries = j.tries
           /\ MoveTo(j, pc).retrieval = j.retrieval
           /\ MoveTo(j, pc).insufficient = j.insufficient
BY DEF GoodJob, JobFields, MoveTo

LEMMA Lessened ==
    ASSUME NEW j, GoodJob(j), NEW done
    PROVE  LET k == [j EXCEPT !.todo = @ \ done]
           IN  /\ GoodJob(k)
               /\ k.pc = j.pc
               /\ k.todo = j.todo \ done
               /\ k.kind = j.kind /\ k.cands = j.cands
               /\ k.tries = j.tries /\ k.retrieval = j.retrieval
               /\ k.insufficient = j.insufficient
BY DEF GoodJob, JobFields

LEMMA Advanced ==
    ASSUME NEW j, GoodJob(j), NEW done, NEW pc \in Phases
    PROVE  LET k == Advance(j, done, pc)
           IN  /\ GoodJob(k)
               /\ k.kind = j.kind /\ k.cands = j.cands
               /\ k.tries = j.tries /\ k.retrieval = j.retrieval
               /\ k.insufficient = j.insufficient
               /\ \/ k.pc = pc /\ k.todo = j.cands
                  \/ k.pc = j.pc /\ k.todo = j.todo \ done /\ ~ (j.todo \subseteq done)
<1>1. CASE j.todo \subseteq done
  BY <1>1, Moved DEF Advance
<1>2. CASE ~ (j.todo \subseteq done)
  BY <1>2, Lessened DEF Advance
<1>3. QED
  BY <1>1, <1>2

LEMMA Fresh ==
    ASSUME NEW kind \in Kinds, NEW gen, NEW retrieval,
           NEW cands \in (SUBSET Candidates) \ {{}}
    PROVE  LET k == NewJob(kind, gen, retrieval, cands)
           IN  /\ GoodJob(k)
               /\ k.pc = "queued" /\ k.tries = 0 /\ k.cands = cands
               /\ k.kind = kind /\ k.gen = gen /\ k.retrieval = retrieval
BY ConstantsAssumption DEF GoodJob, JobFields, NewJob, Phases

\* A job that has not begun to report, route or fail owes all of its candidates.
LEMMA OwesAll ==
    ASSUME NEW k, NEW c \in k.cands,
           \/ k.pc \in {"queued", "mark", "agent"}
           \/ k.todo = k.cands
    PROVE  Owes(k, c)
BY DEF Owes

\* A job in the worker makes place for other jobs, itself at its next step among
\* them.  Whatever it owed and still is in progress, they owe.
PassesOn(j, next) ==
    \A c \in Candidates : status'[c] \in Progressing =>
        \/ \E k \in next : Owes(k, c)
        \/ status[c] \in Progressing /\ ~ Owes(j, c)

GoodNext(j, k) ==
    /\ GoodJob(k)
    /\ \/ k.tries = 0 /\ ~ Running(k)
       \/ k.tries = j.tries /\ Running(k)

Moves(j, next) ==
    /\ Running(j)
    /\ jobs' = (jobs \ {j}) \cup next
    /\ \A k \in next : GoodNext(j, k)
    /\ \A p \in store' : GoodProposal(p)
    /\ UNCHANGED <<excluded, call, cancel>>
    /\ LeftKept
    /\ StatusTyped'
    /\ FaultsHandled => PassesOn(j, next)

LEMMA JobMove ==
    ASSUME WorkInv, NEW j \in jobs, NEW next, Moves(j, next)
    PROVE  WorkInv'
<1> USE DEF Moves
<1>1. TypeInv'
  <2>1. \A k \in jobs' : GoodJob(k)
    BY TypeParts DEF WorkInv, Parts, GoodNext
  <2>2. GoodCall' /\ GoodCancel' /\ (excluded \subseteq SUBSET Candidates)'
    BY TypeParts DEF WorkInv, Parts, GoodCall, CallTyped, GoodCancel
  <2>3. Parts'
    BY <2>1, <2>2 DEF Parts, LeftKept
  <2>4. QED
    BY <2>3, TypePartsNext
<1>2. StartsAccounted'
  <2>1. ASSUME NEW k \in jobs'
        PROVE  /\ k.tries <= (left'.allowed - left'.faults) + (IF Running(k) THEN 1 ELSE 0)
               /\ "worker" \notin left'.kinds /\ ~ Running(k) => k.tries = 0
    <3>1. LeftTyped /\ (\A l \in jobs : l.tries \in Nat)
      BY TypeParts DEF WorkInv, Parts, GoodJob
    <3>2. CASE k \in jobs
      BY <3>1, <3>2 DEF WorkInv, StartsAccounted, LeftKept, LeftTyped
    <3>3. CASE k \in next
      BY <3>1, <3>3 DEF WorkInv, StartsAccounted, LeftKept, LeftTyped, GoodNext
    <3>4. QED
      BY <3>2, <3>3
  <2>2. QED
    BY <2>1 DEF StartsAccounted
<1>3. WorkedOnHasJob'
  <2> SUFFICES ASSUME FaultsHandled', NEW c \in Candidates, status'[c] \in Progressing
               PROVE  \E k \in jobs' : Owes(k, c)
    BY DEF WorkedOnHasJob
  <2>1. FaultsHandled
    BY HandledStays
  <2>2. CASE \E k \in next : Owes(k, c)
    BY <2>2
  <2>3. CASE status[c] \in Progressing /\ ~ Owes(j, c)
    BY <2>1, <2>3 DEF WorkInv, WorkedOnHasJob
  <2>4. QED
    BY <2>1, <2>2, <2>3 DEF PassesOn
<1>4. QED
  BY <1>1, <1>2, <1>3 DEF WorkInv

LEMMA JobTypes ==
    ASSUME WorkInv
    PROVE  /\ Parts
           /\ \A j \in jobs : GoodJob(j)
           /\ LeftTyped /\ StatusTyped
           /\ \A p \in store : GoodProposal(p)
BY TypeParts DEF WorkInv, Parts

LEMMA StartJobWorks ==
    ASSUME WorkInv, NEW j \in jobs, StartJob(j) PROVE WorkInv'
<1> DEFINE k == [j EXCEPT !.tries = @ + 1, !.pc = "mark"]
<1>1. /\ jobs' = (jobs \ {j}) \cup {k}
      /\ UNCHANGED <<status, store, excluded, call, cancel, composed, left>>
      /\ j.pc = "queued" /\ j.tries < MaxTries
  BY DEF StartJob, JobBecomes, MayStart
<1>2. GoodJob(j) /\ Parts
  BY JobTypes
<1>3. /\ GoodJob(k) /\ k.tries = j.tries + 1 /\ k.pc = "mark" /\ Running(k)
      /\ k.cands = j.cands /\ k.kind = j.kind
  BY <1>1, <1>2, ConstantsAssumption DEF GoodJob, JobFields, Phases, Running
<1>4. TypeInv'
  <2>1. Parts'
    BY <1>1, <1>2, <1>3 DEF Parts, StatusTyped, GoodCall, CallTyped, GoodCancel, LeftTyped
  <2>2. QED
    BY <2>1, TypePartsNext
<1>5. StartsAccounted'
  <2>1. LeftTyped /\ ~ Running(j) /\ j.tries \in Nat
    BY <1>1, <1>2, JobTypes DEF Running, GoodJob
  <2>2. StartsAccounted /\ j.tries <= (left.allowed - left.faults) + 0
    BY <2>1 DEF WorkInv, StartsAccounted
  <2>3. k.tries <= (left.allowed - left.faults) + 1
    BY <1>3, <2>1, <2>2 DEF LeftTyped
  <2> HIDE DEF k
  <2>4. QED
    BY <1>1, <1>3, <2>2, <2>3 DEF StartsAccounted
<1>6. WorkedOnHasJob'
  <2> SUFFICES ASSUME FaultsHandled, NEW c \in Candidates, status[c] \in Progressing
               PROVE  \E l \in jobs' : Owes(l, c)
    BY <1>1 DEF WorkedOnHasJob, FaultsHandled
  <2>1. PICK l \in jobs : Owes(l, c)
    BY DEF WorkInv, WorkedOnHasJob
  <2>2. CASE l = j
    BY <1>1, <1>3, <2>1, <2>2, OwesAll DEF Owes
  <2>3. QED
    BY <1>1, <2>1, <2>2
<1>7. QED
  BY <1>4, <1>5, <1>6 DEF WorkInv

\* While the faults are those the jobs are written for, no job is given up.
LEMMA GivenUpWorks ==
    ASSUME WorkInv, NEW j \in jobs, GivenUp(j) PROVE WorkInv'
<1>1. /\ jobs' = jobs \ {j}
      /\ UNCHANGED <<status, store, excluded, call, cancel, composed, left>>
      /\ j.pc = "queued" /\ ~ (j.tries < MaxTries)
  BY DEF GivenUp, JobEnds, MayStart
<1>2. Parts /\ GoodJob(j) /\ LeftTyped
  BY JobTypes
<1>3. ~ FaultsHandled
  <2>1. ~ Running(j) /\ j.tries \in Nat
    BY <1>1, <1>2 DEF Running, GoodJob
  <2>2. /\ j.tries <= (left.allowed - left.faults) + 0
        /\ "worker" \notin left.kinds => j.tries = 0
    BY <2>1 DEF WorkInv, StartsAccounted
  <2>3. QED
    BY <1>1, <1>2, <2>1, <2>2, ConstantsAssumption DEF LeftTyped, FaultsHandled
<1>4. TypeInv'
  <2>1. Parts'
    BY <1>1, <1>2 DEF Parts, StatusTyped, GoodCall, CallTyped, GoodCancel, LeftTyped
  <2>2. QED
    BY <2>1, TypePartsNext
<1>5. StartsAccounted'
  BY <1>1 DEF WorkInv, StartsAccounted
<1>6. WorkedOnHasJob'
  BY <1>1, <1>3 DEF WorkedOnHasJob, FaultsHandled
<1>7. QED
  BY <1>4, <1>5, <1>6 DEF WorkInv

LEMMA MarkRunningWorks ==
    ASSUME WorkInv, NEW j \in jobs, MarkRunning(j) PROVE WorkInv'
<1>1. PICK c \in j.todo :
         /\ \/ Works /\ UNCHANGED status
            \/ SetStatus(c, RunningStage(j))
         /\ JobBecomes(j, Advance(j, {c}, "agent"))
  BY DEF MarkRunning
<1> DEFINE k == Advance(j, {c}, "agent")
<1>2. j.pc = "mark" /\ UNCHANGED <<store, excluded, call, cancel, composed>>
  BY DEF MarkRunning
<1>3. GoodJob(j) /\ LeftTyped /\ StatusTyped /\ \A p \in store : GoodProposal(p)
  BY JobTypes
<1>4. /\ GoodJob(k) /\ k.tries = j.tries /\ k.cands = j.cands
      /\ k.pc \in {"mark", "agent"}
  BY <1>2, <1>3, Advanced DEF Phases
<1>5. RunningStage(j) \in Stages
  BY DEF RunningStage, Stages, Progressing
<1>6. LeftKept /\ StatusTyped'
  BY <1>1, <1>3, <1>5, Spent, SetSpends, StatusSet DEF StatusTyped
<1>7. FaultsHandled => PassesOn(j, {k})
  <2> SUFFICES ASSUME FaultsHandled, NEW d \in Candidates, status'[d] \in Progressing
               PROVE  Owes(k, d) \/ (status[d] \in Progressing /\ ~ Owes(j, d))
    BY DEF PassesOn
  <2>1. CASE d \in j.cands
    BY <1>4, <2>1, OwesAll
  <2>2. CASE d \notin j.cands
    <3>1. d # c
      BY <1>3, <2>2 DEF GoodJob
    <3>2. status'[d] = status[d]
      BY <1>1, <1>3, <1>5, <3>1, StatusSet
    <3>3. QED
      BY <2>2, <3>2 DEF Owes
  <2>3. QED
    BY <2>1, <2>2
<1>8. Running(j) /\ GoodNext(j, k)
  BY <1>2, <1>4 DEF Running, GoodNext
<1> HIDE DEF k
<1>9. jobs' = (jobs \ {j}) \cup {k}
  BY <1>1 DEF JobBecomes, k
<1>10. Moves(j, {k})
  BY <1>2, <1>3, <1>6, <1>7, <1>8, <1>9 DEF Moves
<1>11. QED
  BY <1>10, JobMove

\* A step of a job that leaves the statuses alone.
QuietMoves(j, next, kind) ==
    /\ Running(j)
    /\ jobs' = (jobs \ {j}) \cup next
    /\ \A k \in next : GoodNext(j, k)
    /\ \A p \in store' : GoodProposal(p)
    /\ UNCHANGED <<status, excluded, call, cancel>>
    /\ Works \/ Fails(kind)
    /\ FaultsHandled => \A c \in Candidates : Owes(j, c) => \E k \in next : Owes(k, c)

LEMMA QuietJobMove ==
    ASSUME WorkInv, NEW j \in jobs, NEW next, NEW kind, QuietMoves(j, next, kind)
    PROVE  WorkInv'
<1>1. LeftTyped /\ StatusTyped
  BY JobTypes
<1>2. LeftKept
  BY <1>1, Spent DEF QuietMoves
<1>3. StatusTyped' /\ (FaultsHandled => PassesOn(j, next))
  BY <1>1 DEF QuietMoves, StatusTyped, PassesOn
<1>4. Moves(j, next)
  BY <1>2, <1>3 DEF QuietMoves, Moves
<1>5. QED
  BY <1>4, JobMove

\* except Exception: the job will mark all of its candidates.
LEMMA RaiseWorks ==
    ASSUME WorkInv, NEW j \in jobs, Running(j), Raise(j), NEW kind, Fails(kind),
           UNCHANGED <<status, store, excluded, call, cancel>>
    PROVE  WorkInv'
<1> DEFINE k == MoveTo(j, "fail")
<1>1. GoodJob(j) /\ \A p \in store : GoodProposal(p)
  BY JobTypes
<1>2. GoodJob(k) /\ k.tries = j.tries /\ k.pc = "fail" /\ k.cands = j.cands /\ k.todo = k.cands
  BY <1>1, Moved DEF Phases
<1>3. jobs' = (jobs \ {j}) \cup {k}
  BY DEF Raise, JobBecomes
<1> HIDE DEF k
<1>4. \A c \in Candidates : Owes(j, c) => Owes(k, c)
  BY <1>2, OwesAll DEF Owes
<1>5. QuietMoves(j, {k}, kind)
  BY <1>1, <1>2, <1>3, <1>4 DEF QuietMoves, GoodNext, Running
<1>6. QED
  BY <1>5, QuietJobMove

LEMMA AssembleEvidenceWorks ==
    ASSUME WorkInv, NEW j \in jobs, AssembleEvidence(j) PROVE WorkInv'
<1>1. /\ UNCHANGED <<status, store, excluded, call, cancel, composed>>
      /\ j.pc = "agent" /\ j.kind = "evidence" /\ Running(j)
  BY DEF AssembleEvidence, Running
<1>2. GoodJob(j) /\ \A p \in store : GoodProposal(p)
  BY JobTypes
<1>3. ASSUME Works, NEW short \in SUBSET j.cands,
             JobBecomes(j, [MoveTo(j, "report") EXCEPT !.insufficient = short])
      PROVE  WorkInv'
  <2> DEFINE k == [MoveTo(j, "report") EXCEPT !.insufficient = short]
  <2>1. /\ GoodJob(k) /\ k.tries = j.tries /\ k.pc = "report"
        /\ k.cands = j.cands /\ k.todo = k.cands
    BY <1>2, <1>3, Moved DEF Phases, GoodJob, JobFields
  <2>2. jobs' = (jobs \ {j}) \cup {k}
    BY <1>3 DEF JobBecomes
  <2> HIDE DEF k
  <2>3. \A c \in Candidates : Owes(j, c) => Owes(k, c)
    BY <2>1, OwesAll DEF Owes
  <2>4. QuietMoves(j, {k}, "agent")
    BY <1>1, <1>2, <1>3, <2>1, <2>2, <2>3 DEF QuietMoves, GoodNext, Running
  <2>5. QED
    BY <2>4, QuietJobMove
<1>4. CASE Fails("agent") /\ Raise(j)
  BY <1>1, <1>4, RaiseWorks
<1>5. CASE \E short \in SUBSET j.cands :
             Works /\ JobBecomes(j, [MoveTo(j, "report") EXCEPT !.insufficient = short])
  BY <1>3, <1>5
<1>6. QED
  <2>1. \A short \in (IF j.retrieval THEN SUBSET j.cands ELSE {{}}) : short \in SUBSET j.cands
    OBVIOUS
  <2>2. QED
    BY <2>1, <1>4, <1>5 DEF AssembleEvidence

LEMMA RetrieveMoreWorks ==
    ASSUME WorkInv, NEW j \in jobs, RetrieveMore(j) PROVE WorkInv'
<1>1. /\ UNCHANGED <<status, store, excluded, call, cancel, composed>>
      /\ j.pc = "agent" /\ Running(j)
  BY DEF RetrieveMore, Running
<1>2. GoodJob(j) /\ \A p \in store : GoodProposal(p)
  BY JobTypes
<1>3. CASE Works /\ JobBecomes(j, MoveTo(j, "report"))
  <2> DEFINE k == MoveTo(j, "report")
  <2>1. GoodJob(k) /\ k.tries = j.tries /\ k.pc = "report" /\ k.cands = j.cands /\ k.todo = k.cands
    BY <1>2, Moved DEF Phases
  <2>2. jobs' = (jobs \ {j}) \cup {k}
    BY <1>3 DEF JobBecomes
  <2> HIDE DEF k
  <2>3. \A c \in Candidates : Owes(j, c) => Owes(k, c)
    BY <2>1, OwesAll DEF Owes
  <2>4. QuietMoves(j, {k}, "agent")
    BY <1>1, <1>2, <1>3, <2>1, <2>2, <2>3 DEF QuietMoves, GoodNext, Running
  <2>5. QED
    BY <2>4, QuietJobMove
<1>4. CASE Fails("agent") /\ Raise(j)
  BY <1>1, <1>4, RaiseWorks
<1>5. QED
  BY <1>3, <1>4 DEF RetrieveMore

LEMMA MarkFailedWorks ==
    ASSUME WorkInv, NEW j \in jobs, MarkFailed(j) PROVE WorkInv'
<1>1. PICK c \in j.todo :
         /\ SetStatus(c, "failed")
         /\ IF j.todo = {c} THEN JobEnds(j) ELSE JobBecomes(j, [j EXCEPT !.todo = @ \ {c}])
  BY DEF MarkFailed
<1> DEFINE k == [j EXCEPT !.todo = @ \ {c}]
           next == IF j.todo = {c} THEN {} ELSE {k}
<1>2. j.pc = "fail" /\ UNCHANGED <<store, excluded, call, cancel, composed>>
  BY DEF MarkFailed
<1>3. GoodJob(j) /\ LeftTyped /\ StatusTyped /\ \A p \in store : GoodProposal(p)
  BY JobTypes
<1>4. /\ GoodJob(k) /\ k.tries = j.tries /\ k.cands = j.cands /\ k.kind = j.kind
      /\ k.pc = "fail" /\ k.todo = j.todo \ {c}
  BY <1>2, <1>3 DEF GoodJob, JobFields
<1>5. "failed" \in Stages /\ "failed" \notin Progressing
  BY DEF Stages, Progressing, Ended
<1>6. LeftKept /\ StatusTyped'
  BY <1>1, <1>3, <1>5, SetSpends, StatusSet
<1>7. jobs' = (jobs \ {j}) \cup next
  BY <1>1 DEF JobBecomes, JobEnds
<1> HIDE DEF k
<1>8. FaultsHandled => PassesOn(j, next)
  <2> SUFFICES ASSUME FaultsHandled, NEW d \in Candidates, status'[d] \in Progressing, Owes(j, d)
               PROVE  (\E l \in next : Owes(l, d)) /\ status[d] \in Progressing
    <3>1. ASSUME NEW d \in Candidates, FaultsHandled, status'[d] \in Progressing, ~ Owes(j, d)
          PROVE  status[d] \in Progressing
      <4>1. d # c
        BY <1>1, <1>3, <1>5, <3>1, StatusSet
      <4>2. QED
        BY <1>1, <1>3, <1>5, <3>1, <4>1, StatusSet
    <3>2. QED
      BY <3>1 DEF PassesOn
  <2>1. d # c /\ status'[d] = status[d]
    BY <1>1, <1>3, <1>5, StatusSet
  <2>2. d \in j.todo /\ d \in j.cands
    BY <1>2 DEF Owes
  <2>3. Owes(k, d)
    BY <1>2, <1>4, <2>1, <2>2 DEF Owes
  <2>4. QED
    BY <2>1, <2>2, <2>3
<1>9. \A l \in next : GoodNext(j, l)
  BY <1>4 DEF GoodNext, Running
<1> HIDE DEF next
<1>10. Moves(j, next)
  BY <1>2, <1>3, <1>6, <1>7, <1>8, <1>9 DEF Moves, Running
<1>11. QED
  BY <1>10, JobMove

LEMMA ReportWorks ==
    ASSUME WorkInv, NEW j \in jobs, Report(j) PROVE WorkInv'
<1>1. PICK c \in j.todo :
         /\ SetStatus(c, Outcome(j, c))
         /\ IF Terminal(j) /\ j.todo = {c} THEN JobEnds(j)
            ELSE JobBecomes(j, Advance(j, {c}, "route"))
  BY DEF Report
<1> DEFINE k == Advance(j, {c}, "route")
           next == IF Terminal(j) /\ j.todo = {c} THEN {} ELSE {k}
<1>2. j.pc = "report" /\ UNCHANGED <<store, excluded, call, cancel, composed>>
  BY DEF Report
<1>3. GoodJob(j) /\ LeftTyped /\ StatusTyped /\ \A p \in store : GoodProposal(p)
  BY JobTypes
<1>4. /\ GoodJob(k) /\ k.tries = j.tries /\ k.cands = j.cands /\ k.kind = j.kind
      /\ \/ k.pc = "route" /\ k.todo = j.cands
         \/ k.pc = "report" /\ k.todo = j.todo \ {c} /\ ~ (j.todo \subseteq {c})
  <2>1. "route" \in Phases
    BY DEF Phases
  <2>2. /\ GoodJob(k) /\ k.tries = j.tries /\ k.cands = j.cands /\ k.kind = j.kind
        /\ \/ k.pc = "route" /\ k.todo = j.cands
           \/ k.pc = j.pc /\ k.todo = j.todo \ {c} /\ ~ (j.todo \subseteq {c})
    <3>1. CASE j.todo \subseteq {c}
      BY <1>3, <2>1, <3>1, Moved DEF Advance
    <3>2. CASE ~ (j.todo \subseteq {c})
      BY <1>3, <3>2 DEF Advance, GoodJob, JobFields
    <3>3. QED
      BY <3>1, <3>2
  <2>3. QED
    BY <1>2, <2>2
<1>5. /\ Outcome(j, c) \in Stages
      /\ Terminal(j) => Outcome(j, c) \notin Progressing
  BY DEF Outcome, Settled, Stages, Progressing, Ended, Terminal
<1>6. LeftKept /\ StatusTyped'
  BY <1>1, <1>3, <1>5, SetSpends, StatusSet
<1>7. jobs' = (jobs \ {j}) \cup next
  BY <1>1 DEF JobBecomes, JobEnds
<1>8. j.todo \subseteq {c} => j.todo = {c}
  OBVIOUS
<1>12. j.todo \subseteq {c} => k.pc = "route"
  BY <1>4
<1> HIDE DEF k
<1>9. FaultsHandled => PassesOn(j, next)
  <2> SUFFICES ASSUME FaultsHandled, NEW d \in Candidates, status'[d] \in Progressing
               PROVE  \/ \E l \in next : Owes(l, d)
                      \/ status[d] \in Progressing /\ ~ Owes(j, d)
    BY DEF PassesOn
  <2>1. d # c => status'[d] = status[d]
    BY <1>1, <1>3, <1>5, StatusSet
  <2>2. d = c => status'[d] = Outcome(j, c)
    BY <1>1, <1>3, <1>5, StatusSet
  <2>3. CASE ~ Terminal(j)
    <3>1. k \in next
      BY <2>3
    <3>2. CASE d \in j.cands
      <4>1. Owes(k, d)
        BY <1>4, <2>3, <3>2, OwesAll DEF Owes, Terminal
      <4>2. QED
        BY <3>1, <4>1
    <3>3. CASE d \notin j.cands
      BY <1>3, <2>1, <3>3 DEF Owes, GoodJob
    <3>4. QED
      BY <3>2, <3>3
  <2>4. CASE Terminal(j)
    <3>1. d # c
      BY <1>5, <2>2, <2>4
    <3>2. CASE Owes(j, d)
      <4>1. d \in j.todo \ {c} /\ d \in j.cands
        BY <1>2, <2>4, <3>1, <3>2 DEF Owes
      <4>2. k \in next
        BY <4>1
      <4>3. Owes(k, d)
        BY <1>4, <2>4, <4>1 DEF Owes, Terminal
      <4>4. QED
        BY <4>2, <4>3
    <3>3. QED
      BY <2>1, <3>1, <3>2
  <2>5. QED
    BY <2>3, <2>4
<1>10. \A l \in next : GoodNext(j, l)
  BY <1>4 DEF GoodNext, Running
<1> HIDE DEF next
<1>11. Moves(j, next)
  BY <1>2, <1>3, <1>6, <1>7, <1>9, <1>10 DEF Moves, Running
<1>13. QED
  BY <1>11, JobMove

\* Each candidate is routed to one of the two agents.
LEMMA RouteToAgentBWorks ==
    ASSUME WorkInv, NEW j \in jobs, RouteToAgentB(j) PROVE WorkInv'
<1>1. /\ UNCHANGED <<status, store, excluded, call, cancel, composed>>
      /\ j.pc = "route" /\ j.kind = "evidence" /\ Running(j)
  BY DEF RouteToAgentB, Running
<1>2. GoodJob(j) /\ \A p \in store : GoodProposal(p)
  BY JobTypes
<1>3. ASSUME Works, NEW c \in j.todo \cap ForAgentB(j),
             JobEnqueues(j, [j EXCEPT !.todo = @ \ {c}], Chained(j, "retrieval", {c}))
      PROVE  WorkInv'
  <2> DEFINE k == [j EXCEPT !.todo = @ \ {c}]
             new == Chained(j, "retrieval", {c})
             next == {k, new}
  <2>1. /\ GoodJob(k) /\ k.tries = j.tries /\ k.cands = j.cands /\ k.kind = j.kind
        /\ k.pc = "route" /\ k.todo = j.todo \ {c}
        /\ k.retrieval = j.retrieval /\ k.insufficient = j.insufficient
    BY <1>1, <1>2 DEF GoodJob, JobFields
  <2>2. {c} \in (SUBSET Candidates) \ {{}} /\ "retrieval" \in Kinds
    BY <1>2 DEF GoodJob, Kinds
  <2>3. GoodJob(new) /\ new.pc = "queued" /\ new.tries = 0 /\ new.cands = {c}
    BY <2>2, Fresh DEF Chained
  <2>4. jobs' = (jobs \ {j}) \cup next
    BY <1>3 DEF JobEnqueues
  <2> HIDE DEF k, new
  <2>5. \A d \in Candidates : Owes(j, d) => Owes(k, d) \/ Owes(new, d)
    <3> SUFFICES ASSUME NEW d \in Candidates, Owes(j, d), d # c PROVE Owes(k, d)
      BY <2>3, OwesAll
    <3>1. d \in j.cands /\ d \in j.todo \cup ForAgentP(j)
      BY <1>1 DEF Owes
    <3>2. ForAgentP(k) = ForAgentP(j)
      BY <2>1 DEF ForAgentP, ForAgentB
    <3>3. QED
      BY <2>1, <3>1, <3>2 DEF Owes
  <2>6. \A l \in next : GoodNext(j, l)
    BY <2>1, <2>3 DEF GoodNext, Running
  <2>7. \A d \in Candidates : Owes(j, d) => \E l \in next : Owes(l, d)
    BY <2>5
  <2> HIDE DEF next
  <2>8. QuietMoves(j, next, "enqueue")
    BY <1>1, <1>2, <1>3, <2>4, <2>6, <2>7 DEF QuietMoves
  <2>9. QED
    BY <2>8, QuietJobMove
<1>4. CASE Fails("enqueue") /\ Raise(j)
  BY <1>1, <1>4, RaiseWorks
<1>5. QED
  BY <1>3, <1>4 DEF RouteToAgentB

\* A job hands all it still owes to the next one.
LEMMA HandOverWorks ==
    ASSUME WorkInv, NEW j \in jobs, Running(j), Works,
           NEW kind \in Kinds, NEW cands \in (SUBSET Candidates) \ {{}},
           JobHandsOver(j, Chained(j, kind, cands)),
           UNCHANGED <<status, store, excluded, call, cancel>>,
           \A d \in Candidates : Owes(j, d) => d \in cands
    PROVE  WorkInv'
<1> DEFINE new == Chained(j, kind, cands)
<1>1. GoodJob(new) /\ new.pc = "queued" /\ new.tries = 0 /\ new.cands = cands
  BY Fresh DEF Chained
<1>2. jobs' = (jobs \ {j}) \cup {new} /\ \A p \in store : GoodProposal(p)
  BY JobTypes DEF JobHandsOver
<1> HIDE DEF new
<1>3. \A d \in Candidates : Owes(j, d) => Owes(new, d)
  BY <1>1, OwesAll
<1>4. QuietMoves(j, {new}, "enqueue")
  BY <1>1, <1>2, <1>3 DEF QuietMoves, GoodNext, Running
<1>5. QED
  BY <1>4, QuietJobMove

LEMMA RouteToAgentPWorks ==
    ASSUME WorkInv, NEW j \in jobs, RouteToAgentP(j) PROVE WorkInv'
<1>1. /\ UNCHANGED <<status, store, excluded, call, cancel, composed>>
      /\ j.pc = "route" /\ j.kind = "evidence" /\ Running(j)
      /\ j.todo \cap ForAgentB(j) = {}
  BY DEF RouteToAgentP, Running
<1>2. GoodJob(j) /\ \A p \in store : GoodProposal(p)
  BY JobTypes
<1>3. \A d \in Candidates : Owes(j, d) => d \in ForAgentP(j)
  BY <1>1 DEF Owes, ForAgentP
<1>4. CASE Works /\ ForAgentP(j) = {} /\ JobEnds(j)
  <2>1. QuietMoves(j, {}, "enqueue")
    BY <1>1, <1>2, <1>3, <1>4 DEF QuietMoves, JobEnds
  <2>2. QED
    BY <2>1, QuietJobMove
<1>5. CASE Works /\ ForAgentP(j) # {}
             /\ JobHandsOver(j, Chained(j, "batch_proposal", ForAgentP(j)))
  <2>1. ForAgentP(j) \in (SUBSET Candidates) \ {{}} /\ "batch_proposal" \in Kinds
    BY <1>2, <1>5 DEF GoodJob, ForAgentP, Kinds
  <2>2. QED
    BY <1>1, <1>3, <1>5, <2>1, HandOverWorks
<1>6. CASE Fails("enqueue") /\ Raise(j)
  BY <1>1, <1>6, RaiseWorks
<1>7. QED
  BY <1>4, <1>5, <1>6 DEF RouteToAgentP

LEMMA RouteRetrievedWorks ==
    ASSUME WorkInv, NEW j \in jobs, RouteRetrieved(j) PROVE WorkInv'
<1>1. /\ UNCHANGED <<status, store, excluded, call, cancel, composed>>
      /\ Running(j)
  BY DEF RouteRetrieved, Running
<1>2. GoodJob(j)
  BY JobTypes
<1>3. CASE Works /\ JobHandsOver(j, Chained(j, "proposal", j.cands))
  <2>1. j.cands \in (SUBSET Candidates) \ {{}} /\ "proposal" \in Kinds
    BY <1>2 DEF GoodJob, Kinds
  <2>2. QED
    BY <1>1, <1>3, <2>1, HandOverWorks DEF Owes
<1>4. CASE Fails("enqueue") /\ Raise(j)
  BY <1>1, <1>4, RaiseWorks
<1>5. QED
  BY <1>3, <1>4 DEF RouteRetrieved

LEMMA JobTimesOutWorks ==
    ASSUME WorkInv, NEW j \in jobs, JobTimesOut(j) PROVE WorkInv'
<1>1. /\ UNCHANGED <<status, store, excluded, call, cancel, composed>>
      /\ Running(j) /\ Fails("timeout") /\ jobs' = (jobs \ {j}) \cup {}
  BY DEF JobTimesOut, JobEnds
<1>2. ~ FaultsHandled /\ \A p \in store : GoodProposal(p)
  BY <1>1, JobTypes DEF Fails, FaultsHandled
<1>3. QuietMoves(j, {}, "timeout")
  BY <1>1, <1>2 DEF QuietMoves
<1>4. QED
  BY <1>3, QuietJobMove

LEMMA ComposeWorks ==
    ASSUME WorkInv, NEW j \in jobs, Compose(j) PROVE WorkInv'
<1>1. /\ UNCHANGED <<status, excluded, call, cancel>>
      /\ j.pc = "agent" /\ Running(j)
  BY DEF Compose, Running
<1>2. GoodJob(j) /\ \A p \in store : GoodProposal(p)
  BY JobTypes
<1>3. ASSUME Fails("agent"), Raise(j), UNCHANGED store
      PROVE  WorkInv'
  BY <1>1, <1>3, RaiseWorks
<1>4. ASSUME Works, NEW id \in Clusters[j.cands], NEW class \in Classes \cup {None},
             JobBecomes(j, [Advance(j, id, "report") EXCEPT !.results =
                            [c \in Candidates |-> IF c \in id THEN class ELSE @[c]]]),
             UNCHANGED store \/ (class \in Classes /\ store' = Created(id, class))
      PROVE  WorkInv'
  <2> DEFINE on == Advance(j, id, "report")
             results == [c \in Candidates |-> IF c \in id THEN class ELSE on.results[c]]
             k == [on EXCEPT !.results = results]
  <2>1. "report" \in Phases
    BY DEF Phases
  <2>2. /\ GoodJob(on) /\ on.cands = j.cands /\ on.tries = j.tries
        /\ \/ on.pc = "report" /\ on.todo = on.cands
           \/ on.pc = "agent"
    BY <1>1, <1>2, <2>1, Advanced
  <2> HIDE DEF on
  <2>3. results \in [Candidates -> Classes \cup {None}]
    BY <1>4, <2>2 DEF GoodJob
  <2> HIDE DEF results
  <2>4. /\ GoodJob(k) /\ k.cands = j.cands /\ k.tries = j.tries
        /\ k.pc = "agent" \/ (k.pc = "report" /\ k.todo = k.cands)
    BY <2>2, <2>3 DEF GoodJob, JobFields
  <2>5. jobs' = (jobs \ {j}) \cup {k}
    BY <1>4 DEF JobBecomes, on, results
  <2> HIDE DEF k
  <2>6. \A c \in Candidates : Owes(j, c) => Owes(k, c)
    BY <2>4, OwesAll DEF Owes
  <2>7. id \in (SUBSET Candidates) \ {{}}
    BY <1>2, <1>4, ClusterOfCandidates DEF GoodJob
  <2>8. \A p \in store' : GoodProposal(p)
    <3>1. class \in Classes => GoodProposal(Proposal(id, class, "pending"))
      BY <2>7 DEF GoodProposal, Proposal
    <3>2. QED
      BY <1>2, <1>4, <3>1 DEF Created
  <2>9. GoodNext(j, k)
    BY <2>4 DEF GoodNext, Running
  <2>10. QuietMoves(j, {k}, "agent")
    BY <1>1, <1>4, <2>5, <2>6, <2>8, <2>9 DEF QuietMoves
  <2>11. QED
    BY <2>10, QuietJobMove
<1>5. CASE Fails("agent") /\ Raise(j) /\ UNCHANGED store
  BY <1>3, <1>5
<1>6. QED
  BY <1>4, <1>5 DEF Compose

\* A worker that stops leaves each job to be started again, with a fault paid.
LEMMA WorkerStopsWorks ==
    ASSUME WorkInv, WorkerStops PROVE WorkInv'
<1>1. /\ UNCHANGED <<status, store, excluded, call, cancel, composed>>
      /\ jobs' = {Restarted(j) : j \in jobs}
      /\ Fails("worker")
  BY DEF WorkerStops
<1>2. Parts /\ LeftTyped
  BY JobTypes
<1>3. LeftKept
  BY <1>1, <1>2, Spent
<1>4. ASSUME NEW j \in jobs
      PROVE  LET k == Restarted(j)
             IN  /\ GoodJob(k) /\ k.pc = "queued" /\ k.tries = j.tries
                 /\ k.cands = j.cands
  <2>1. GoodJob(j) /\ "queued" \in Phases
    BY JobTypes DEF Phases
  <2> DEFINE on == MoveTo(j, "queued")
  <2>2. GoodJob(on) /\ on.pc = "queued" /\ on.tries = j.tries /\ on.cands = j.cands
    BY <2>1, Moved
  <2> HIDE DEF on
  <2>3. LET k == [on EXCEPT !.insufficient = {}, !.results = [c \in Candidates |-> None]]
        IN  GoodJob(k) /\ k.pc = "queued" /\ k.tries = j.tries /\ k.cands = j.cands
    BY <2>2 DEF GoodJob, JobFields
  <2>4. QED
    BY <2>3 DEF Restarted, on
<1>5. TypeInv'
  <2>1. \A k \in jobs' : GoodJob(k)
    BY <1>1, <1>4
  <2>2. Parts'
    BY <1>1, <1>2, <1>3, <2>1 DEF Parts, LeftKept, StatusTyped, GoodCall, CallTyped, GoodCancel
  <2>3. QED
    BY <2>2, TypePartsNext
<1>6. StartsAccounted'
  <2>1. "worker" \in left'.kinds /\ left'.faults = left.faults - 1 /\ left'.allowed = left.allowed
    BY <1>1, <1>2 DEF Fails, LeftTyped
  <2>2. ASSUME NEW j \in jobs
        PROVE  Restarted(j).tries <= (left'.allowed - left'.faults)
    <3>1. j.tries \in Nat /\ j.tries <= (left.allowed - left.faults) + 1
      <4>1. /\ j.tries <= (left.allowed - left.faults) + (IF Running(j) THEN 1 ELSE 0)
            /\ j.tries \in Nat
        BY JobTypes DEF WorkInv, StartsAccounted, GoodJob
      <4>2. QED
        BY <1>2, <4>1 DEF LeftTyped
    <3>2. QED
      BY <1>2, <1>4, <2>1, <3>1 DEF LeftTyped
  <2>3. \A k \in jobs' : ~ Running(k)
    BY <1>1, <1>4 DEF Running
  <2>4. left'.allowed - left'.faults \in Int
    BY <1>3 DEF LeftKept, LeftTyped
  <2>5. \A k \in jobs' : k.tries \in Nat /\ k.tries <= (left'.allowed - left'.faults) + 0
    BY <1>1, <1>4, <2>2, <2>4 DEF GoodJob
  <2>6. QED
    BY <2>1, <2>3, <2>5 DEF StartsAccounted
<1>7. WorkedOnHasJob'
  <2> SUFFICES ASSUME FaultsHandled, NEW c \in Candidates, status[c] \in Progressing
               PROVE  \E k \in jobs' : Owes(k, c)
    BY <1>1, <1>3, HandledStays DEF WorkedOnHasJob
  <2>1. PICK j \in jobs : Owes(j, c)
    BY DEF WorkInv, WorkedOnHasJob
  <2>2. Owes(Restarted(j), c)
    BY <1>4, <2>1, OwesAll DEF Owes
  <2>3. QED
    BY <1>1, <2>2
<1>8. QED
  BY <1>5, <1>6, <1>7 DEF WorkInv

(***************************************************************************)
(* Requests and reviewers.                                                 *)
(***************************************************************************)
\* A step that leaves statuses and jobs alone.
LEMMA RequestMove ==
    ASSUME WorkInv, UNCHANGED <<status, jobs>>, LeftKept, GoodCall', GoodCancel',
           excluded' \subseteq SUBSET Candidates, \A p \in store' : GoodProposal(p)
    PROVE  WorkInv'
<1>1. Parts
  BY JobTypes
<1>2. TypeInv'
  <2>1. Parts'
    BY <1>1 DEF Parts, StatusTyped, LeftKept
  <2>2. QED
    BY <2>1, TypePartsNext
<1>3. StartsAccounted'
  <2>1. \A j \in jobs : j.tries \in Nat
    BY JobTypes DEF GoodJob
  <2>2. LeftTyped
    BY JobTypes
  <2>3. ASSUME NEW j \in jobs
        PROVE  /\ j.tries <= (left'.allowed - left'.faults) + (IF Running(j) THEN 1 ELSE 0)
               /\ "worker" \notin left'.kinds /\ ~ Running(j) => j.tries = 0
    <3>1. j.tries <= (left.allowed - left.faults) + (IF Running(j) THEN 1 ELSE 0)
      BY DEF WorkInv, StartsAccounted
    <3>2. CASE Running(j)
      BY <2>1, <2>2, <3>1, <3>2 DEF LeftKept, LeftTyped
    <3>3. CASE ~ Running(j)
      BY <2>1, <2>2, <3>1, <3>3 DEF LeftKept, LeftTyped, WorkInv, StartsAccounted
    <3>4. QED
      BY <3>2, <3>3
  <2>4. QED
    BY <2>3 DEF StartsAccounted
<1>4. WorkedOnHasJob'
  BY HandledStays DEF WorkInv, WorkedOnHasJob
<1>5. QED
  BY <1>2, <1>3, <1>4 DEF WorkInv

LEMMA EndCallGood == ASSUME call' = NoCall PROVE GoodCall'
BY DEF NoCall, GoodCall, CallTyped

LEMMA CallGoesOn ==
    ASSUME GoodCall, NEW pc \in {"existing", "archive", "load"},
           call.pc \in {"existing", "archive", "load"},
           call' = [call EXCEPT !.pc = pc]
    PROVE  GoodCall'
BY DEF GoodCall, CallTyped

LEMMA StartRunWorks == ASSUME WorkInv, StartRun PROVE WorkInv'
<1>1. Parts /\ GoodCall /\ GoodCancel /\ LeftTyped
  BY JobTypes DEF Parts
<1>2. UNCHANGED <<status, jobs, store, excluded, cancel>>
  BY DEF StartRun
<1>3. LeftKept
  BY <1>1 DEF StartRun, LeftKept, LeftTyped
<1>4. GoodCall'
  BY DEF StartRun, CallBecomes, NoCall, GoodCall, CallTyped
<1>5. GoodCancel'
  BY <1>1, <1>2 DEF GoodCancel
<1>6. QED
  BY <1>1, <1>2, <1>3, <1>4, <1>5, RequestMove DEF Parts

LEMMA CheckExistingWorks == ASSUME WorkInv, CheckExisting PROVE WorkInv'
<1>1. Parts /\ GoodCall /\ GoodCancel /\ LeftTyped
  BY JobTypes DEF Parts
<1>2. UNCHANGED <<status, jobs, store, excluded, cancel>> /\ call.pc = "existing"
  BY DEF CheckExisting
<1>3. LeftKept
  BY <1>1, Spent DEF CheckExisting
<1>4. GoodCall'
  <2>1. \/ call' = NoCall
        \/ call' = [call EXCEPT !.pc = "load"]
        \/ call' = [call EXCEPT !.pc = "archive"]
    BY DEF CheckExisting, EndCall, CallBecomes
  <2>2. QED
    BY <1>1, <1>2, <2>1, EndCallGood, CallGoesOn
<1>5. GoodCancel'
  BY <1>1, <1>2 DEF GoodCancel
<1>6. QED
  BY <1>1, <1>2, <1>3, <1>4, <1>5, RequestMove DEF Parts

LEMMA ArchiveExistingWorks == ASSUME WorkInv, ArchiveExisting PROVE WorkInv'
<1>1. Parts /\ GoodCall /\ GoodCancel /\ LeftTyped
  BY JobTypes DEF Parts
<1>2. /\ UNCHANGED <<status, jobs, excluded, cancel, left>>
      /\ call.pc = "archive" /\ call' = [call EXCEPT !.pc = "load"] /\ store' \subseteq store
  BY DEF ArchiveExisting, CallBecomes
<1>3. LeftKept
  BY <1>1, <1>2 DEF LeftKept, LeftTyped
<1>4. GoodCall'
  BY <1>1, <1>2, CallGoesOn
<1>5. GoodCancel'
  BY <1>1, <1>2 DEF GoodCancel
<1>6. QED
  BY <1>1, <1>2, <1>3, <1>4, <1>5, RequestMove DEF Parts

LEMMA LoadCandidatesWorks == ASSUME WorkInv, LoadCandidates PROVE WorkInv'
<1>1. Parts /\ GoodCall /\ GoodCancel /\ LeftTyped
  BY JobTypes DEF Parts
<1>2. UNCHANGED <<status, jobs, store, excluded, cancel>> /\ call.pc = "load"
  BY DEF LoadCandidates
<1>3. LeftKept
  BY <1>1, Spent DEF LoadCandidates
<1>4. PICK ids, known :
         LET rest == Selected(ids, known)
         IN  IF rest = {} THEN EndCall
             ELSE CallBecomes([call EXCEPT !.pc = "clear", !.cands = rest, !.todo = rest])
  BY DEF LoadCandidates
<1> DEFINE rest == Selected(ids, known)
<1>5. rest \subseteq Candidates
  BY DEF Selected
<1> HIDE DEF rest
<1>6. GoodCall'
  <2>1. CASE rest = {}
    BY <1>4, <2>1, EndCallGood DEF rest, EndCall, CallBecomes
  <2>2. CASE rest # {}
    <3>1. call' = [call EXCEPT !.pc = "clear", !.cands = rest, !.todo = rest]
      BY <1>4, <2>2 DEF rest, CallBecomes
    <3>2. QED
      BY <1>1, <1>2, <1>5, <2>2, <3>1 DEF GoodCall, CallTyped
  <2>3. QED
    BY <2>1, <2>2
<1>7. GoodCancel'
  BY <1>1, <1>2 DEF GoodCancel
<1>8. QED
  BY <1>1, <1>2, <1>3, <1>6, <1>7, RequestMove DEF Parts

\* The statuses a request writes are not of work in progress.
LEMMA RestMove ==
    ASSUME WorkInv, NEW c, NEW stage \in (Stages \cup {None}) \ Progressing,
           SetStatus(c, stage), GoodCall', GoodCancel', UNCHANGED <<jobs, store, excluded>>
    PROVE  WorkInv'
<1>1. Parts /\ LeftTyped /\ StatusTyped
  BY JobTypes
<1>2. LeftKept /\ StatusTyped'
  BY <1>1, SetSpends, StatusSet
<1>3. TypeInv'
  <2>1. Parts'
    BY <1>1, <1>2 DEF Parts, LeftKept
  <2>2. QED
    BY <2>1, TypePartsNext
<1>4. StartsAccounted'
  <2>1. ASSUME NEW j \in jobs
        PROVE  /\ j.tries <= (left'.allowed - left'.faults) + (IF Running(j) THEN 1 ELSE 0)
               /\ "worker" \notin left'.kinds /\ ~ Running(j) => j.tries = 0
    <3>1. /\ j.tries <= (left.allowed - left.faults) + (IF Running(j) THEN 1 ELSE 0)
          /\ j.tries \in Nat
      BY JobTypes DEF WorkInv, StartsAccounted, GoodJob
    <3>2. CASE Running(j)
      BY <1>1, <1>2, <3>1, <3>2 DEF LeftKept, LeftTyped
    <3>3. CASE ~ Running(j)
      BY <1>1, <1>2, <3>1, <3>3 DEF LeftKept, LeftTyped, WorkInv, StartsAccounted
    <3>4. QED
      BY <3>2, <3>3
  <2>2. QED
    BY <2>1 DEF StartsAccounted
<1>5. WorkedOnHasJob'
  <2> SUFFICES ASSUME FaultsHandled, NEW d \in Candidates, status'[d] \in Progressing
               PROVE  \E j \in jobs : Owes(j, d)
    BY <1>2, HandledStays DEF WorkedOnHasJob
  <2>1. d # c
    BY <1>1, StatusSet
  <2>2. status'[d] = status[d]
    BY <1>1, <2>1, StatusSet
  <2>3. QED
    BY <2>2 DEF WorkInv, WorkedOnHasJob
<1>6. QED
  BY <1>3, <1>4, <1>5 DEF WorkInv

LEMMA ClearStatusWorks == ASSUME WorkInv, ClearStatus PROVE WorkInv'
<1>1. GoodCall /\ GoodCancel
  BY JobTypes DEF Parts
<1>2. PICK c \in call.todo :
         /\ SetStatus(c, None)
         /\ call' = [call EXCEPT !.todo = @ \ {c},
                                 !.pc = IF call.todo = {c} THEN "enqueue" ELSE @]
  BY DEF ClearStatus, CallBecomes
<1>3. call.pc = "clear" /\ UNCHANGED <<jobs, store, excluded, cancel>>
  BY DEF ClearStatus
<1>4. 1 \in DOMAIN BatchList[call.cands]
  <2>1. call.cands \in (SUBSET Candidates) \ {{}}
    BY <1>1, <1>3 DEF GoodCall, CallTyped
  <2>2. QED
    BY <2>1, BatchesFit
<1>5. GoodCall'
  BY <1>1, <1>2, <1>3, <1>4 DEF GoodCall, CallTyped
<1>6. GoodCancel'
  BY <1>1, <1>3 DEF GoodCancel
<1>7. None \in (Stages \cup {None}) \ Progressing
  BY ConstantsAssumption
<1>8. QED
  BY <1>2, <1>3, <1>5, <1>6, <1>7, RestMove

LEMMA EnqueueBatchWorks == ASSUME WorkInv, EnqueueBatch PROVE WorkInv'
<1> DEFINE batches == BatchList[call.cands]
           job == NewJob("evidence", call.gen, call.retrieval, batches[call.i])
<1>1. Parts /\ GoodCall /\ GoodCancel /\ LeftTyped
  BY JobTypes DEF Parts
<1>2. call.pc = "enqueue" /\ UNCHANGED <<status, store, excluded, cancel>>
  BY DEF EnqueueBatch
<1>3. call.cands \in (SUBSET Candidates) \ {{}} /\ call.i \in DOMAIN batches
  BY <1>1, <1>2 DEF GoodCall, CallTyped
<1>4. batches \in Seq((SUBSET Candidates) \ {{}})
  BY <1>3, BatchesFit
<1> HIDE DEF batches
<1>5. batches[call.i] \in (SUBSET Candidates) \ {{}} /\ "evidence" \in Kinds
  BY <1>3, <1>4 DEF Kinds
<1>6. GoodJob(job) /\ job.pc = "queued" /\ job.tries = 0
  BY <1>5, Fresh
<1>7. jobs \subseteq jobs' /\ jobs' \subseteq jobs \cup {job}
  BY DEF EnqueueBatch, batches
<1> HIDE DEF job
<1>8. LeftKept
  <2>1. Works \/ Fails("enqueue")
    BY DEF EnqueueBatch
  <2>2. QED
    BY <1>1, <2>1, Spent
<1>9. GoodCall'
  <2>1. \/ call' = NoCall
        \/ call.i # Len(batches) /\ call' = [call EXCEPT !.i = @ + 1]
    BY DEF EnqueueBatch, EndCall, CallBecomes, batches
  <2>2. ASSUME call.i # Len(batches), call' = [call EXCEPT !.i = @ + 1]
        PROVE  GoodCall'
    <3>1. call.i + 1 \in DOMAIN batches
      BY <1>3, <1>4, <2>2
    <3>2. QED
      BY <1>1, <1>2, <1>3, <2>2, <3>1 DEF GoodCall, CallTyped, batches
  <2>3. QED
    BY <2>1, <2>2, EndCallGood
<1>10. TypeInv'
  <2>1. \A k \in jobs' : GoodJob(k)
    BY <1>6, <1>7, JobTypes
  <2>2. GoodCancel'
    BY <1>1, <1>2 DEF GoodCancel
  <2>3. Parts'
    BY <1>1, <1>2, <1>8, <1>9, <2>1, <2>2 DEF Parts, LeftKept, StatusTyped
  <2>4. QED
    BY <2>3, TypePartsNext
<1>11. StartsAccounted'
  <2>1. ASSUME NEW j \in jobs'
        PROVE  /\ j.tries <= (left'.allowed - left'.faults) + (IF Running(j) THEN 1 ELSE 0)
               /\ "worker" \notin left'.kinds /\ ~ Running(j) => j.tries = 0
    <3>1. CASE j \in jobs
      <4>1. /\ j.tries <= (left.allowed - left.faults) + (IF Running(j) THEN 1 ELSE 0)
            /\ j.tries \in Nat
        BY <3>1, JobTypes DEF WorkInv, StartsAccounted, GoodJob
      <4>2. CASE Running(j)
        BY <1>1, <1>8, <4>1, <4>2 DEF LeftKept, LeftTyped
      <4>3. CASE ~ Running(j)
        BY <1>1, <1>8, <3>1, <4>1, <4>3 DEF LeftKept, LeftTyped, WorkInv, StartsAccounted
      <4>4. QED
        BY <4>2, <4>3
    <3>2. CASE j = job
      BY <1>6, <1>8, <3>2 DEF LeftKept, LeftTyped
    <3>3. QED
      BY <1>7, <3>1, <3>2
  <2>2. QED
    BY <2>1 DEF StartsAccounted
<1>12. WorkedOnHasJob'
  BY <1>2, <1>7, <1>8, HandledStays DEF WorkInv, WorkedOnHasJob
<1>13. QED
  BY <1>10, <1>11, <1>12 DEF WorkInv

LEMMA ApiCrashWorks == ASSUME WorkInv, ApiCrash PROVE WorkInv'
<1>1. Parts /\ LeftTyped
  BY JobTypes
<1>2. /\ UNCHANGED <<status, jobs, store, excluded>>
      /\ call' = NoCall /\ cancel' = NoCancel /\ Fails("api")
  BY DEF ApiCrash
<1>3. LeftKept
  BY <1>1, <1>2, Spent
<1>4. GoodCancel'
  BY <1>2 DEF NoCancel, GoodCancel
<1>5. QED
  BY <1>1, <1>2, <1>3, <1>4, EndCallGood, RequestMove DEF Parts

LEMMA CancelWorks ==
    ASSUME WorkInv, StartCancel \/ ReadForCancel \/ FinishCancel
    PROVE  WorkInv'
<1>1. Parts /\ LeftTyped /\ GoodCall /\ GoodCancel
  BY JobTypes DEF Parts
<1>2. UNCHANGED <<status, jobs, store, excluded, call>>
  BY DEF StartCancel, ReadForCancel, FinishCancel
<1>3. LeftKept
  <2>1. CASE StartCancel
    BY <1>1, <2>1 DEF StartCancel, LeftKept, LeftTyped
  <2>2. CASE ReadForCancel
    BY <1>1, <2>2, Spent DEF ReadForCancel
  <2>3. CASE FinishCancel
    BY <1>1, <2>3 DEF FinishCancel, LeftKept, LeftTyped
  <2>4. QED
    BY <2>1, <2>2, <2>3
<1>4. GoodCancel'
  <2>1. CASE StartCancel
    BY <2>1 DEF StartCancel, NoCancel, GoodCancel
  <2>2. CASE ReadForCancel
    BY <1>1, <2>2 DEF ReadForCancel, GoodCancel
  <2>3. CASE FinishCancel
    BY <2>3 DEF FinishCancel, NoCancel, GoodCancel
  <2>4. QED
    BY <2>1, <2>2, <2>3
<1>5. GoodCall'
  BY <1>1, <1>2 DEF GoodCall, CallTyped
<1>6. QED
  BY <1>1, <1>2, <1>3, <1>4, <1>5, RequestMove DEF Parts

LEMMA MarkCancelledWorks == ASSUME WorkInv, MarkCancelled PROVE WorkInv'
<1>1. GoodCall /\ GoodCancel
  BY JobTypes DEF Parts
<1>2. /\ UNCHANGED <<jobs, store, excluded, call>> /\ SetStatus(cancel.cand, "cancelled")
      /\ cancel' = [cancel EXCEPT !.pc = "scan", !.cand = None]
  BY DEF MarkCancelled
<1>3. GoodCall'
  BY <1>1, <1>2 DEF GoodCall, CallTyped
<1>4. GoodCancel'
  BY <1>1, <1>2 DEF GoodCancel
<1>5. "cancelled" \in (Stages \cup {None}) \ Progressing
  BY DEF Stages, Ended, Progressing
<1>6. QED
  BY <1>2, <1>3, <1>4, <1>5, RestMove

LEMMA ReviewWorks == ASSUME WorkInv, Review PROVE WorkInv'
<1>1. Parts /\ LeftTyped /\ GoodCall /\ GoodCancel
  BY JobTypes DEF Parts
<1>2. UNCHANGED <<status, jobs, call, cancel>>
  BY DEF Review
<1>3. LeftKept
  BY <1>1 DEF Review, LeftKept, LeftTyped
<1>4. PICK p \in store, state \in {"rejected", "excluded", "executed"} :
         /\ store' = (store \ {p}) \cup {[p EXCEPT !.state = state]}
         /\ excluded' = IF state = "excluded" THEN excluded \cup {p.of} ELSE excluded
  BY DEF Review
<1>5. GoodProposal(p) /\ GoodProposal([p EXCEPT !.state = state])
  <2>1. GoodProposal(p)
    BY JobTypes
  <2>2. QED
    BY <2>1 DEF GoodProposal
<1>6. \A q \in store' : GoodProposal(q)
  BY <1>1, <1>4, <1>5 DEF Parts
<1>7. excluded' \subseteq SUBSET Candidates
  BY <1>1, <1>4, <1>5 DEF Parts, GoodProposal
<1>8. GoodCall' /\ GoodCancel'
  BY <1>1, <1>2 DEF GoodCall, CallTyped, GoodCancel
<1>9. QED
  BY <1>2, <1>3, <1>6, <1>7, <1>8, RequestMove

\* WorkInv holds in every reachable state.
THEOREM WorkInvariance == Spec => []WorkInv
<1>1. Init => WorkInv
  <2> SUFFICES ASSUME Init PROVE WorkInv
    OBVIOUS
  <2>1. LeftTyped
    BY ConstantsAssumption DEF Init, LeftTyped
  <2>2. Parts
    BY <2>1 DEF Init, Parts, StatusTyped, GoodCall, CallTyped, NoCall, GoodCancel, NoCancel
  <2>3. StartsAccounted
    BY DEF Init, StartsAccounted
  <2>4. WorkedOnHasJob
    BY ConstantsAssumption DEF Init, WorkedOnHasJob
  <2>5. QED
    BY <2>2, <2>3, <2>4, TypeParts DEF WorkInv
<1>2. WorkInv /\ [Next]_vars => WorkInv'
  <2> SUFFICES ASSUME WorkInv, [Next]_vars PROVE WorkInv'
    OBVIOUS
  <2>1. ASSUME NEW j \in jobs, JobStep(j) PROVE WorkInv'
    BY <2>1, StartJobWorks, GivenUpWorks, MarkRunningWorks, AssembleEvidenceWorks,
       RetrieveMoreWorks, ComposeWorks, ReportWorks, RouteToAgentBWorks,
       RouteToAgentPWorks, RouteRetrievedWorks, MarkFailedWorks
       DEF JobStep
  <2>2. ASSUME NEW j \in jobs, JobTimesOut(j) PROVE WorkInv'
    BY <2>2, JobTimesOutWorks
  <2>3. CASE WorkerStops
    BY <2>3, WorkerStopsWorks
  <2>4. CASE StartRun \/ RunStep
    BY <2>4, StartRunWorks, CheckExistingWorks, ArchiveExistingWorks, LoadCandidatesWorks,
       ClearStatusWorks, EnqueueBatchWorks DEF RunStep
  <2>5. CASE StartCancel \/ CancelStep
    BY <2>5, CancelWorks, MarkCancelledWorks DEF CancelStep
  <2>6. CASE ApiCrash \/ Review
    BY <2>6, ApiCrashWorks, ReviewWorks
  <2>7. CASE UNCHANGED vars
    BY <2>7 DEF vars, WorkInv, TypeInv, TypeOK, StartsAccounted, WorkedOnHasJob, FaultsHandled,
                LeftTyped, CallTyped
  <2>8. QED
    BY <2>1, <2>2, <2>3, <2>4, <2>5, <2>6, <2>7 DEF Next
<1>3. QED
  BY <1>1, <1>2, PTL DEF Spec

\* Every variable keeps its type.
THEOREM TypeCorrect == Spec => []TypeOK
<1>1. WorkInv => TypeOK
  BY DEF WorkInv, TypeInv
<1>2. QED
  BY <1>1, WorkInvariance, PTL

\* A candidate shown as being worked on has a job that will move it on, through
\* failed enqueues, failing agents, stopping processes, cancels and later runs.
THEOREM NobodyIsForgotten == Spec => []WorkedOnHasJob
<1>1. WorkInv => WorkedOnHasJob
  BY DEF WorkInv
<1>2. QED
  BY <1>1, WorkInvariance, PTL

(***************************************************************************)
(* NodeSafe.                                                                *)
(***************************************************************************)
\* A job that goes on with what another was enqueued for.
GoesOn(k, j) ==
    /\ k.gen = j.gen /\ k.retrieval = j.retrieval
    /\ k.retrieval \/ k.cands = j.cands

\* A job for a batch of the request.
Asked(k) ==
    /\ call.pc = "enqueue"
    /\ k.gen = call.gen /\ k.retrieval = call.retrieval
    /\ k.cands \in Range(BatchList[call.cands])

\* A proposal about a cluster of a job.
Made(p, j) ==
    /\ p.gen = j.gen /\ p.retrieval = j.retrieval
    /\ p.of \in Clusters[j.cands]

\* What the request is about stays while it goes from one stage to the next.
Together(pc, next) ==
    \/ pc = next
    \/ {pc, next} \subseteq {"existing", "archive", "load"}
    \/ {pc, next} \subseteq {"clear", "enqueue"}

Follows(k) ==
    \/ k.pc = "idle"
    \/ /\ call.pc # "idle" /\ Together(call.pc, k.pc)
       /\ k.gen = call.gen /\ k.retrieval = call.retrieval /\ k.cands = call.cands

\* The bounds a request draws on are those it drew on.
SameRequests == left'.gen = left.gen /\ left'.retrieval = left.retrieval

SamePlan ==
    /\ SameRequests
    /\ Follows(call')
    /\ \A k \in jobs' : Asked(k) \/ \E j \in jobs : GoesOn(k, j)
    /\ \A p \in composed' : p \in composed \/ \E j \in jobs : Made(p, j)

LEMMA PlanStays ==
    ASSUME PlanInv, SamePlan
    PROVE  PlanInv'
<1>1. PICK plan \in [1 .. left.gen -> [retrieval : BOOLEAN, cands : SUBSET Candidates]] : Planned(plan)
  BY DEF PlanInv
<1>2. left'.gen = left.gen /\ left'.retrieval = left.retrieval /\ Follows(call')
  BY DEF SamePlan, SameRequests
<1>3. ASSUME NEW k \in jobs'
      PROVE  /\ k.gen \in 1 .. left.gen
             /\ k.retrieval = plan[k.gen].retrieval
             /\ k.retrieval \/ k.cands \in Range(BatchList[plan[k.gen].cands])
             /\ call.pc \in {"existing", "archive", "load"} => k.gen # left.gen
  <2>1. CASE Asked(k)
    BY <1>1, <2>1 DEF Asked, Planned, PlanInv
  <2>2. CASE \E j \in jobs : GoesOn(k, j)
    BY <1>1, <2>2 DEF GoesOn, Planned
  <2>3. QED
    BY <2>1, <2>2 DEF SamePlan
<1>4. ASSUME NEW p \in composed'
      PROVE  /\ p.gen \in 1 .. left.gen
             /\ p.retrieval = plan[p.gen].retrieval
             /\ p.retrieval \/ \E batch \in Range(BatchList[plan[p.gen].cands]) :
                                  p.of \in Clusters[batch]
             /\ call.pc \in {"existing", "archive", "load"} => p.gen # left.gen
  <2>1. CASE p \in composed
    BY <1>1, <2>1 DEF Planned
  <2>2. CASE \E j \in jobs : Made(p, j)
    BY <1>1, <2>2 DEF Made, Planned
  <2>3. QED
    BY <2>1, <2>2 DEF SamePlan
<1>5. /\ call'.pc # "idle" => /\ left.gen # 0 /\ call'.gen = left.gen
                              /\ call'.retrieval = plan[left.gen].retrieval
      /\ call'.pc \in {"existing", "archive", "load"} =>
            call.pc \in {"existing", "archive", "load"}
      /\ call'.pc \in {"clear", "enqueue"} => call'.cands = plan[left.gen].cands
  BY <1>1, <1>2 DEF Follows, Together, Planned
<1>6. Planned(plan)'
  BY <1>2, <1>3, <1>4, <1>5 DEF Planned
<1>7. QED
  BY <1>1, <1>2, <1>6 DEF PlanInv

\* The calls a step makes leave the requests to come as they were.
LEMMA RequestsStay ==
    ASSUME LeftTyped, NEW kind, Works \/ Fails(kind)
    PROVE  SameRequests
BY DEF LeftTyped, SameRequests, Works, Fails

LEMMA SetRequestsStay ==
    ASSUME LeftTyped, NEW c, NEW stage, SetStatus(c, stage)
    PROVE  SameRequests
<1>1. Works \/ Fails("redis")
  BY DEF SetStatus
<1>2. QED
  BY <1>1, RequestsStay

\* A step of a job that is not about proposals.
LEMMA JobsGoOn ==
    ASSUME PlanInv, SameRequests, UNCHANGED <<call, composed>>,
           \A k \in jobs' : k \in jobs \/ \E j \in jobs : GoesOn(k, j)
    PROVE  PlanInv'
<1>1. \A k \in jobs : GoesOn(k, k)
  BY DEF GoesOn
<1>2. Follows(call')
  BY DEF Follows, Together
<1>3. SamePlan
  BY <1>1, <1>2 DEF SamePlan
<1>4. QED
  BY <1>3, PlanStays

LEMMA JobAtPlace ==
    ASSUME NEW j, GoodJob(j)
    PROVE  /\ \A pc : GoesOn(MoveTo(j, pc), j)
           /\ \A pc, done : GoesOn(Advance(j, done, pc), j)
           /\ \A done : GoesOn([j EXCEPT !.todo = @ \ done], j)
           /\ GoesOn([j EXCEPT !.tries = @ + 1, !.pc = "mark"], j)
           /\ \A short, pc : GoesOn([MoveTo(j, pc) EXCEPT !.insufficient = short], j)
           /\ GoesOn(Restarted(j), j)
<1>1. JobFields \subseteq DOMAIN j
  BY DEF GoodJob
<1>2. \A pc : GoesOn(MoveTo(j, pc), j)
  BY <1>1 DEF GoesOn, MoveTo, JobFields
<1>3. \A done : GoesOn([j EXCEPT !.todo = @ \ done], j)
  BY <1>1 DEF GoesOn, JobFields
<1>4. \A pc, done : GoesOn(Advance(j, done, pc), j)
  BY <1>2, <1>3 DEF Advance
<1>5. GoesOn([j EXCEPT !.tries = @ + 1, !.pc = "mark"], j)
  BY <1>1 DEF GoesOn, JobFields
<1>6. \A short, pc : GoesOn([MoveTo(j, pc) EXCEPT !.insufficient = short], j)
  BY <1>1 DEF GoesOn, MoveTo, JobFields
<1>7. GoesOn(Restarted(j), j)
  BY <1>1 DEF GoesOn, Restarted, MoveTo, JobFields
<1>8. QED
  BY <1>2, <1>3, <1>4, <1>5, <1>6, <1>7

\* A chained job goes on with the candidates of its job, or a part of them for
\* Agent-B.
LEMMA ChainGoesOn ==
    ASSUME NEW j, NEW kind, NEW cands, j.retrieval \/ cands = j.cands
    PROVE  GoesOn(Chained(j, kind, cands), j)
BY DEF GoesOn, Chained, NewJob

LEMMA JobStepPlanned ==
    ASSUME WorkInv, PlanInv, NEW j \in jobs,
           \/ StartJob(j) \/ GivenUp(j) \/ MarkRunning(j) \/ AssembleEvidence(j)
           \/ RetrieveMore(j) \/ Report(j) \/ MarkFailed(j) \/ JobTimesOut(j)
    PROVE  PlanInv'
<1>1. LeftTyped /\ GoodJob(j)
  BY JobTypes
<1>2. SameRequests
  <2>1. CASE StartJob(j) \/ GivenUp(j)
    BY <2>1 DEF StartJob, GivenUp, SameRequests
  <2>2. CASE MarkRunning(j) \/ Report(j) \/ MarkFailed(j)
    <3>1. Works \/ \E c, stage : SetStatus(c, stage)
      BY <2>2 DEF MarkRunning, Report, MarkFailed
    <3>2. QED
      BY <1>1, <3>1, RequestsStay, SetRequestsStay
  <2>3. CASE AssembleEvidence(j) \/ RetrieveMore(j) \/ JobTimesOut(j)
    <3>1. Works \/ \E kind : Fails(kind)
      BY <2>3 DEF AssembleEvidence, RetrieveMore, JobTimesOut
    <3>2. QED
      BY <1>1, <3>1, RequestsStay
  <2>4. QED
    BY <2>1, <2>2, <2>3
<1>3. UNCHANGED <<call, composed>>
  BY DEF StartJob, GivenUp, MarkRunning, AssembleEvidence, RetrieveMore, Report, MarkFailed,
         JobTimesOut
<1>4. \A k \in jobs' : k \in jobs \/ GoesOn(k, j)
  <2>1. CASE StartJob(j)
    BY <1>1, <2>1, JobAtPlace DEF StartJob, JobBecomes
  <2>2. CASE GivenUp(j) \/ JobTimesOut(j)
    BY <2>2 DEF GivenUp, JobTimesOut, JobEnds
  <2>3. CASE MarkRunning(j)
    <3>1. PICK c : jobs' = (jobs \ {j}) \cup {Advance(j, {c}, "agent")}
      BY <2>3 DEF MarkRunning, JobBecomes
    <3>2. GoesOn(Advance(j, {c}, "agent"), j)
      BY <1>1, JobAtPlace
    <3>3. QED
      BY <3>1, <3>2
  <2>4. CASE AssembleEvidence(j)
    <3>1. PICK k : /\ jobs' = (jobs \ {j}) \cup {k}
                   /\ \/ k = MoveTo(j, "fail")
                      \/ \E short : k = [MoveTo(j, "report") EXCEPT !.insufficient = short]
      BY <2>4 DEF AssembleEvidence, Raise, JobBecomes
    <3>2. GoesOn(MoveTo(j, "fail"), j)
      BY <1>1, JobAtPlace
    <3>3. \A short : GoesOn([MoveTo(j, "report") EXCEPT !.insufficient = short], j)
      BY <1>1, JobAtPlace
    <3>4. GoesOn(k, j)
      BY <3>1, <3>2, <3>3
    <3>5. QED
      BY <3>1, <3>4
  <2>5. CASE RetrieveMore(j)
    BY <1>1, <2>5, JobAtPlace DEF RetrieveMore, Raise, JobBecomes
  <2>6. CASE Report(j)
    <3>1. PICK c : jobs' \subseteq (jobs \ {j}) \cup {Advance(j, {c}, "route")}
      BY <2>6 DEF Report, JobEnds, JobBecomes
    <3>2. GoesOn(Advance(j, {c}, "route"), j)
      BY <1>1, JobAtPlace
    <3>3. QED
      BY <3>1, <3>2
  <2>7. CASE MarkFailed(j)
    BY <1>1, <2>7, JobAtPlace DEF MarkFailed, JobEnds, JobBecomes
  <2>8. QED
    BY <2>1, <2>2, <2>3, <2>4, <2>5, <2>6, <2>7
<1>5. QED
  BY <1>2, <1>3, <1>4, JobsGoOn

LEMMA RoutePlanned ==
    ASSUME WorkInv, PlanInv, NEW j \in jobs,
           RouteToAgentB(j) \/ RouteToAgentP(j) \/ RouteRetrieved(j)
    PROVE  PlanInv'
<1>1. LeftTyped /\ GoodJob(j)
  BY JobTypes
<1>2. SameRequests
  <2>1. Works \/ Fails("enqueue")
    BY DEF RouteToAgentB, RouteToAgentP, RouteRetrieved
  <2>2. QED
    BY <1>1, <2>1, RequestsStay
<1>3. UNCHANGED <<call, composed>>
  BY DEF RouteToAgentB, RouteToAgentP, RouteRetrieved
<1>4. \A k \in jobs' : k \in jobs \/ GoesOn(k, j)
  <2>1. CASE Raise(j)
    BY <1>1, <2>1, JobAtPlace DEF Raise, JobBecomes
  <2>2. ASSUME RouteToAgentB(j), ~ Raise(j) PROVE \A k \in jobs' : k \in jobs \/ GoesOn(k, j)
    <3>1. PICK c \in ForAgentB(j) :
             jobs' = (jobs \ {j}) \cup {[j EXCEPT !.todo = @ \ {c}], Chained(j, "retrieval", {c})}
      BY <2>2 DEF RouteToAgentB, JobEnqueues
    <3>2. j.retrieval
      BY <3>1 DEF ForAgentB
    <3>3. GoesOn(Chained(j, "retrieval", {c}), j) /\ GoesOn([j EXCEPT !.todo = @ \ {c}], j)
      BY <1>1, <3>2, ChainGoesOn, JobAtPlace
    <3>4. QED
      BY <3>1, <3>3
  <2>3. ASSUME RouteToAgentP(j), ~ Raise(j) PROVE \A k \in jobs' : k \in jobs \/ GoesOn(k, j)
    <3>1. j.retrieval \/ ForAgentP(j) = j.cands
      BY DEF ForAgentP, ForAgentB
    <3>2. GoesOn(Chained(j, "batch_proposal", ForAgentP(j)), j)
      BY <3>1, ChainGoesOn
    <3>3. QED
      BY <2>3, <3>2 DEF RouteToAgentP, JobEnds, JobHandsOver
  <2>4. ASSUME RouteRetrieved(j), ~ Raise(j) PROVE \A k \in jobs' : k \in jobs \/ GoesOn(k, j)
    <3>1. GoesOn(Chained(j, "proposal", j.cands), j)
      BY ChainGoesOn
    <3>2. QED
      BY <2>4, <3>1 DEF RouteRetrieved, JobHandsOver
  <2>5. QED
    BY <2>1, <2>2, <2>3, <2>4
<1>5. QED
  BY <1>2, <1>3, <1>4, JobsGoOn

LEMMA ComposePlanned ==
    ASSUME WorkInv, PlanInv, NEW j \in jobs, Compose(j)
    PROVE  PlanInv'
<1>1. LeftTyped /\ GoodJob(j)
  BY JobTypes
<1>2. SameRequests
  <2>1. Works \/ Fails("agent")
    BY DEF Compose
  <2>2. QED
    BY <1>1, <2>1, RequestsStay
<1>3. UNCHANGED call
  BY DEF Compose
<1>4. ASSUME NEW id, NEW class
      PROVE  GoesOn([Advance(j, id, "report") EXCEPT !.results =
                        [c \in Candidates |-> IF c \in id THEN class ELSE @[c]]], j)
  <2> DEFINE on == Advance(j, id, "report")
  <2>1. GoesOn(on, j) /\ GoodJob(on)
    BY <1>1, JobAtPlace, Advanced DEF Phases
  <2> HIDE DEF on
  <2>2. GoesOn([on EXCEPT !.results = [c \in Candidates |-> IF c \in id THEN class ELSE @[c]]], j)
    BY <2>1 DEF GoesOn, GoodJob, JobFields
  <2>3. QED
    BY <2>2 DEF on
<1> DEFINE with(id, class) == [Advance(j, id, "report") EXCEPT !.results =
                                  [c \in Candidates |-> IF c \in id THEN class ELSE @[c]]]
           made(id, class) == [of |-> id, class |-> class, gen |-> j.gen,
                               retrieval |-> j.retrieval]
<1>11. \/ Raise(j) /\ UNCHANGED composed
       \/ \E id \in Clusters[j.cands] :
             \/ JobBecomes(j, with(id, None)) /\ UNCHANGED composed
             \/ \E class \in Classes :
                   /\ composed' = composed \cup {made(id, class)}
                   /\ JobBecomes(j, with(id, class))
  BY DEF Compose
<1>12. \A id, class : GoesOn(with(id, class), j)
  BY <1>4
<1>13. \A id \in Clusters[j.cands], class \in Classes : Made(made(id, class), j)
  BY DEF Made
<1> HIDE DEF with, made
<1>5. \A k \in jobs' : k \in jobs \/ GoesOn(k, j)
  <2>1. GoesOn(MoveTo(j, "fail"), j)
    BY <1>1, JobAtPlace
  <2>2. PICK k : jobs' = (jobs \ {j}) \cup {k} /\ (k = MoveTo(j, "fail") \/ \E id, class : k = with(id, class))
    BY <1>11 DEF Raise, JobBecomes
  <2>3. GoesOn(k, j)
    BY <1>12, <2>1, <2>2
  <2>4. QED
    BY <2>2, <2>3
<1>6. \A p \in composed' : p \in composed \/ Made(p, j)
  BY <1>11, <1>13
<1>7. \A k \in jobs : GoesOn(k, k)
  BY DEF GoesOn
<1>8. Follows(call')
  BY <1>3 DEF Follows, Together
<1>9. SamePlan
  BY <1>2, <1>5, <1>6, <1>7, <1>8 DEF SamePlan
<1>10. QED
  BY <1>9, PlanStays

LEMMA WorkerStopsPlanned ==
    ASSUME WorkInv, PlanInv, WorkerStops
    PROVE  PlanInv'
<1>1. LeftTyped /\ \A j \in jobs : GoodJob(j)
  BY JobTypes
<1>2. SameRequests
  BY <1>1, RequestsStay DEF WorkerStops
<1>3. UNCHANGED <<call, composed>> /\ jobs' = {Restarted(j) : j \in jobs}
  BY DEF WorkerStops
<1>4. QED
  BY <1>1, <1>2, <1>3, JobAtPlace, JobsGoOn

\* A step of a request, of a cancel or of a reviewer that asks for nothing new.
LEMMA RequestFollows ==
    ASSUME PlanInv, SameRequests, Follows(call'), UNCHANGED composed,
           \A k \in jobs' : k \in jobs \/ Asked(k)
    PROVE  PlanInv'
<1>1. \A k \in jobs : GoesOn(k, k)
  BY DEF GoesOn
<1>2. SamePlan
  BY <1>1 DEF SamePlan
<1>3. QED
  BY <1>2, PlanStays

LEMMA StartRunPlanned ==
    ASSUME WorkInv, PlanInv, StartRun
    PROVE  PlanInv'
<1> DEFINE Plan == [retrieval : BOOLEAN, cands : SUBSET Candidates]
           gen == left.gen
<1>1. PICK plan \in [1 .. gen -> Plan] : Planned(plan)
  BY DEF PlanInv
<1>2. gen \in Nat /\ left.retrieval \subseteq BOOLEAN /\ LeftTyped
  BY JobTypes DEF PlanInv
<1>3. left'.gen = gen + 1 /\ left'.retrieval = left.retrieval
  BY <1>2 DEF StartRun, LeftTyped
<1>4. PICK retrieval \in left.retrieval :
         /\ call'.pc = "existing" /\ call'.gen = gen + 1 /\ call'.retrieval = retrieval
  BY DEF StartRun, CallBecomes, NoCall
<1>5. UNCHANGED <<jobs, composed>>
  BY DEF StartRun
<1>6. PICK next \in [1 .. gen + 1 -> Plan] :
         next[gen + 1].retrieval = retrieval /\ \A g \in 1 .. gen : next[g] = plan[g]
  <2> DEFINE new == [retrieval |-> retrieval, cands |-> {}]
             f == [g \in 1 .. gen + 1 |-> IF g = gen + 1 THEN new ELSE plan[g]]
  <2>1. new \in Plan /\ new.retrieval = retrieval
    BY <1>2
  <2> HIDE DEF new
  <2>2. f \in [1 .. gen + 1 -> Plan]
    BY <1>1, <1>2, <2>1
  <2>3. f[gen + 1] = new /\ \A g \in 1 .. gen : f[g] = plan[g]
    BY <1>2
  <2>4. QED
    BY <2>1, <2>2, <2>3
<1>7. \A work \in jobs \cup composed : work.gen \in 1 .. gen
  BY <1>1 DEF Planned
<1>8. \A j \in jobs' : /\ j.gen \in 1 .. gen + 1 /\ j.gen # gen + 1
                       /\ j.retrieval = next[j.gen].retrieval
                       /\ j.retrieval \/ j.cands \in Range(BatchList[next[j.gen].cands])
  BY <1>1, <1>2, <1>5, <1>6, <1>7 DEF Planned
<1>9. \A p \in composed' : /\ p.gen \in 1 .. gen + 1 /\ p.gen # gen + 1
                           /\ p.retrieval = next[p.gen].retrieval
                           /\ p.retrieval \/ \E batch \in Range(BatchList[next[p.gen].cands]) :
                                                p.of \in Clusters[batch]
  BY <1>1, <1>2, <1>5, <1>6, <1>7 DEF Planned
<1>10. Planned(next)'
  BY <1>2, <1>3, <1>4, <1>6, <1>8, <1>9 DEF Planned
<1>11. left'.gen \in Nat /\ next \in [1 .. left'.gen -> Plan]
  BY <1>2, <1>3, <1>6
<1>12. QED
  BY <1>2, <1>3, <1>10, <1>11 DEF PlanInv

LEMMA LoadCandidatesPlanned ==
    ASSUME WorkInv, PlanInv, LoadCandidates
    PROVE  PlanInv'
<1> DEFINE Plan == [retrieval : BOOLEAN, cands : SUBSET Candidates]
           gen == left.gen
<1>1. LeftTyped /\ GoodCall
  BY JobTypes DEF Parts
<1>2. SameRequests
  <2>1. Works \/ Fails("redis")
    BY DEF LoadCandidates
  <2>2. QED
    BY <1>1, <2>1, RequestsStay
<1>3. UNCHANGED <<jobs, composed>> /\ call.pc = "load"
  BY DEF LoadCandidates
<1>4. PICK rest \in SUBSET Candidates :
         \/ call' = NoCall
         \/ call' = [call EXCEPT !.pc = "clear", !.cands = rest, !.todo = rest]
  <2>1. \A ids, known : Selected(ids, known) \in SUBSET Candidates
    BY DEF Selected
  <2>2. \E ids, known :
           LET rest == Selected(ids, known)
           IN  \/ call' = NoCall
               \/ call' = [call EXCEPT !.pc = "clear", !.cands = rest, !.todo = rest]
    BY DEF LoadCandidates, EndCall, CallBecomes
  <2>3. QED
    BY <2>1, <2>2
<1>5. CASE call' = NoCall
  <2>1. Follows(call')
    BY <1>5 DEF Follows, NoCall
  <2>2. QED
    BY <1>2, <1>3, <2>1, RequestFollows
<1>6. CASE call' = [call EXCEPT !.pc = "clear", !.cands = rest, !.todo = rest]
  <2>1. PICK plan \in [1 .. gen -> Plan] : Planned(plan)
    BY DEF PlanInv
  <2>2. gen \in Nat /\ gen # 0
    BY <1>3, <2>1 DEF PlanInv, Planned
  <2>3. PICK next \in [1 .. gen -> Plan] :
           /\ next[gen].retrieval = plan[gen].retrieval /\ next[gen].cands = rest
           /\ \A g \in 1 .. gen : g # gen => next[g] = plan[g]
    <3> DEFINE new == [retrieval |-> plan[gen].retrieval, cands |-> rest]
               f == [g \in 1 .. gen |-> IF g = gen THEN new ELSE plan[g]]
    <3>1. new \in Plan /\ new.retrieval = plan[gen].retrieval /\ new.cands = rest
      BY <2>1, <2>2
    <3> HIDE DEF new
    <3>2. f \in [1 .. gen -> Plan]
      BY <2>1, <2>2, <3>1
    <3>3. f[gen] = new /\ \A g \in 1 .. gen : g # gen => f[g] = plan[g]
      BY <2>2
    <3>4. QED
      BY <3>1, <3>2, <3>3
  <2>5. call'.pc = "clear" /\ call'.cands = rest /\ call'.gen = gen
        /\ call'.retrieval = plan[gen].retrieval
    BY <1>1, <1>3, <1>6, <2>1 DEF GoodCall, CallTyped, Planned
  <2>6. \A work \in jobs \cup composed : work.gen \in 1 .. gen /\ work.gen # gen
    BY <1>3, <2>1 DEF Planned
  <2>7. \A j \in jobs' : /\ j.gen \in 1 .. gen
                         /\ j.retrieval = next[j.gen].retrieval
                         /\ j.retrieval \/ j.cands \in Range(BatchList[next[j.gen].cands])
    BY <1>3, <2>1, <2>3, <2>6 DEF Planned
  <2>8. \A p \in composed' : /\ p.gen \in 1 .. gen
                             /\ p.retrieval = next[p.gen].retrieval
                             /\ p.retrieval \/ \E batch \in Range(BatchList[next[p.gen].cands]) :
                                                  p.of \in Clusters[batch]
    BY <1>3, <2>1, <2>3, <2>6 DEF Planned
  <2>9. left'.gen = gen
    BY <1>2 DEF SameRequests
  <2>10. Planned(next)'
    BY <2>2, <2>3, <2>5, <2>7, <2>8, <2>9 DEF Planned
  <2>11. left'.gen \in Nat /\ left'.retrieval \subseteq BOOLEAN
         /\ next \in [1 .. left'.gen -> Plan]
    BY <1>2, <2>2, <2>3, <2>9 DEF SameRequests, PlanInv
  <2>12. QED
    BY <2>10, <2>11 DEF PlanInv
<1>7. QED
  BY <1>4, <1>5, <1>6

LEMMA RequestPlanned ==
    ASSUME WorkInv, PlanInv,
           CheckExisting \/ ArchiveExisting \/ ClearStatus \/ EnqueueBatch
    PROVE  PlanInv'
<1>1. LeftTyped /\ GoodCall
  BY JobTypes DEF Parts
<1>2. SameRequests
  <2>1. CASE CheckExisting \/ EnqueueBatch
    <3>1. Works \/ \E kind : Fails(kind)
      BY <2>1 DEF CheckExisting, EnqueueBatch
    <3>2. QED
      BY <1>1, <3>1, RequestsStay
  <2>2. CASE ArchiveExisting
    BY <2>2 DEF ArchiveExisting, SameRequests
  <2>3. CASE ClearStatus
    BY <1>1, <2>3, SetRequestsStay DEF ClearStatus
  <2>4. QED
    BY <2>1, <2>2, <2>3
<1>3. UNCHANGED composed
  BY DEF CheckExisting, ArchiveExisting, ClearStatus, EnqueueBatch
<1>4. Follows(call')
  <2> USE <1>1 DEF Follows, Together, CallBecomes, EndCall, GoodCall, CallTyped, NoCall
  <2>1. CASE CheckExisting
    BY <2>1 DEF CheckExisting
  <2>2. CASE ArchiveExisting
    BY <2>2 DEF ArchiveExisting
  <2>3. CASE ClearStatus
    BY <2>3 DEF ClearStatus
  <2>4. CASE EnqueueBatch
    BY <2>4 DEF EnqueueBatch
  <2>5. QED
    BY <2>1, <2>2, <2>3, <2>4
<1>5. \A k \in jobs' : k \in jobs \/ Asked(k)
  <2>1. CASE EnqueueBatch
    <3> DEFINE batches == BatchList[call.cands]
               job == NewJob("evidence", call.gen, call.retrieval, batches[call.i])
    <3>1. call.pc = "enqueue" /\ jobs' \subseteq jobs \cup {job}
      BY <2>1 DEF EnqueueBatch
    <3>2. call.i \in DOMAIN batches
      BY <1>1, <3>1 DEF GoodCall, CallTyped
    <3>3. batches[call.i] \in Range(batches)
      BY <3>2 DEF Range
    <3>4. Asked(job)
      BY <3>1, <3>3 DEF Asked, NewJob
    <3>5. QED
      BY <3>1, <3>4
  <2>2. CASE CheckExisting \/ ArchiveExisting \/ ClearStatus
    BY <2>2 DEF CheckExisting, ArchiveExisting, ClearStatus
  <2>3. QED
    BY <2>1, <2>2
<1>6. QED
  BY <1>2, <1>3, <1>4, <1>5, RequestFollows

LEMMA OthersPlanned ==
    ASSUME WorkInv, PlanInv,
           StartCancel \/ CancelStep \/ ApiCrash \/ Review
    PROVE  PlanInv'
<1>1. LeftTyped
  BY JobTypes
<1>2. SameRequests
  <2>1. CASE StartCancel \/ FinishCancel \/ Review
    BY <1>1, <2>1 DEF StartCancel, FinishCancel, Review, SameRequests, LeftTyped
  <2>2. CASE ReadForCancel \/ ApiCrash
    <3>1. Works \/ \E kind : Fails(kind)
      BY <2>2 DEF ReadForCancel, ApiCrash
    <3>2. QED
      BY <1>1, <3>1, RequestsStay
  <2>3. CASE MarkCancelled
    BY <1>1, <2>3, SetRequestsStay DEF MarkCancelled
  <2>4. QED
    BY <2>1, <2>2, <2>3 DEF CancelStep
<1>3. UNCHANGED <<jobs, composed>>
  BY DEF StartCancel, CancelStep, ReadForCancel, MarkCancelled, FinishCancel, ApiCrash, Review
<1>4. UNCHANGED call \/ call' = NoCall
  BY DEF StartCancel, CancelStep, ReadForCancel, MarkCancelled, FinishCancel, ApiCrash, Review
<1>5. Follows(call')
  BY <1>4 DEF Follows, Together, NoCall
<1>6. QED
  BY <1>2, <1>3, <1>5, RequestFollows

\* PlanInv holds in every reachable state.
THEOREM PlanInvariance == Spec => []PlanInv
<1>1. Init => PlanInv
  <2> SUFFICES ASSUME Init PROVE PlanInv
    OBVIOUS
  <2>1. left.gen = 0 /\ left.retrieval \subseteq BOOLEAN
    BY ConstantsAssumption DEF Init
  <2>2. PICK plan \in [1 .. 0 -> [retrieval : BOOLEAN, cands : SUBSET Candidates]] : TRUE
    <3> DEFINE f == [g \in 1 .. 0 |-> [retrieval |-> FALSE, cands |-> {}]]
    <3>1. f \in [1 .. 0 -> [retrieval : BOOLEAN, cands : SUBSET Candidates]]
      OBVIOUS
    <3>2. QED
      BY <3>1
  <2>3. Planned(plan)
    BY DEF Init, Planned, NoCall
  <2>4. plan \in [1 .. left.gen -> [retrieval : BOOLEAN, cands : SUBSET Candidates]]
    BY <2>1, <2>2
  <2>5. left.gen \in Nat /\ left.retrieval \subseteq BOOLEAN
    BY <2>1
  <2>6. QED
    BY <2>3, <2>4, <2>5 DEF PlanInv
<1>2. WorkInv /\ PlanInv /\ [Next]_vars => PlanInv'
  <2> SUFFICES ASSUME WorkInv, PlanInv, [Next]_vars PROVE PlanInv'
    OBVIOUS
  <2>1. ASSUME NEW j \in jobs, JobStep(j) \/ JobTimesOut(j) PROVE PlanInv'
    BY <2>1, JobStepPlanned, RoutePlanned, ComposePlanned DEF JobStep
  <2>2. CASE WorkerStops
    BY <2>2, WorkerStopsPlanned
  <2>3. CASE StartRun \/ RunStep
    BY <2>3, StartRunPlanned, LoadCandidatesPlanned, RequestPlanned DEF RunStep
  <2>4. CASE StartCancel \/ CancelStep \/ ApiCrash \/ Review
    BY <2>4, OthersPlanned
  <2>5. CASE UNCHANGED vars
    BY <2>5 DEF vars, PlanInv, Planned
  <2>6. QED
    BY <2>1, <2>2, <2>3, <2>4, <2>5 DEF Next
<1>3. QED
  BY <1>1, <1>2, WorkInvariance, PTL DEF Spec

\* Without Agent-B two proposals that one request leads to share no graph element,
\* whatever the candidates, the batch size, the faults and the requests across it.
THEOREM NoNodeInTwoProposals == Spec => []NodeSafe
<1>1. PlanInv => NodeSafe
  <2> SUFFICES ASSUME PlanInv, NEW p \in composed, NEW q \in composed,
                      p.gen = q.gen, p.of # q.of, ~ p.retrieval
               PROVE  Nodes(p.of) \cap Nodes(q.of) = {}
    BY DEF NodeSafe
  <2>1. PICK plan \in [1 .. left.gen -> [retrieval : BOOLEAN, cands : SUBSET Candidates]] :
           Planned(plan)
    BY DEF PlanInv
  <2> DEFINE cands == plan[p.gen].cands
  <2>2. cands \in SUBSET Candidates
    BY <2>1 DEF Planned
  <2>3. PICK a \in Range(BatchList[cands]) : p.of \in Clusters[a]
    BY <2>1 DEF Planned
  <2>4. PICK b \in Range(BatchList[cands]) : q.of \in Clusters[b]
    BY <2>1 DEF Planned
  <2> HIDE DEF cands
  <2>5. a \in SUBSET Candidates /\ b \in SUBSET Candidates /\ (a # b => Nodes(a) \cap Nodes(b) = {})
    BY <2>2, <2>3, <2>4, BatchesShareNothing
  <2>6. p.of \subseteq a /\ q.of \subseteq b
    BY <2>3, <2>4, <2>5, ClusterOfCandidates
  <2>7. CASE a = b
    BY <2>3, <2>4, <2>5, <2>7, ClustersShareNothing
  <2>8. CASE a # b
    <3>1. Nodes(p.of) \subseteq Nodes(a) /\ Nodes(q.of) \subseteq Nodes(b)
      BY <2>6 DEF Nodes
    <3>2. QED
      BY <2>5, <2>8, <3>1
  <2>9. QED
    BY <2>7, <2>8
<1>2. QED
  BY <1>1, PlanInvariance, PTL
=============================================================================
