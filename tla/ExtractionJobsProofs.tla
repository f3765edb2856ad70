------------------------ MODULE ExtractionJobsProofs ------------------------
(* Theorems about ExtractionJobs, for every number of chunks, requests,      *)
(* concurrent jobs, attempts and faults.                                     *)
EXTENDS ExtractionJobs, TLAPS

\* A status is overwritten by another one; "complete" needs its result in the graph.
LEMMA SetStatusKeeps ==
    ASSUME IInv, NEW c, NEW s \in Statuses, SetStatus(c, s),
           s = "complete" => c \in graph, graph' = graph
    PROVE  /\ status' \in [Chunks -> Statuses \cup {None}]
           /\ CompleteMeansWritten'
           /\ faults' \in Nat
BY DEF IInv, TypeOK, SetStatus, Works, Fails, CompleteMeansWritten

\* What a handler may become.
SoundCall(k) ==
    /\ k \in CallType
    /\ k.pc = "markQueued" => k.chunk \in Chunks

\* A step of a handler that leaves the statuses, the graph and the jobs alone,
\* but for a job it may enqueue.
LEMMA CallMoves ==
    ASSUME IInv, NEW h \in Calls, NEW k, SoundCall(k), CallBecomes(h, k),
           queue' \subseteq Jobs, faults' \in Nat, started' \in Nat, enqueued' \in Nat,
           UNCHANGED <<status, graph, work>>
    PROVE  IInv'
BY DEF IInv, TypeOK, SoundCall, CallBecomes, CompleteMeansWritten, JobKnows, CallKnows

\* A handler that sets a status.
LEMMA CallReports ==
    ASSUME IInv, NEW h \in Calls, NEW k, SoundCall(k), CallBecomes(h, k),
           NEW c, NEW s \in Statuses \ {"complete"}, SetStatus(c, s),
           UNCHANGED <<graph, queue, work, started, enqueued>>
    PROVE  IInv'
<1>1. /\ status' \in [Chunks -> Statuses \cup {None}]
      /\ CompleteMeansWritten'
      /\ faults' \in Nat
  BY SetStatusKeeps
<1>2. TypeOK'
  BY <1>1 DEF IInv, TypeOK, SoundCall, CallBecomes
<1>3. JobKnows' /\ CallKnows'
  BY DEF IInv, TypeOK, SoundCall, CallBecomes, JobKnows, CallKnows
<1>4. QED
  BY <1>1, <1>2, <1>3 DEF IInv

\* What a job may become: well typed, with its ARQ job in hand, and with its
\* chunk in the graph if it is about to report it complete.
SoundWork(k, written) ==
    /\ k \in WorkType
    /\ k.pc # "idle" => k.job \in Jobs
    /\ k.pc = "written" => k.chunk \in written

\* A step of a job that leaves the statuses and the handlers alone.
LEMMA WorkMoves ==
    ASSUME IInv, NEW w \in Workers, NEW k, SoundWork(k, graph'), WorkBecomes(w, k),
           graph \subseteq graph', graph' \subseteq Chunks,
           queue' \subseteq Jobs, faults' \in Nat,
           UNCHANGED <<status, call, started, enqueued>>
    PROVE  IInv'
BY DEF IInv, TypeOK, SoundWork, WorkBecomes, CompleteMeansWritten, JobKnows, CallKnows

\* A job that sets a status.
LEMMA WorkReports ==
    ASSUME IInv, NEW w \in Workers, NEW k, SoundWork(k, graph), WorkBecomes(w, k),
           NEW c, NEW s \in Statuses, SetStatus(c, s), s = "complete" => c \in graph,
           UNCHANGED <<graph, queue, call, started, enqueued>>
    PROVE  IInv'
<1>1. /\ status' \in [Chunks -> Statuses \cup {None}]
      /\ CompleteMeansWritten'
      /\ faults' \in Nat
  BY SetStatusKeeps
<1>2. TypeOK'
  BY <1>1 DEF IInv, TypeOK, SoundWork, WorkBecomes
<1>3. JobKnows' /\ CallKnows'
  BY DEF IInv, TypeOK, SoundWork, WorkBecomes, JobKnows, CallKnows
<1>4. QED
  BY <1>1, <1>2, <1>3 DEF IInv

LEMMA NothingSound ==
    SoundCall(NoCall) /\ (\A written : SoundWork(NoWork, written))
BY DEF SoundCall, NoCall, CallType, SoundWork, NoWork, WorkType

\* Counting a fault keeps the counter a number.
LEMMA FaultsCounted ==
    ASSUME IInv, NEW kind, Works \/ Fails(kind)
    PROVE  faults' \in Nat
BY DEF IInv, TypeOK, Works, Fails

(***************************************************************************)
(* The API handlers.                                                       *)
(***************************************************************************)
LEMMA RequestKeeps ==
    ASSUME IInv, NEW h \in Calls, StartRun(h) \/ StartCancel(h)
    PROVE  IInv'
<1>1. CASE StartRun(h)
  <2>1. SoundCall([NoCall EXCEPT !.pc = "scan", !.todo = Chunks])
    BY DEF NoCall, CallType, SoundCall
  <2>2. QED
    BY <1>1, <2>1, CallMoves DEF StartRun, IInv, TypeOK
<1>2. CASE StartCancel(h)
  <2>1. SoundCall([NoCall EXCEPT !.pc = "cancel",
                      !.todo = {c \in Chunks : status[c] # None}])
    BY DEF NoCall, CallType, SoundCall
  <2>2. faults' \in Nat
    BY <1>2, FaultsCounted DEF StartCancel
  <2>3. QED
    BY <1>2, <2>1, <2>2, NothingSound, CallMoves
    DEF StartCancel, EndCall, IInv, TypeOK
<1>3. QED
  BY <1>1, <1>2

LEMMA LoopKeeps ==
    ASSUME IInv, NEW h \in Calls, NEW c \in Chunks,
           ScanChunk(h, c) \/ ReadForCancel(h, c)
    PROVE  IInv'
<1>0. call[h] \in CallType
  BY DEF IInv, TypeOK
<1>1. faults' \in Nat
  BY FaultsCounted DEF ScanChunk, ReadForCancel
<1>2. CASE ScanChunk(h, c)
  <2>1. SoundCall([call[h] EXCEPT !.todo = call[h].todo \ {c}])
    BY <1>0, <1>2 DEF CallType, SoundCall, ScanChunk
  <2>2. SoundCall([call[h] EXCEPT !.pc = "markQueued", !.chunk = c])
    BY <1>0 DEF CallType, SoundCall
  <2>3. QED
    BY <1>1, <1>2, <2>1, <2>2, CallMoves
    DEF ScanChunk, SkipCall, ToQueue, IInv, TypeOK
<1>3. CASE ReadForCancel(h, c)
  <2>1. SoundCall([call[h] EXCEPT !.todo = call[h].todo \ {c}])
    BY <1>0, <1>3 DEF CallType, SoundCall, ReadForCancel
  <2>2. SoundCall([call[h] EXCEPT !.pc = "markCancelled", !.chunk = c])
    BY <1>0 DEF CallType, SoundCall
  <2>3. QED
    BY <1>1, <1>3, <2>1, <2>2, CallMoves
    DEF ReadForCancel, SkipCall, IInv, TypeOK
<1>4. QED
  BY <1>2, <1>3

LEMMA EnqueueKeeps ==
    ASSUME IInv, NEW h \in Calls, EnqueueBatch(h)
    PROVE  IInv'
<1>0. call[h] \in CallType
  BY DEF IInv, TypeOK
<1>1. faults' \in Nat
  BY FaultsCounted DEF EnqueueBatch
<1>2. ASSUME NEW batch \in Batches(call[h].pending),
             queue' = queue \cup {NewJob(batch)},
             CallBecomes(h, [call[h] EXCEPT !.pending = call[h].pending \ batch]),
             enqueued' = enqueued + 1
      PROVE  IInv'
  <2>1. NewJob(batch) \in Jobs
    BY <1>0, <1>2, ConstantsAssumption
    DEF NewJob, Jobs, Batches, CallType, IInv, TypeOK
  <2>2. SoundCall([call[h] EXCEPT !.pending = call[h].pending \ batch])
    BY <1>0 DEF CallType, SoundCall, EnqueueBatch
  <2>3. QED
    BY <1>1, <1>2, <2>1, <2>2, CallMoves DEF EnqueueBatch, IInv, TypeOK
<1>3. CASE EndCall(h) /\ UNCHANGED <<queue, enqueued>>
  BY <1>1, <1>3, NothingSound, CallMoves DEF EnqueueBatch, EndCall, IInv, TypeOK
<1>4. QED
  BY <1>2, <1>3 DEF EnqueueBatch

LEMMA MarkKeeps ==
    ASSUME IInv, NEW h \in Calls, MarkQueued(h) \/ MarkCancelled(h)
    PROVE  IInv'
<1>0. call[h] \in CallType
  BY DEF IInv, TypeOK
<1>1. CASE MarkQueued(h)
  <2>1. SoundCall([call[h] EXCEPT !.pc = "scan", !.chunk = None,
                      !.todo = call[h].todo \ {call[h].chunk},
                      !.pending = call[h].pending \cup {call[h].chunk}])
    BY <1>0, <1>1 DEF CallType, SoundCall, MarkQueued, IInv, CallKnows
  <2>2. QED
    BY <1>1, <2>1, CallReports DEF MarkQueued, Statuses
<1>2. CASE MarkCancelled(h)
  <2>1. SoundCall([call[h] EXCEPT !.pc = "cancel", !.chunk = None,
                      !.todo = call[h].todo \ {call[h].chunk}])
    BY <1>0 DEF CallType, SoundCall
  <2>2. QED
    BY <1>2, <2>1, CallReports DEF MarkCancelled, Statuses
<1>3. QED
  BY <1>1, <1>2

LEMMA CallStepKeeps ==
    ASSUME IInv, NEW h \in Calls, CallStep(h)
    PROVE  IInv'
<1>1. CASE FinishRun(h) \/ FinishCancel(h)
  BY <1>1, NothingSound, CallMoves DEF FinishRun, FinishCancel, EndCall, IInv, TypeOK
<1>2. QED
  BY <1>1, LoopKeeps, EnqueueKeeps, MarkKeeps DEF CallStep

LEMMA ApiCrashKeeps ==
    ASSUME IInv, ApiCrash
    PROVE  IInv'
<1>1. faults' \in Nat
  BY FaultsCounted DEF ApiCrash
<1>2. NoCall \in CallType /\ NoCall.pc # "markQueued"
  BY DEF NoCall, CallType
<1>3. QED
  BY <1>1, <1>2 DEF ApiCrash, IInv, TypeOK, CompleteMeansWritten, JobKnows, CallKnows

(***************************************************************************)
(* batch_extraction_job.                                                   *)
(***************************************************************************)
\* A job that is under way has its ARQ job, whose chunks are chunks.
LEMMA JobInHand ==
    ASSUME IInv, NEW w \in Workers, work[w].pc # "idle"
    PROVE  work[w] \in WorkType /\ work[w].job \in Jobs /\ work[w].job.chunks \subseteq Chunks
BY DEF IInv, TypeOK, JobKnows, Jobs

\* A body that raises goes on to mark its chunks.
LEMMA AbandonedSound ==
    ASSUME IInv, NEW w \in Workers, work[w].pc # "idle", NEW again \in BOOLEAN, NEW written
    PROVE  SoundWork(Abandoned(w, again), written)
BY JobInHand DEF Abandoned, SoundWork, WorkType

\* Leaving a chunk out of the rest of the loop.
LEMMA SkipSound ==
    ASSUME IInv, NEW w \in Workers, work[w].pc \notin {"idle", "written"},
           NEW todo \in SUBSET Chunks, NEW written
    PROVE  SoundWork([work[w] EXCEPT !.todo = todo], written)
BY JobInHand DEF SoundWork, WorkType

\* Going on to the next loop.
LEMMA LabelSound ==
    ASSUME IInv, NEW w \in Workers, work[w].pc # "idle",
           NEW pc \in {"fetch", "missing", "extract"},
           NEW todo \in SUBSET Chunks, NEW written
    PROVE  /\ SoundWork([work[w] EXCEPT !.pc = pc, !.todo = todo], written)
           /\ SoundWork([work[w] EXCEPT !.pc = pc], written)
BY JobInHand DEF SoundWork, WorkType

LEMMA TakeKeeps ==
    ASSUME IInv, NEW w \in Workers, TakeJob(w)
    PROVE  IInv'
<1>1. PICK j \in queue :
        /\ queue' = queue \ {j}
        /\ IF GivenUp(j)
           THEN work' = work
           ELSE WorkBecomes(w, [NoWork EXCEPT !.pc = "mark", !.job = Tried(j),
                                   !.todo = j.chunks])
  BY DEF TakeJob
<1>2. j \in Jobs /\ queue' \subseteq Jobs
  BY <1>1 DEF IInv, TypeOK
<1>3. UNCHANGED <<status, graph, call, started, enqueued, faults>>
  BY DEF TakeJob
<1>4. CASE GivenUp(j)
  BY <1>1, <1>2, <1>3, <1>4 DEF IInv, TypeOK, CompleteMeansWritten, JobKnows, CallKnows
<1>5. CASE ~GivenUp(j)
  <2>1. Tried(j) \in Jobs
    BY <1>2, <1>5, ConstantsAssumption DEF Tried, GivenUp, Jobs
  <2>2. SoundWork([NoWork EXCEPT !.pc = "mark", !.job = Tried(j), !.todo = j.chunks], graph')
    BY <1>2, <2>1 DEF NoWork, SoundWork, WorkType, Jobs
  <2>3. QED
    BY <1>1, <1>2, <1>3, <1>5, <2>2, WorkMoves DEF IInv, TypeOK
<1>6. QED
  BY <1>4, <1>5

LEMMA MarkRunningKeeps ==
    ASSUME IInv, NEW w \in Workers, NEW c \in Chunks, MarkRunning(w, c)
    PROVE  IInv'
<1>1. work[w].todo \ {c} \in SUBSET Chunks /\ work[w].job.chunks \in SUBSET Chunks
  BY JobInHand DEF MarkRunning, WorkType
<1>2. /\ SoundWork([work[w] EXCEPT !.pc = "fetch", !.todo = work[w].job.chunks], graph)
      /\ SoundWork([work[w] EXCEPT !.todo = work[w].todo \ {c}], graph)
  BY <1>1, LabelSound, SkipSound DEF MarkRunning
<1>3. QED
  BY <1>2, WorkReports DEF MarkRunning, SkipWork, Statuses

LEMMA FetchKeeps ==
    ASSUME IInv, NEW w \in Workers, NEW c \in Chunks, FetchText(w, c)
    PROVE  IInv'
<1>1. faults' \in Nat
  BY FaultsCounted DEF FetchText
<1>2. work[w] \in WorkType /\ work[w].pc = "fetch" /\ work[w].job \in Jobs
  BY JobInHand DEF FetchText
<1>3. SoundWork([work[w] EXCEPT !.todo = work[w].todo \ {c},
                                !.texts = work[w].texts \cup {c}], graph')
  BY <1>2 DEF SoundWork, WorkType
<1>4. SoundWork([work[w] EXCEPT !.todo = work[w].todo \ {c}], graph')
  BY <1>2, SkipSound DEF WorkType
<1>5. SoundWork(Abandoned(w, FALSE), graph')
  BY <1>2, AbandonedSound
<1>6. QED
  BY <1>1, <1>3, <1>4, <1>5, WorkMoves DEF FetchText, SkipWork, Raise, IInv, TypeOK

LEMMA PhasesKeep ==
    ASSUME IInv, NEW w \in Workers,
           FetchDone(w) \/ MissingDone(w) \/ FinishJob(w) \/ FinishAbandoned(w)
    PROVE  IInv'
<1>1. work[w] \in WorkType /\ work[w].pc # "idle" /\ work[w].job \in Jobs
      /\ work[w].job.chunks \subseteq Chunks
  BY JobInHand DEF FetchDone, MissingDone, FinishJob, FinishAbandoned
<1>2. SoundWork([work[w] EXCEPT !.pc = "missing",
                    !.todo = work[w].job.chunks \ work[w].texts], graph')
  BY <1>1, LabelSound
<1>3. SoundWork([work[w] EXCEPT !.pc = "extract"], graph')
  BY <1>1, LabelSound
<1>4. CASE FetchDone(w) \/ MissingDone(w) \/ FinishJob(w)
  BY <1>2, <1>3, <1>4, NothingSound, WorkMoves
  DEF FetchDone, MissingDone, FinishJob, EndJob, Proceed, IInv, TypeOK
<1>5. CASE FinishAbandoned(w)
  <2>1. queue' \subseteq Jobs
    BY <1>1, <1>5 DEF FinishAbandoned, Requeued, IInv, TypeOK
  <2>2. QED
    BY <1>5, <2>1, NothingSound, WorkMoves DEF FinishAbandoned, EndJob, IInv, TypeOK
<1>6. QED
  BY <1>4, <1>5

LEMMA ExtractKeeps ==
    ASSUME IInv, NEW w \in Workers, Extract(w)
    PROVE  IInv'
<1>1. faults' \in Nat
  BY FaultsCounted DEF Extract
<1>2. work[w] \in WorkType /\ work[w].pc = "extract" /\ work[w].job \in Jobs
  BY JobInHand DEF Extract
<1>3. ASSUME NEW results \in SUBSET work[w].texts
      PROVE  SoundWork([work[w] EXCEPT !.pc = "write", !.todo = work[w].texts,
                           !.results = results], graph')
  BY <1>2 DEF SoundWork, WorkType
<1>4. SoundWork(Abandoned(w, FALSE), graph')
  BY <1>2, AbandonedSound
<1>5. QED
  BY <1>1, <1>3, <1>4, WorkMoves DEF Extract, Raise, IInv, TypeOK

LEMMA FailKeeps ==
    ASSUME IInv, NEW w \in Workers, NEW c \in Chunks,
           FailMissing(w, c) \/ FailUnanswered(w, c)
    PROVE  IInv'
<1>1. work[w] \in WorkType /\ work[w].pc \in {"missing", "write"}
  BY JobInHand DEF FailMissing, FailUnanswered
<1>2. SoundWork([work[w] EXCEPT !.todo = work[w].todo \ {c}], graph)
  BY <1>1, SkipSound DEF WorkType
<1>3. QED
  BY <1>2, WorkReports DEF FailMissing, FailUnanswered, SkipWork, Statuses

LEMMA WriteGraphKeeps ==
    ASSUME IInv, NEW w \in Workers, NEW c \in Chunks, WriteGraph(w, c)
    PROVE  IInv'
<1>1. faults' \in Nat
  BY FaultsCounted DEF WriteGraph
<1>2. work[w] \in WorkType /\ work[w].job \in Jobs
  BY JobInHand DEF WriteGraph
<1>3. graph' = graph \cup {c} => SoundWork([work[w] EXCEPT !.pc = "written", !.chunk = c], graph')
  BY <1>2 DEF SoundWork, WorkType
<1>4. SoundWork([work[w] EXCEPT !.pc = "broken", !.chunk = c], graph')
  BY <1>2 DEF SoundWork, WorkType
<1>5. QED
  BY <1>1, <1>3, <1>4, WorkMoves DEF WriteGraph, IInv, TypeOK

LEMMA ReportKeeps ==
    ASSUME IInv, NEW w \in Workers, ReportChunk(w)
    PROVE  IInv'
<1>1. work[w] \in WorkType /\ work[w].job \in Jobs
  BY JobInHand DEF ReportChunk
<1>2. SoundWork([work[w] EXCEPT !.pc = "write", !.chunk = None,
                    !.todo = work[w].todo \ {work[w].chunk}], graph)
  BY <1>1 DEF SoundWork, WorkType
<1>3. /\ Outcome(work[w].pc) \in Statuses
      /\ Outcome(work[w].pc) = "complete" => work[w].chunk \in graph
  BY DEF Outcome, Statuses, IInv, JobKnows
<1>4. QED
  BY <1>2, <1>3, WorkReports DEF ReportChunk

LEMMA AbandonKeeps ==
    ASSUME IInv, NEW w \in Workers,
           MarkFailed(w) \/ \E c \in Chunks : ReadForFailure(w, c)
    PROVE  IInv'
<1>1. work[w] \in WorkType /\ work[w].pc \in {"abandon", "markFailed"} /\ work[w].job \in Jobs
  BY JobInHand DEF MarkFailed, ReadForFailure
<1>2. CASE MarkFailed(w)
  <2>1. SoundWork([work[w] EXCEPT !.pc = "abandon", !.chunk = None,
                      !.todo = work[w].todo \ {work[w].chunk}], graph)
    BY <1>1 DEF SoundWork, WorkType
  <2>2. QED
    BY <1>2, <2>1, WorkReports DEF MarkFailed, Statuses
<1>3. ASSUME NEW c \in Chunks, ReadForFailure(w, c)
      PROVE  IInv'
  <2>1. faults' \in Nat
    BY <1>3, FaultsCounted DEF ReadForFailure
  <2>2. SoundWork([work[w] EXCEPT !.todo = work[w].todo \ {c}], graph')
    BY <1>1, SkipSound DEF WorkType
  <2>3. SoundWork([work[w] EXCEPT !.pc = "markFailed", !.chunk = c], graph')
    BY <1>1 DEF SoundWork, WorkType
  <2>4. QED
    BY <1>3, <2>1, <2>2, <2>3, WorkMoves DEF ReadForFailure, SkipWork, IInv, TypeOK
<1>4. QED
  BY <1>2, <1>3

LEMMA InterruptKeeps ==
    ASSUME IInv, NEW w \in Workers, Interrupt(w)
    PROVE  IInv'
<1>1. faults' \in Nat
  BY FaultsCounted DEF Interrupt
<1>2. work[w].pc # "idle"
  BY DEF Interrupt
<1>3. work[w].job \in Jobs
  BY <1>2, JobInHand
<1>4. queue' \subseteq Jobs
  BY <1>3 DEF Interrupt, IInv, TypeOK
<1>5. \A again \in BOOLEAN : SoundWork(Abandoned(w, again), graph')
  BY <1>2, AbandonedSound
<1>6. QED
  BY <1>1, <1>4, <1>5, NothingSound, WorkMoves DEF Interrupt, EndJob, IInv, TypeOK

LEMMA WorkStepKeeps ==
    ASSUME IInv, NEW w \in Workers, WorkStep(w)
    PROVE  IInv'
BY TakeKeeps, MarkRunningKeeps, FetchKeeps, PhasesKeep, ExtractKeeps, FailKeeps,
   WriteGraphKeeps, ReportKeeps, AbandonKeeps
DEF WorkStep

LEMMA WorkerCrashKeeps ==
    ASSUME IInv, WorkerCrash
    PROVE  IInv'
<1>1. faults' \in Nat
  BY FaultsCounted DEF WorkerCrash
<1>2. queue' \subseteq Jobs
  BY DEF WorkerCrash, IInv, TypeOK, JobKnows
<1>3. NoWork \in WorkType /\ NoWork.pc = "idle"
  BY DEF NoWork, WorkType
<1>4. QED
  BY <1>1, <1>2, <1>3 DEF WorkerCrash, IInv, TypeOK, CompleteMeansWritten, JobKnows, CallKnows

LEMMA ExpiryKeeps ==
    ASSUME IInv, NEW c \in Chunks, ExpireStatus(c), None # "complete"
    PROVE  IInv'
BY DEF ExpireStatus, IInv, TypeOK, CompleteMeansWritten, JobKnows, CallKnows

(***************************************************************************)
(* The theorems.                                                           *)
(***************************************************************************)
LEMMA InitHolds ==
    ASSUME Init, None # "complete"
    PROVE  IInv
BY NothingSound
DEF Init, IInv, TypeOK, CompleteMeansWritten, JobKnows, CallKnows, SoundCall, SoundWork,
    NoCall, NoWork

LEMMA NextKeeps ==
    ASSUME IInv, [Next]_vars, None # "complete"
    PROVE  IInv'
<1>1. CASE Next
  BY <1>1, RequestKeeps, CallStepKeeps, WorkStepKeeps, InterruptKeeps, ApiCrashKeeps,
     WorkerCrashKeeps, ExpiryKeeps
  DEF Next
<1>2. CASE UNCHANGED vars
  BY <1>2 DEF vars, IInv, TypeOK, CompleteMeansWritten, JobKnows, CallKnows
<1>3. QED
  BY <1>1, <1>2

\* IInv holds in every reachable state.
THEOREM Invariance == Spec => []IInv
<1>1. Init => IInv
  BY InitHolds, ConstantsAssumption DEF Statuses
<1>2. IInv /\ [Next]_vars => IInv'
  BY NextKeeps, ConstantsAssumption DEF Statuses
<1>3. QED
  BY <1>1, <1>2, PTL DEF Spec

\* Every variable keeps its type: no ARQ job is started more often than MaxTries
\* times, and no request or job ever handles anything but chunks of the run.
THEOREM TypeCorrectness == Spec => []TypeOK
BY Invariance, PTL DEF IInv

\* batch_extraction_job reports a chunk complete only after its result was merged
\* into Neo4j, so the chunks that POST /run skips are never lost ones.
THEOREM CompleteIsWritten == Spec => []CompleteMeansWritten
BY Invariance, PTL DEF IInv
(***************************************************************************)
(* Nothing unresolved is orphaned.                                         *)
(***************************************************************************)
Counts == faults \in Nat /\ faults' \in Nat /\ faults <= faults' /\ faults' <= MaxFaults

LEMMA FaultsOrdered ==
    ASSUME IInv, OwedInv, NEW kind, Works \/ Fails(kind)
    PROVE  Counts
BY ConstantsAssumption DEF IInv, TypeOK, OwedInv, Works, Fails, Counts

LEMMA NoFaultOrdered ==
    ASSUME IInv, OwedInv, faults' = faults
    PROVE  Counts
BY DEF IInv, TypeOK, OwedInv, Counts

\* Where no status is lost, setting one changes that chunk's and no other.
LEMMA StatusSet ==
    ASSUME IInv, OwedInv, JobsSurvive, NEW c \in Chunks, NEW s, SetStatus(c, s)
    PROVE  /\ status'[c] = s
           /\ \A d \in Chunks : d # c => status'[d] = status[d]
           /\ Counts
BY NoFaultOrdered DEF IInv, TypeOK, JobsSurvive, SetStatus, Works, Fails

\* A job moves: what it owed and no longer owes is resolved, or in a job that
\* waits; what became unresolved is owed; the others still owe what they owed.
LEMMA WorkOwesOn ==
    ASSUME IInv, OwedInv, NEW w \in Workers, NEW k, WorkBecomes(w, k), WorkInv(k)',
           \A j \in queue : j \in queue' \/ j.chunks \subseteq WorkOwes(k),
           \A j \in queue' : j.tries <= faults',
           \A c \in Chunks : status'[c] \in Unresolved =>
               \/ c \in WorkOwes(k)
               \/ \E j \in queue' : c \in j.chunks
               \/ status[c] \in Unresolved /\ c \notin WorkOwes(work[w]),
           Counts, UNCHANGED call
    PROVE  OwedInv'
<1>1. work \in [Workers -> WorkType] /\ work'[w] = k /\ \A v \in Workers : v # w => work'[v] = work[v]
  BY DEF IInv, TypeOK, WorkBecomes
<1>2. ASSUME NEW c \in Chunks, status'[c] \in Unresolved
      PROVE  Attended(c)'
  <2>1. CASE c \in WorkOwes(k)
    BY <1>1, <2>1 DEF Attended, WorkOwes, Owed
  <2>2. CASE \E j \in queue' : c \in j.chunks
    BY <2>2 DEF Attended
  <2>3. CASE status[c] \in Unresolved /\ c \notin WorkOwes(work[w]) /\ c \notin WorkOwes(k)
    <3>1. Attended(c)
      BY <2>3 DEF OwedInv
    <3>2. CASE \E j \in queue : c \in j.chunks
      BY <2>3, <3>2 DEF Attended
    <3>3. CASE \E v \in Workers : c \in WorkOwes(work[v])
      <4>1. PICK v \in Workers : c \in WorkOwes(work[v]) /\ work'[v] = work[v]
        BY <1>1, <2>3, <3>3
      <4>2. QED BY <4>1 DEF Attended, WorkOwes, Owed
    <3>4. CASE \E h \in Calls : c \in CallOwes(call[h])
      BY <3>4 DEF Attended, CallOwes
    <3>5. QED BY <3>1, <3>2, <3>3, <3>4 DEF Attended
  <2>4. QED BY <1>2, <2>1, <2>2, <2>3
<1>3. ASSUME NEW v \in Workers PROVE WorkInv(work[v])'
  <2>1. CASE v = w
    BY <1>1, <2>1 DEF WorkInv
  <2>2. CASE v # w
    <3>1. PICK m \in WorkType : m = work[v] /\ m = work'[v] /\ WorkInv(m)
      BY <1>1, <2>2 DEF OwedInv
    <3>2. m.pc # "idle" => m.job \in Jobs
      BY <3>1 DEF IInv, JobKnows
    <3>3. WorkInv(m)'
      BY <3>1, <3>2, ConstantsAssumption DEF WorkInv, Jobs, Counts
    <3>4. QED BY <3>1, <3>3 DEF WorkInv
  <2>3. QED BY <2>1, <2>2
<1>4. QED BY <1>2, <1>3 DEF OwedInv, Counts, CallInv

\* A handler moves.
LEMMA CallOwesOn ==
    ASSUME IInv, OwedInv, NEW h \in Calls, NEW k, CallBecomes(h, k), CallInv(k),
           queue \subseteq queue', \A j \in queue' : j.tries <= faults',
           \A c \in Chunks : status'[c] \in Unresolved =>
               \/ c \in CallOwes(k)
               \/ \E j \in queue' : c \in j.chunks
               \/ status[c] \in Unresolved /\ c \notin CallOwes(call[h]),
           Counts, UNCHANGED work
    PROVE  OwedInv'
<1>1. call \in [Calls -> CallType] /\ call'[h] = k /\ \A g \in Calls : g # h => call'[g] = call[g]
  BY DEF IInv, TypeOK, CallBecomes
<1>2. ASSUME NEW c \in Chunks, status'[c] \in Unresolved
      PROVE  Attended(c)'
  <2>1. CASE c \in CallOwes(k)
    BY <1>1, <2>1 DEF Attended, CallOwes
  <2>2. CASE \E j \in queue' : c \in j.chunks
    BY <2>2 DEF Attended
  <2>3. CASE status[c] \in Unresolved /\ c \notin CallOwes(call[h])
    <3>1. Attended(c)
      BY <2>3 DEF OwedInv
    <3>2. CASE \E j \in queue : c \in j.chunks
      BY <2>3, <3>2 DEF Attended
    <3>3. CASE \E g \in Calls : c \in CallOwes(call[g])
      <4>1. PICK g \in Calls : c \in CallOwes(call[g]) /\ call'[g] = call[g]
        BY <1>1, <2>3, <3>3
      <4>2. QED BY <4>1 DEF Attended, CallOwes
    <3>4. CASE \E v \in Workers : c \in WorkOwes(work[v])
      BY <3>4 DEF Attended, WorkOwes, Owed
    <3>5. QED BY <3>1, <3>2, <3>3, <3>4 DEF Attended
  <2>4. QED BY <1>2, <2>1, <2>2, <2>3
<1>3. ASSUME NEW v \in Workers PROVE WorkInv(work[v])'
  <2>1. PICK m \in WorkType : m = work[v] /\ WorkInv(m)
    BY DEF OwedInv, IInv, TypeOK
  <2>2. m.pc # "idle" => m.job \in Jobs
    BY <2>1 DEF IInv, JobKnows
  <2>3. WorkInv(m)'
    BY <2>1, <2>2, ConstantsAssumption DEF WorkInv, Jobs, Counts
  <2>4. QED BY <2>1, <2>3 DEF WorkInv
<1>4. \A g \in Calls : CallInv(call[g])'
  BY <1>1 DEF OwedInv, CallInv
<1>5. QED BY <1>2, <1>3, <1>4 DEF OwedInv, Counts

\* The tries of the waiting jobs stay paid for.
LEMMA QueuePaid ==
    ASSUME IInv, OwedInv, Counts
    PROVE  \A j \in queue : j.tries <= faults'
BY ConstantsAssumption DEF IInv, TypeOK, OwedInv, Jobs, Counts

\* A handler moves and the statuses stay.
LEMMA CallOwesMore ==
    ASSUME IInv, OwedInv, NEW h \in Calls, NEW k, CallBecomes(h, k), CallInv(k),
           CallOwes(call[h]) \subseteq CallOwes(k), Counts,
           UNCHANGED <<status, queue, work>>
    PROVE  OwedInv'
<1>1. \A c \in Chunks : status'[c] \in Unresolved =>
          \/ c \in CallOwes(k)
          \/ status[c] \in Unresolved /\ c \notin CallOwes(call[h])
  OBVIOUS
<1>2. \A j \in queue' : j.tries <= faults'
  BY QueuePaid
<1>3. QED BY <1>1, <1>2, CallOwesOn

\* A job moves and the statuses stay.
LEMMA WorkOwesMore ==
    ASSUME IInv, OwedInv, NEW w \in Workers, NEW k, WorkBecomes(w, k), WorkInv(k)',
           WorkOwes(work[w]) \subseteq WorkOwes(k), Counts,
           UNCHANGED <<status, queue, call>>
    PROVE  OwedInv'
<1>1. \A c \in Chunks : status'[c] \in Unresolved =>
          \/ c \in WorkOwes(k)
          \/ status[c] \in Unresolved /\ c \notin WorkOwes(work[w])
  OBVIOUS
<1>2. \A j \in queue' : j.tries <= faults'
  BY QueuePaid
<1>3. QED BY <1>1, <1>2, WorkOwesOn

\* A job resolves chunk c, and owes all the others it owed.
LEMMA WorkPays ==
    ASSUME IInv, OwedInv, JobsSurvive, NEW w \in Workers, NEW k, WorkBecomes(w, k), WorkInv(k)',
           NEW c \in Chunks, NEW s \in Statuses \ Unresolved, SetStatus(c, s),
           WorkOwes(work[w]) \ {c} \subseteq WorkOwes(k),
           UNCHANGED <<queue, call>>
    PROVE  OwedInv'
<1>0. Counts /\ status'[c] = s /\ \A d \in Chunks : d # c => status'[d] = status[d]
  BY StatusSet
<1>1. \A d \in Chunks : status'[d] \in Unresolved =>
          \/ d \in WorkOwes(k)
          \/ status[d] \in Unresolved /\ d \notin WorkOwes(work[w])
  BY <1>0
<1>2. \A j \in queue' : j.tries <= faults'
  BY <1>0, QueuePaid
<1>3. QED BY <1>0, <1>1, <1>2, WorkOwesOn

LEMMA NothingOwed ==
    /\ CallOwes(NoCall) = {} /\ CallInv(NoCall)
    /\ WorkOwes(NoWork) = {} /\ WorkInv(NoWork) /\ WorkInv(NoWork)'
BY DEF CallOwes, NoCall, CallInv, WorkOwes, NoWork, WorkInv

(***************************************************************************)
(* The API handlers.                                                       *)
(***************************************************************************)
LEMMA RequestOwes ==
    ASSUME IInv, OwedInv, JobsSurvive, NEW h \in Calls, StartRun(h) \/ StartCancel(h)
    PROVE  OwedInv'
<1>1. CallOwes(call[h]) = {}
  BY DEF OwedInv, CallInv, CallOwes, StartRun, StartCancel
<1>2. CASE StartRun(h)
  <2>1. CallInv([NoCall EXCEPT !.pc = "scan", !.todo = Chunks])
    BY DEF NoCall, CallInv
  <2>2. QED
    BY <1>1, <1>2, <2>1, NoFaultOrdered, CallOwesMore DEF StartRun
<1>3. CASE StartCancel(h)
  <2>1. CallInv([NoCall EXCEPT !.pc = "cancel", !.todo = {c \in Chunks : status[c] # None}])
    BY DEF NoCall, CallInv
  <2>2. Works
    BY <1>3 DEF StartCancel, JobsSurvive, Fails
  <2>3. QED
    BY <1>1, <1>3, <2>1, <2>2, FaultsOrdered, NothingOwed, CallOwesMore DEF StartCancel, EndCall
<1>4. QED BY <1>2, <1>3

LEMMA LoopOwes ==
    ASSUME IInv, OwedInv, JobsSurvive, NEW h \in Calls, NEW c \in Chunks,
           ScanChunk(h, c) \/ ReadForCancel(h, c)
    PROVE  OwedInv'
<1>1. PICK m \in CallType : m = call[h] /\ CallInv(m)
  BY DEF IInv, TypeOK, OwedInv
<1>2. Counts
  BY FaultsOrdered DEF ScanChunk, ReadForCancel
<1>3. CASE ScanChunk(h, c)
  <2>1. /\ CallInv([m EXCEPT !.todo = m.todo \ {c}])
        /\ CallOwes(m) \subseteq CallOwes([m EXCEPT !.todo = m.todo \ {c}])
    BY <1>1 DEF CallInv, CallOwes, CallType
  <2>2. /\ CallInv([m EXCEPT !.pc = "markQueued", !.chunk = c])
        /\ CallOwes(m) \subseteq CallOwes([m EXCEPT !.pc = "markQueued", !.chunk = c])
    BY <1>1, <1>3 DEF CallInv, CallOwes, CallType, ScanChunk
  <2>3. QED
    BY <1>1, <1>2, <1>3, <2>1, <2>2, CallOwesMore DEF ScanChunk, SkipCall, ToQueue
<1>4. CASE ReadForCancel(h, c)
  <2>1. /\ CallInv([m EXCEPT !.todo = m.todo \ {c}])
        /\ CallOwes(m) \subseteq CallOwes([m EXCEPT !.todo = m.todo \ {c}])
    BY <1>1 DEF CallInv, CallOwes, CallType
  <2>2. /\ CallInv([m EXCEPT !.pc = "markCancelled", !.chunk = c])
        /\ CallOwes(m) \subseteq CallOwes([m EXCEPT !.pc = "markCancelled", !.chunk = c])
    BY <1>1, <1>4 DEF CallInv, CallOwes, CallType, ReadForCancel
  <2>3. QED
    BY <1>1, <1>2, <1>4, <2>1, <2>2, CallOwesMore DEF ReadForCancel, SkipCall
<1>5. QED BY <1>3, <1>4

LEMMA MarkOwes ==
    ASSUME IInv, OwedInv, JobsSurvive, NEW h \in Calls, MarkQueued(h) \/ MarkCancelled(h)
    PROVE  OwedInv'
<1>1. PICK m \in CallType : m = call[h] /\ CallInv(m)
  BY DEF IInv, TypeOK, OwedInv
<1>2. CASE MarkQueued(h)
  <2> DEFINE k == [m EXCEPT !.pc = "scan", !.chunk = None, !.todo = m.todo \ {m.chunk},
                            !.pending = m.pending \cup {m.chunk}]
  <2>1. m.chunk \in Chunks
    BY <1>1, <1>2 DEF MarkQueued, IInv, CallKnows
  <2>2. CallInv(k) /\ CallOwes(k) = m.pending \cup {m.chunk}
    BY DEF CallInv, CallOwes, CallType
  <2>3. CallOwes(m) = m.pending \cup {m.chunk}
    BY <1>1, <1>2 DEF CallOwes, MarkQueued
  <2>4. Counts /\ \A d \in Chunks : d # m.chunk => status'[d] = status[d]
    BY <1>1, <1>2, <2>1, StatusSet DEF MarkQueued
  <2>5. CallBecomes(h, k) /\ UNCHANGED <<queue, work>>
    BY <1>1, <1>2 DEF MarkQueued
  <2>6. \A d \in Chunks : status'[d] \in Unresolved =>
            \/ d \in CallOwes(k)
            \/ status[d] \in Unresolved /\ d \notin CallOwes(call[h])
    BY <1>1, <2>2, <2>3, <2>4
  <2>7. \A j \in queue' : j.tries <= faults'
    BY <2>4, <2>5, QueuePaid
  <2> HIDE DEF k
  <2>8. QED BY <2>2, <2>4, <2>5, <2>6, <2>7, CallOwesOn
<1>3. CASE MarkCancelled(h)
  <2> DEFINE k == [m EXCEPT !.pc = "cancel", !.chunk = None, !.todo = m.todo \ {m.chunk}]
  <2>1. CallInv(k) /\ CallOwes(m) = {}
    BY <1>1, <1>3 DEF CallInv, CallOwes, CallType, MarkCancelled
  <2>2. CallBecomes(h, k) /\ SetStatus(m.chunk, "cancelled") /\ UNCHANGED <<queue, work>>
    BY <1>1, <1>3 DEF MarkCancelled
  <2>3. Counts
    BY <2>2, NoFaultOrdered DEF SetStatus, Works, Fails, JobsSurvive
  <2>4. \A d \in Chunks : status'[d] \in Unresolved => status[d] \in Unresolved
    BY <2>2 DEF SetStatus, Unresolved, IInv, TypeOK
  <2>5. \A j \in queue' : j.tries <= faults'
    BY <2>2, <2>3, QueuePaid
  <2> HIDE DEF k
  <2>6. QED BY <1>1, <2>1, <2>2, <2>3, <2>4, <2>5, CallOwesOn
<1>4. QED BY <1>2, <1>3

LEMMA EnqueueOwes ==
    ASSUME IInv, OwedInv, JobsSurvive, NEW h \in Calls, EnqueueBatch(h)
    PROVE  OwedInv'
<1>1. PICK m \in CallType : m = call[h] /\ m.pc = "scan"
  BY DEF IInv, TypeOK, EnqueueBatch
<1>2. Counts /\ UNCHANGED <<status, work>>
  BY FaultsOrdered DEF EnqueueBatch
<1>3. PICK batch : /\ queue' = queue \cup {NewJob(batch)}
                   /\ CallBecomes(h, [m EXCEPT !.pending = m.pending \ batch])
  BY <1>1 DEF EnqueueBatch, Fails, JobsSurvive
<1> DEFINE k == [m EXCEPT !.pending = m.pending \ batch]
<1>4. CallInv(k) /\ CallOwes(m) = m.pending /\ CallOwes(k) = m.pending \ batch
  BY <1>1 DEF CallInv, CallOwes, CallType
<1>5. NewJob(batch) \in queue' /\ NewJob(batch).chunks = batch /\ NewJob(batch).tries = 0
  BY <1>3 DEF NewJob
<1>6. \A c \in Chunks : status'[c] \in Unresolved =>
          \/ c \in CallOwes(k)
          \/ \E j \in queue' : c \in j.chunks
          \/ status[c] \in Unresolved /\ c \notin CallOwes(call[h])
  BY <1>1, <1>2, <1>4, <1>5
<1>7. \A j \in queue' : j.tries <= faults'
  BY <1>2, <1>3, <1>5, QueuePaid DEF Counts
<1>8. CallBecomes(h, k) /\ queue \subseteq queue'
  BY <1>3
<1> HIDE DEF k
<1>9. QED BY <1>2, <1>4, <1>6, <1>7, <1>8, CallOwesOn

LEMMA FinishOwes ==
    ASSUME IInv, OwedInv, NEW h \in Calls, FinishRun(h) \/ FinishCancel(h)
    PROVE  OwedInv'
<1>1. CallOwes(call[h]) = {}
  BY DEF OwedInv, CallInv, CallOwes, FinishRun, FinishCancel
<1>2. QED
  BY <1>1, NoFaultOrdered, NothingOwed, CallOwesMore DEF FinishRun, FinishCancel, EndCall

(***************************************************************************)
(* batch_extraction_job.                                                   *)
(***************************************************************************)
\* What is known of a job that is under way.
LEMMA JobKnown ==
    ASSUME IInv, OwedInv, NEW w \in Workers, work[w].pc # "idle"
    PROVE  /\ work[w] \in WorkType /\ WorkInv(work[w])
           /\ work[w].job \in Jobs
           /\ work[w].todo \cup work[w].texts \subseteq work[w].job.chunks
           /\ work[w].job.chunks \subseteq Chunks
           /\ work[w].job.tries \in Nat
           /\ work[w].job.tries <= faults + 1
           /\ work[w].again => work[w].job.tries <= faults
           /\ WorkOwes(work[w]) = Owed(work[w])
           /\ WorkOwes(work[w]) \subseteq work[w].job.chunks
           /\ faults \in Nat
<1>1. /\ work[w] \in WorkType /\ WorkInv(work[w]) /\ faults \in Nat
      /\ work[w].job \in Jobs /\ work[w].job.chunks \subseteq Chunks
  BY JobInHand DEF OwedInv, IInv, TypeOK
<1>2. work[w].job.tries \in Nat
  BY <1>1, ConstantsAssumption DEF Jobs
<1>3. /\ work[w].todo \cup work[w].texts \subseteq work[w].job.chunks
      /\ work[w].job.tries <= faults + 1
      /\ work[w].again => work[w].job.tries <= faults
  BY <1>1, <1>2 DEF WorkInv
<1>4. WorkOwes(work[w]) = Owed(work[w])
  BY DEF WorkOwes
<1>5. Owed(work[w]) \subseteq work[w].job.chunks
  BY <1>3 DEF Owed
<1>6. QED BY <1>1, <1>2, <1>3, <1>4, <1>5

\* Chunk c leaves a loop: it is all the job no longer owes.
LEMMA SkipOwes ==
    ASSUME IInv, OwedInv, Counts, NEW w \in Workers, NEW c, NEW k,
           work[w].pc \notin {"idle", "written", "broken", "markFailed"},
           k = [work[w] EXCEPT !.todo = work[w].todo \ {c}]
    PROVE  WorkInv(k)' /\ \A d \in WorkOwes(work[w]) : d # c => d \in WorkOwes(k)
<1>1. PICK m : m = work[w]
  OBVIOUS
<1>2. m.job.tries \in Nat /\ WorkInv(m) /\ m \in WorkType
  BY <1>1, JobKnown
<1>3. k = [m EXCEPT !.todo = m.todo \ {c}]
  BY <1>1
<1>4. /\ k.pc = m.pc /\ k.job = m.job /\ k.todo = m.todo \ {c} /\ k.texts = m.texts
      /\ k.again = m.again /\ k.chunk = m.chunk
  BY <1>2, <1>3 DEF WorkType
<1>5. WorkInv(k)'
  BY <1>1, <1>2, <1>4 DEF WorkInv, Counts
<1>6. \A d \in WorkOwes(m) : d # c => d \in WorkOwes(k)
  BY <1>1, <1>4 DEF WorkOwes, Owed
<1>7. QED BY <1>1, <1>5, <1>6

\* A body that raises owes all its chunks.
LEMMA AbandonedOwes ==
    ASSUME IInv, OwedInv, NEW w \in Workers, work[w].pc # "idle", NEW again \in BOOLEAN,
           Counts, ~again \/ faults' = faults + 1, NEW k, k = Abandoned(w, again)
    PROVE  WorkInv(k)' /\ WorkOwes(work[w]) \subseteq WorkOwes(k)
<1>1. PICK m : m = work[w]
  OBVIOUS
<1>3. /\ k.pc = "abandon" /\ k.job = m.job /\ k.todo = m.job.chunks /\ k.texts = m.texts
      /\ k.again = again
  BY <1>1, JobKnown DEF WorkType, Abandoned
<1>4. WorkOwes(k) = m.job.chunks
  BY <1>3 DEF WorkOwes, Owed
<1>5. /\ m.job.tries \in Nat /\ m.job.tries <= faults + 1
      /\ m.texts \subseteq m.job.chunks
      /\ faults \in Nat
  BY <1>1, JobKnown
<1>6. WorkInv(k)'
  BY <1>3, <1>5 DEF WorkInv, Counts
<1>7. QED BY <1>1, <1>4, <1>6, JobKnown

\* Under JobsSurvive a job that waits is always started.
LEMMA TakeOwes ==
    ASSUME IInv, OwedInv, JobsSurvive, NEW w \in Workers, TakeJob(w)
    PROVE  OwedInv'
<1>1. PICK j \in queue :
        /\ queue' = queue \ {j}
        /\ IF GivenUp(j)
           THEN work' = work
           ELSE WorkBecomes(w, [NoWork EXCEPT !.pc = "mark", !.job = Tried(j),
                                   !.todo = j.chunks])
  BY DEF TakeJob
<1>2. j \in Jobs /\ j.tries \in Nat /\ j.tries <= faults /\ faults \in Nat
  BY <1>1, ConstantsAssumption DEF IInv, TypeOK, OwedInv, Jobs
<1>3. ~GivenUp(j)
  BY <1>2, ConstantsAssumption DEF GivenUp, OwedInv, JobsSurvive
<1>4. Counts /\ UNCHANGED <<status, call, faults>>
  BY NoFaultOrdered DEF TakeJob
<1>5. PICK k : k = [NoWork EXCEPT !.pc = "mark", !.job = Tried(j), !.todo = j.chunks]
  OBVIOUS
<1>6. /\ k.pc = "mark" /\ k.todo = j.chunks /\ k.texts = {} /\ ~k.again
      /\ k.job.chunks = j.chunks /\ k.job.tries = j.tries + 1
  BY <1>2, <1>5 DEF NoWork, Tried, Jobs
<1>7. WorkInv(k)' /\ WorkOwes(k) = j.chunks
  BY <1>2, <1>4, <1>6 DEF WorkInv, WorkOwes, Owed
<1>8. WorkOwes(work[w]) = {}
  BY DEF TakeJob, WorkOwes
<1>9. \A i \in queue : i \in queue' \/ i.chunks \subseteq WorkOwes(k)
  BY <1>1, <1>7
<1>10. \A i \in queue' : i.tries <= faults'
  BY <1>1, <1>4, QueuePaid
<1>11. \A c \in Chunks : status'[c] \in Unresolved =>
          status[c] \in Unresolved /\ c \notin WorkOwes(work[w])
  BY <1>4, <1>8
<1>12. WorkBecomes(w, k)
  BY <1>1, <1>3, <1>5
<1>13. QED BY <1>4, <1>7, <1>9, <1>10, <1>11, <1>12, WorkOwesOn

LEMMA MarkRunningOwes ==
    ASSUME IInv, OwedInv, JobsSurvive, NEW w \in Workers, NEW c \in Chunks, MarkRunning(w, c)
    PROVE  OwedInv'
<1>1. /\ Counts /\ UNCHANGED <<queue, call>> /\ work[w].pc = "mark" /\ c \in work[w].todo
      /\ \A d \in Chunks : d # c => status'[d] = status[d]
  BY StatusSet DEF MarkRunning
<1>2. WorkOwes(work[w]) = work[w].job.chunks /\ c \in work[w].job.chunks
  BY <1>1, JobKnown DEF Owed
<1>3. ASSUME NEW k, WorkBecomes(w, k), WorkInv(k)', WorkOwes(k) = work[w].job.chunks
      PROVE  OwedInv'
  <2>1. \A d \in Chunks : status'[d] \in Unresolved =>
            \/ d \in WorkOwes(k)
            \/ status[d] \in Unresolved /\ d \notin WorkOwes(work[w])
    BY <1>1, <1>2, <1>3
  <2>2. \A j \in queue' : j.tries <= faults'
    BY <1>1, QueuePaid
  <2>3. QED BY <1>1, <1>3, <2>1, <2>2, WorkOwesOn
<1>4. PICK k : k = [work[w] EXCEPT !.pc = "fetch", !.todo = work[w].job.chunks]
  OBVIOUS
<1>5. /\ k.pc = "fetch" /\ k.job = work[w].job /\ k.todo = work[w].job.chunks
      /\ k.texts = work[w].texts /\ k.again = work[w].again
  BY <1>1, <1>4, JobKnown DEF WorkType
<1>6. WorkInv(k)' /\ WorkOwes(k) = work[w].job.chunks
  BY <1>1, <1>5, JobKnown DEF WorkInv, Counts, WorkOwes, Owed
<1>7. PICK l : l = [work[w] EXCEPT !.todo = work[w].todo \ {c}]
  OBVIOUS
<1>8. l.pc = "mark" /\ l.job = work[w].job
  BY <1>1, <1>7, JobKnown DEF WorkType
<1>9. WorkInv(l)' /\ WorkOwes(l) = work[w].job.chunks
  <2>1. WorkInv(l)'
    BY <1>1, <1>7, SkipOwes
  <2>2. QED BY <2>1, <1>8 DEF WorkOwes, Owed
<1>10. WorkBecomes(w, k) \/ WorkBecomes(w, l)
  BY <1>4, <1>7 DEF MarkRunning, SkipWork
<1>11. QED BY <1>3, <1>6, <1>9, <1>10

LEMMA FetchOwes ==
    ASSUME IInv, OwedInv, NEW w \in Workers, NEW c \in Chunks, FetchText(w, c)
    PROVE  OwedInv'
<1>1. Counts /\ UNCHANGED <<status, queue, call>> /\ work[w].pc = "fetch" /\ c \in work[w].todo
  BY FaultsOrdered DEF FetchText
<1>2. WorkOwes(work[w]) = work[w].job.chunks /\ ~work[w].again
  BY <1>1, JobKnown DEF Owed, WorkInv
<1>3. PICK k : k = [work[w] EXCEPT !.todo = work[w].todo \ {c}, !.texts = work[w].texts \cup {c}]
  OBVIOUS
<1>4. /\ k.pc = "fetch" /\ k.job = work[w].job /\ k.todo = work[w].todo \ {c}
      /\ k.texts = work[w].texts \cup {c} /\ k.again = work[w].again
  BY <1>1, <1>3, JobKnown DEF WorkType
<1>5. PICK l : l = [work[w] EXCEPT !.todo = work[w].todo \ {c}]
  OBVIOUS
<1>6. /\ l.pc = "fetch" /\ l.job = work[w].job /\ l.todo = work[w].todo \ {c}
      /\ l.texts = work[w].texts /\ l.again = work[w].again
  BY <1>1, <1>5, JobKnown DEF WorkType
<1>7. /\ WorkInv(k)' /\ WorkOwes(k) = work[w].job.chunks
      /\ WorkInv(l)' /\ WorkOwes(l) = work[w].job.chunks
  BY <1>1, <1>2, <1>4, <1>6, JobKnown DEF WorkInv, Counts, WorkOwes, Owed
<1>8. PICK m : m = Abandoned(w, FALSE)
  OBVIOUS
<1>9. WorkInv(m)' /\ WorkOwes(work[w]) \subseteq WorkOwes(m)
  BY <1>1, <1>8, AbandonedOwes
<1>10. WorkBecomes(w, k) \/ WorkBecomes(w, l) \/ WorkBecomes(w, m)
  BY <1>8, <1>3, <1>5 DEF FetchText, SkipWork, Raise
<1>11. QED BY <1>1, <1>2, <1>7, <1>9, <1>10, WorkOwesMore

LEMMA FetchDoneOwes ==
    ASSUME IInv, OwedInv, NEW w \in Workers, FetchDone(w)
    PROVE  OwedInv'
<1>1. Counts /\ UNCHANGED <<status, queue, call>> /\ work[w].pc = "fetch"
  BY NoFaultOrdered DEF FetchDone
<1>2. PICK k : k = [work[w] EXCEPT !.pc = "missing", !.todo = work[w].job.chunks \ work[w].texts]
  OBVIOUS
<1>3. /\ k.pc = "missing" /\ k.job = work[w].job /\ k.todo = work[w].job.chunks \ work[w].texts
      /\ k.texts = work[w].texts /\ k.again = work[w].again
  BY <1>1, <1>2, JobKnown DEF WorkType
<1>4. ~work[w].again
  BY <1>1, JobKnown DEF WorkInv
<1>5. WorkInv(k)' /\ work[w].job.chunks \subseteq WorkOwes(k)
  BY <1>1, <1>3, <1>4, JobKnown DEF WorkInv, Counts, WorkOwes, Owed
<1>6. QED BY <1>1, <1>2, <1>5, JobKnown, WorkOwesMore DEF FetchDone

LEMMA MissingDoneOwes ==
    ASSUME IInv, OwedInv, NEW w \in Workers, MissingDone(w)
    PROVE  OwedInv'
<1>1. /\ Counts /\ UNCHANGED <<status, queue, call>> /\ work[w].pc = "missing"
      /\ work[w].todo = {}
  BY NoFaultOrdered DEF MissingDone
<1>2. WorkOwes(work[w]) = work[w].texts /\ ~work[w].again
  BY <1>1, JobKnown DEF WorkInv, Owed
<1>3. PICK k : k = [work[w] EXCEPT !.pc = "extract"]
  OBVIOUS
<1>4. /\ k.pc = "extract" /\ k.job = work[w].job /\ k.todo = work[w].todo
      /\ k.texts = work[w].texts /\ k.again = work[w].again
  BY <1>1, <1>3, JobKnown DEF WorkType
<1>5. WorkInv(k)' /\ WorkOwes(k) = work[w].texts
  BY <1>1, <1>2, <1>4, JobKnown DEF WorkInv, Counts, WorkOwes, Owed
<1>6. CASE NothingToExtract(w)
  BY <1>1, <1>2, <1>6, NothingOwed, WorkOwesMore DEF MissingDone, NothingToExtract, EndJob
<1>7. CASE ~NothingToExtract(w)
  BY <1>1, <1>2, <1>3, <1>5, <1>7, WorkOwesMore DEF MissingDone, Proceed
<1>8. QED BY <1>6, <1>7

LEMMA ExtractOwes ==
    ASSUME IInv, OwedInv, NEW w \in Workers, Extract(w)
    PROVE  OwedInv'
<1>1. Counts /\ UNCHANGED <<status, queue, call>> /\ work[w].pc = "extract"
  BY FaultsOrdered DEF Extract
<1>2. WorkOwes(work[w]) = work[w].texts /\ ~work[w].again
  BY <1>1, JobKnown DEF WorkInv, Owed
<1>3. ASSUME NEW results,
             WorkBecomes(w, [work[w] EXCEPT !.pc = "write", !.todo = work[w].texts,
                                            !.results = results])
      PROVE  OwedInv'
  <2>1. PICK k : k = [work[w] EXCEPT !.pc = "write", !.todo = work[w].texts,
                                     !.results = results]
    OBVIOUS
  <2>2. /\ k.pc = "write" /\ k.job = work[w].job /\ k.todo = work[w].texts
        /\ k.texts = work[w].texts /\ k.again = work[w].again
    BY <1>1, <2>1, JobKnown DEF WorkType
  <2>3. WorkInv(k)' /\ WorkOwes(k) = work[w].texts
    BY <1>1, <1>2, <2>2, JobKnown DEF WorkInv, Counts, WorkOwes, Owed
  <2>4. QED BY <1>1, <1>2, <1>3, <2>1, <2>3, WorkOwesMore
<1>4. PICK m : m = Abandoned(w, FALSE)
  OBVIOUS
<1>5. CASE WorkBecomes(w, Abandoned(w, FALSE))
  <2>1. WorkInv(m)' /\ WorkOwes(work[w]) \subseteq WorkOwes(m)
    BY <1>1, <1>4, AbandonedOwes
  <2>2. QED BY <1>1, <1>4, <1>5, <2>1, WorkOwesMore
<1>6. QED BY <1>3, <1>5 DEF Extract, Raise

LEMMA FailOwes ==
    ASSUME IInv, OwedInv, JobsSurvive, NEW w \in Workers, NEW c \in Chunks,
           FailMissing(w, c) \/ FailUnanswered(w, c)
    PROVE  OwedInv'
<1>1. Counts /\ UNCHANGED <<queue, call>> /\ SetStatus(c, "failed") /\ SkipWork(w, c)
  BY StatusSet DEF FailMissing, FailUnanswered
<1>2. PICK k : k = [work[w] EXCEPT !.todo = work[w].todo \ {c}]
  OBVIOUS
<1>3. work[w].pc \in {"missing", "write"}
  BY DEF FailMissing, FailUnanswered
<1>4. WorkInv(k)' /\ \A d \in WorkOwes(work[w]) : d # c => d \in WorkOwes(k)
  BY <1>3, <1>1, <1>2, SkipOwes
<1>5. WorkBecomes(w, k) /\ "failed" \in Statuses \ Unresolved
  BY <1>1, <1>2 DEF SkipWork, Statuses, Unresolved
<1>6. QED BY <1>1, <1>4, <1>5, WorkPays

LEMMA WriteOwes ==
    ASSUME IInv, OwedInv, NEW w \in Workers, NEW c \in Chunks, WriteGraph(w, c)
    PROVE  OwedInv'
<1>1. Counts /\ UNCHANGED <<status, queue, call>> /\ work[w].pc = "write" /\ c \in work[w].todo
  BY FaultsOrdered DEF WriteGraph
<1>2. PICK pc \in {"written", "broken"} : WorkBecomes(w, [work[w] EXCEPT !.pc = pc, !.chunk = c])
  BY DEF WriteGraph
<1>3. PICK k : k = [work[w] EXCEPT !.pc = pc, !.chunk = c]
  OBVIOUS
<1>4. /\ k.pc = pc /\ k.job = work[w].job /\ k.todo = work[w].todo /\ k.chunk = c
      /\ k.texts = work[w].texts /\ k.again = work[w].again
  BY <1>1, <1>3, JobKnown DEF WorkType
<1>5. WorkInv(k)' /\ WorkOwes(work[w]) \subseteq WorkOwes(k)
  BY <1>1, <1>2, <1>4, JobKnown DEF WorkInv, Counts, WorkOwes, Owed
<1>6. QED BY <1>1, <1>2, <1>3, <1>5, WorkOwesMore

LEMMA ReportOwes ==
    ASSUME IInv, OwedInv, JobsSurvive, NEW w \in Workers, ReportChunk(w) \/ MarkFailed(w)
    PROVE  OwedInv'
<1>1. /\ work[w].pc \in {"written", "broken", "markFailed"}
      /\ UNCHANGED <<queue, call>>
  BY DEF ReportChunk, MarkFailed
<1>2. work[w].chunk \in work[w].todo /\ work[w].chunk \in Chunks
  BY <1>1, JobKnown DEF WorkInv
<1>3. PICK s \in Statuses \ Unresolved : SetStatus(work[w].chunk, s)
  BY DEF ReportChunk, MarkFailed, Outcome, Statuses, Unresolved
<1>4. Counts
  BY <1>2, <1>3, StatusSet
<1>5. PICK pc \in {"write", "abandon"} :
        /\ pc = "abandon" <=> work[w].pc = "markFailed"
        /\ WorkBecomes(w, [work[w] EXCEPT !.pc = pc, !.chunk = None,
                              !.todo = work[w].todo \ {work[w].chunk}])
  BY DEF ReportChunk, MarkFailed
<1>6. PICK k : k = [work[w] EXCEPT !.pc = pc, !.chunk = None,
                                   !.todo = work[w].todo \ {work[w].chunk}]
  OBVIOUS
<1>7. /\ k.pc = pc /\ k.job = work[w].job /\ k.todo = work[w].todo \ {work[w].chunk}
      /\ k.texts = work[w].texts /\ k.again = work[w].again
  BY <1>1, <1>6, JobKnown DEF WorkType
<1>8. WorkInv(k)' /\ \A d \in WorkOwes(work[w]) : d # work[w].chunk => d \in WorkOwes(k)
  BY <1>1, <1>4, <1>5, <1>7, JobKnown DEF WorkInv, Counts, WorkOwes, Owed
<1>9. QED BY <1>1, <1>2, <1>3, <1>5, <1>6, <1>8, WorkPays

LEMMA FinishJobOwes ==
    ASSUME IInv, OwedInv, NEW w \in Workers, FinishJob(w)
    PROVE  OwedInv'
<1>1. Counts /\ UNCHANGED <<status, queue, call>> /\ work[w].pc = "write" /\ work[w].todo = {}
  BY NoFaultOrdered DEF FinishJob
<1>2. WorkOwes(work[w]) = {}
  BY <1>1, JobKnown DEF WorkInv, Owed
<1>3. QED BY <1>1, <1>2, NothingOwed, WorkOwesMore DEF FinishJob, EndJob

\* A job that is handed back to ARQ takes its chunks along.
LEMMA HandsBack ==
    ASSUME IInv, OwedInv, NEW w \in Workers, work[w].pc # "idle", Counts,
           work[w].job.tries <= faults', queue' = queue \cup {work[w].job}, EndJob(w),
           UNCHANGED <<status, call>>
    PROVE  OwedInv'
<1>1. \A j \in queue' : j.tries <= faults'
  BY QueuePaid
<1>2. \A c \in Chunks : status'[c] \in Unresolved =>
          \/ \E j \in queue' : c \in j.chunks
          \/ status[c] \in Unresolved /\ c \notin WorkOwes(work[w])
  BY JobKnown
<1>3. QED BY <1>1, <1>2, NothingOwed, WorkOwesOn DEF EndJob

LEMMA InterruptOwes ==
    ASSUME IInv, OwedInv, NEW w \in Workers, Interrupt(w)
    PROVE  OwedInv'
<1>1. Counts /\ UNCHANGED <<status, call>> /\ faults' = faults + 1 /\ work[w].pc # "idle"
  BY FaultsOrdered DEF Interrupt, Fails
<1>2. CASE queue' = queue \cup {work[w].job} /\ EndJob(w)
  BY <1>1, <1>2, JobKnown, HandsBack
<1>3. CASE queue' = queue /\ \E again \in BOOLEAN : WorkBecomes(w, Abandoned(w, again))
  <2>1. PICK again \in BOOLEAN : WorkBecomes(w, Abandoned(w, again))
    BY <1>3
  <2>2. PICK k : k = Abandoned(w, again)
    OBVIOUS
  <2>3. WorkInv(k)' /\ WorkOwes(work[w]) \subseteq WorkOwes(k)
    BY <1>1, <2>2, AbandonedOwes
  <2>4. QED BY <1>1, <1>3, <2>1, <2>2, <2>3, WorkOwesMore
<1>4. QED BY <1>2, <1>3 DEF Interrupt

LEMMA ReadForFailureOwes ==
    ASSUME IInv, OwedInv, JobsSurvive, NEW w \in Workers, NEW c \in Chunks, ReadForFailure(w, c)
    PROVE  OwedInv'
<1>1. /\ Counts /\ UNCHANGED <<status, queue, call>> /\ work[w].pc = "abandon"
      /\ c \in work[w].todo
  BY FaultsOrdered DEF ReadForFailure
<1>2. CASE status[c] \in Resolved /\ SkipWork(w, c)
  <2>0. PICK k : k = [work[w] EXCEPT !.todo = work[w].todo \ {c}]
    OBVIOUS
  <2>1. WorkInv(k)' /\ \A d \in WorkOwes(work[w]) : d # c => d \in WorkOwes(k)
    BY <1>1, <2>0, SkipOwes
  <2>2. status'[c] \notin Unresolved
    BY <1>1, <1>2 DEF Resolved, Unresolved
  <2>3. \A d \in Chunks : status'[d] \in Unresolved =>
            \/ d \in WorkOwes(k)
            \/ status[d] \in Unresolved /\ d \notin WorkOwes(work[w])
    BY <1>1, <2>1, <2>2
  <2>4. \A j \in queue' : j.tries <= faults'
    BY <1>1, QueuePaid
  <2>5. WorkBecomes(w, k)
    BY <1>2, <2>0 DEF SkipWork
  <2>6. QED BY <1>1, <2>1, <2>3, <2>4, <2>5, WorkOwesOn
<1>3. CASE WorkBecomes(w, [work[w] EXCEPT !.pc = "markFailed", !.chunk = c])
  <2>1. PICK k : k = [work[w] EXCEPT !.pc = "markFailed", !.chunk = c]
    OBVIOUS
  <2>2. /\ k.pc = "markFailed" /\ k.job = work[w].job /\ k.todo = work[w].todo
        /\ k.texts = work[w].texts /\ k.again = work[w].again /\ k.chunk = c
    BY <1>1, <2>1, JobKnown DEF WorkType
  <2>3. WorkInv(k)' /\ WorkOwes(work[w]) \subseteq WorkOwes(k)
    BY <1>1, <2>2, JobKnown DEF WorkInv, Counts, WorkOwes, Owed
  <2>4. QED BY <1>1, <1>3, <2>1, <2>3, WorkOwesMore
<1>4. QED BY <1>2, <1>3 DEF ReadForFailure

LEMMA FinishAbandonedOwes ==
    ASSUME IInv, OwedInv, NEW w \in Workers, FinishAbandoned(w)
    PROVE  OwedInv'
<1>1. /\ Counts /\ UNCHANGED <<status, call>> /\ work[w].pc = "abandon" /\ work[w].todo = {}
      /\ faults' = faults /\ EndJob(w) /\ queue' = queue \cup Requeued(w)
  BY NoFaultOrdered DEF FinishAbandoned
<1>2. CASE work[w].again
  BY <1>1, <1>2, JobKnown, HandsBack DEF Requeued
<1>3. CASE ~work[w].again
  <2>1. WorkOwes(work[w]) = {}
    BY <1>1, <1>3, JobKnown DEF Owed
  <2>2. QED BY <1>1, <1>3, <2>1, NothingOwed, WorkOwesMore DEF EndJob, Requeued
<1>4. QED BY <1>2, <1>3

LEMMA WorkStepOwes ==
    ASSUME IInv, OwedInv, JobsSurvive, NEW w \in Workers, WorkStep(w)
    PROVE  OwedInv'
BY TakeOwes, MarkRunningOwes, FetchOwes, FetchDoneOwes, MissingDoneOwes, ExtractOwes, FailOwes,
   WriteOwes, ReportOwes, FinishJobOwes, ReadForFailureOwes, FinishAbandonedOwes
DEF WorkStep

\* The worker dies: what its jobs owed is back in the queue.
LEMMA WorkerCrashOwes ==
    ASSUME IInv, OwedInv, WorkerCrash
    PROVE  OwedInv'
<1>1. Counts /\ UNCHANGED <<status, call>> /\ faults' = faults + 1
  BY FaultsOrdered DEF WorkerCrash, Fails
<1>2. ASSUME NEW c \in Chunks, status'[c] \in Unresolved
      PROVE  Attended(c)'
  <2>1. Attended(c)
    BY <1>1, <1>2 DEF OwedInv
  <2>2. CASE \E j \in queue : c \in j.chunks
    BY <2>2 DEF Attended, WorkerCrash
  <2>3. CASE \E w \in Workers : c \in WorkOwes(work[w])
    <3>1. PICK w \in Workers : c \in WorkOwes(work[w])
      BY <2>3
    <3>2. work[w].pc # "idle"
      BY <3>1 DEF WorkOwes
    <3>3. work[w].job \in queue' /\ c \in work[w].job.chunks
      BY <3>1, <3>2, JobKnown DEF WorkerCrash
    <3>4. QED BY <3>3 DEF Attended
  <2>4. CASE \E h \in Calls : c \in CallOwes(call[h])
    BY <1>1, <2>4 DEF Attended, CallOwes
  <2>5. QED BY <2>1, <2>2, <2>3, <2>4 DEF Attended
<1>3. \A w \in Workers : WorkInv(work[w])'
  BY NothingOwed DEF WorkerCrash, WorkInv
<1>4. \A h \in Calls : CallInv(call[h])'
  BY <1>1 DEF OwedInv, CallInv
<1>5. \A w \in Workers : work[w].pc # "idle" => work[w].job.tries <= faults'
  BY <1>1, JobKnown
<1>6. \A j \in queue' : j.tries <= faults'
  BY <1>1, <1>5, QueuePaid DEF WorkerCrash
<1>7. QED BY <1>1, <1>2, <1>3, <1>4, <1>6 DEF OwedInv, Counts

(***************************************************************************)
(* The theorem.                                                            *)
(***************************************************************************)
\* No status becomes unresolved and nothing else moves.
LEMMA RestOwes ==
    ASSUME IInv, OwedInv, UNCHANGED <<queue, call, work, faults>>,
           \A c \in Chunks : status'[c] \in Unresolved => status[c] \in Unresolved
    PROVE  OwedInv'
<1>1. ASSUME NEW c \in Chunks, status'[c] \in Unresolved
      PROVE  Attended(c)'
  <2>1. Attended(c)
    BY <1>1 DEF OwedInv
  <2>2. QED BY <2>1 DEF Attended, WorkOwes, Owed, CallOwes
<1>2. QED BY <1>1 DEF OwedInv, WorkInv, CallInv

LEMMA NextOwes ==
    ASSUME IInv, OwedInv, JobsSurvive, [Next]_vars
    PROVE  OwedInv'
<1>1. ASSUME NEW h \in Calls, StartRun(h) \/ StartCancel(h) \/ CallStep(h)
      PROVE  OwedInv'
  BY <1>1, RequestOwes, LoopOwes, MarkOwes, EnqueueOwes, FinishOwes DEF CallStep
<1>2. ASSUME NEW w \in Workers, WorkStep(w) \/ Interrupt(w)
      PROVE  OwedInv'
  BY <1>2, WorkStepOwes, InterruptOwes
<1>3. ~ApiCrash
  BY DEF ApiCrash, Fails, JobsSurvive
<1>4. CASE WorkerCrash
  BY <1>4, WorkerCrashOwes
<1>5. ASSUME NEW c \in Chunks, ExpireStatus(c)
      PROVE  OwedInv'
  <2>1. \A d \in Chunks : status'[d] \in Unresolved => status[d] \in Unresolved
    BY <1>5, ConstantsAssumption DEF ExpireStatus, IInv, TypeOK, Unresolved, Statuses
  <2>2. QED BY <1>5, <2>1, RestOwes DEF ExpireStatus
<1>6. CASE UNCHANGED vars
  BY <1>6, RestOwes DEF vars
<1>7. QED BY <1>1, <1>2, <1>3, <1>4, <1>5, <1>6 DEF Next

LEMMA InitOwes ==
    ASSUME Init
    PROVE  OwedInv
BY ConstantsAssumption, NothingOwed
DEF Init, OwedInv, CallInv, WorkInv, NoCall, NoWork, Unresolved, Statuses

\* What is owed is in a job or in the hands of a request.
LEMMA OwedIsHeld ==
    ASSUME IInv, OwedInv
    PROVE  UnresolvedHasJob
<1> SUFFICES ASSUME NEW c \in Chunks, Attended(c)
             PROVE  c \in HeldByJobs \cup UNION {HeldByCall(h) : h \in Calls}
  BY DEF OwedInv, UnresolvedHasJob
<1>1. CASE \E j \in queue : c \in j.chunks
  BY <1>1 DEF HeldByJobs
<1>2. CASE \E w \in Workers : c \in WorkOwes(work[w])
  <2>1. PICK w \in Workers : c \in WorkOwes(work[w])
    BY <1>2
  <2>2. work[w].pc # "idle"
    BY <2>1 DEF WorkOwes
  <2>3. c \in work[w].job.chunks
    BY <2>1, <2>2, JobKnown
  <2>4. QED BY <2>2, <2>3 DEF HeldByJobs
<1>3. CASE \E h \in Calls : c \in CallOwes(call[h])
  BY <1>3 DEF CallOwes, HeldByCall
<1>4. QED BY <1>1, <1>2, <1>3 DEF Attended

\* Where no status write is lost, the API process survives and a job is tried more
\* often than anything fails, every unresolved chunk is owed a final status.
THEOREM OwedInvariance == Spec => [](JobsSurvive => OwedInv)
<1>1. Init => (JobsSurvive => OwedInv)
  BY InitOwes
<1>2. IInv /\ (JobsSurvive => OwedInv) /\ [Next]_vars => (JobsSurvive => OwedInv)'
  BY NextOwes DEF JobsSurvive
<1>3. QED
  BY <1>1, <1>2, Invariance, PTL DEF Spec

\* Under the same conditions a chunk shown as queued or running is never orphaned:
\* not by an error of the body, a timeout, a shutdown or a crash of the worker, in
\* whatever order batch_extraction_job, /run and /cancel overwrite each other.
THEOREM UnresolvedIsOwned == Spec => [](JobsSurvive => UnresolvedHasJob)
<1>1. IInv /\ (JobsSurvive => OwedInv) => (JobsSurvive => UnresolvedHasJob)
  BY OwedIsHeld
<1>2. QED
  BY <1>1, Invariance, OwedInvariance, PTL
=============================================================================
