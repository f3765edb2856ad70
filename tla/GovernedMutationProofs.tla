----------------------- MODULE GovernedMutationProofs -----------------------
(* Theorems about GovernedMutation, for any proposals, actors, slots, bounds *)
(* and faults.                                                               *)
EXTENDS GovernedMutation, TLAPS

(***************************************************************************)
(* Framing: what a step must show about the slot it moves, and what the    *)
(* other slots keep.                                                       *)
(***************************************************************************)
\* What the stores and the gate hold for good: the durable history and the
\* keys that have an approval record.
Grows ==
  /\ durable \subseteq durable'
  /\ {r.key : r \in approvals} \subseteq {r.key : r \in approvals'}

\* The part of the invariant about the packets, and the one about the gate and
\* the graph.
StorePart == StoreTypeOK /\ StoreInv /\ CacheNeverAhead
GatePart  == GateTypeOK /\ GraphTypeOK /\ GateInv /\ MutationAuthorised
RestPart  ==
  /\ excluded \in (SUBSET Candidates) \cup {None}
  /\ schema \in Versions \cup {None}
  /\ started \in 0..MaxRequests
  /\ faults \in 0..MaxFaults

LEMMA IInvParts ==
  IInv <=> /\ StorePart /\ GatePart /\ RestPart
           /\ task \in [Slots -> Task]
           /\ \A t \in Slots : TaskInv(task[t])
BY DEF IInv, TypeOK, StorePart, GatePart, RestPart

\* A slot that does not move keeps its part of the invariant.
LEMMA OtherSlots ==
  ASSUME NEW k \in Task, TaskInv(k), Grows
  PROVE  TaskInv(k)'
BY DEF TaskInv, TaskShape, TaskGate, TaskStore, Authorised, Held, Grows,
       Placed, Removals, Targeted, Where, Reading, Creating, Moving, Executing, Resumptions

LEMMA StoreKept == ASSUME StorePart, UNCHANGED store PROVE StorePart' /\ durable' = durable
BY DEF StorePart, store, StoreTypeOK, StoreInv, CacheNeverAhead, Held

LEMMA GateKept ==
  ASSUME GatePart, UNCHANGED gate, UNCHANGED graph
  PROVE  GatePart' /\ approvals' = approvals
BY DEF GatePart, gate, graph, GateTypeOK, GraphTypeOK, GateInv, MutationAuthorised

\* One slot moves: the invariant holds again if it does for that slot and for
\* the stores.
LEMMA SlotMoves ==
  ASSUME IInv, NEW t \in Slots, NEW u \in Task, Becomes(t, u), TaskInv(u)',
         Grows, StorePart', GatePart', RestPart'
  PROVE  IInv'
<1>0. task \in [Slots -> Task] /\ \A s \in Slots : TaskInv(task[s])
  BY IInvParts
<1>1. task' \in [Slots -> Task] /\ task'[t] = u /\ \A s \in Slots : s # t => task'[s] = task[s]
  BY <1>0 DEF Becomes
<1>2. ASSUME NEW s \in Slots PROVE TaskInv(task[s])'
  <2>1. PICK k \in Task : k = task'[s] /\ (k = u \/ TaskInv(k))
    BY <1>0, <1>1
  <2>2. TaskInv(k)'
    BY <2>1, OtherSlots
  <2>3. QED BY <2>1, <2>2 DEF TaskInv, TaskShape, TaskGate, TaskStore, Authorised, Held
<1>3. QED
  BY <1>1, <1>2 DEF IInv, TypeOK, StorePart, GatePart, RestPart

\* One slot moves and touches neither the stores, nor the gate, nor the graph.
LEMMA QuietMove ==
  ASSUME IInv, NEW t \in Slots, NEW u \in Task, Becomes(t, u), TaskInv(u),
         UNCHANGED <<store, gate, graph>>, RestPart'
  PROVE  IInv'
<1>1. StorePart /\ GatePart
  BY IInvParts
<1>2. StorePart' /\ GatePart' /\ durable' = durable /\ approvals' = approvals
  BY <1>1, StoreKept, GateKept
<1>3. Grows
  BY <1>2 DEF Grows
<1>4. TaskInv(u)'
  BY <1>3, OtherSlots
<1>5. QED
  BY <1>2, <1>3, <1>4, SlotMoves

LEMMA IdleTask == Idle \in Task /\ TaskInv(Idle)
<1>1. Idle \in Task
  BY ConstantsAssumption DEF Idle, Task, Labels, Outcomes, States
<1>2. TaskInv(Idle)
  BY DEF Idle, TaskInv, TaskShape, TaskGate, TaskStore, Placed, Removals, Where, Reading,
         Creating, Moving, Executing, Resumptions
<1>3. QED BY <1>1, <1>2

\* The invariant a handler starts its step with.
LEMMA Before ==
  ASSUME IInv, NEW t \in Slots
  PROVE  task[t] \in Task /\ TaskInv(task[t]) /\ RestPart
BY IInvParts

\* A quiet step that ends the request.
LEMMA FinishQuietly ==
  ASSUME IInv, NEW t \in Slots, Finish(t), UNCHANGED <<store, gate, graph>>, RestPart'
  PROVE  IInv'
BY IdleTask, QuietMove DEF Finish

LEMMA Counted ==
  ASSUME IInv, UNCHANGED <<excluded, schema, started>>, Works \/ Fails
  PROVE  RestPart'
<1>1. RestPart BY IInvParts
<1>2. QED BY <1>1, ConstantsAssumption DEF RestPart, Works, Fails

(***************************************************************************)
(* What the writes do to the stores.                                       *)
(***************************************************************************)
LEMMA StorePutKeeps ==
  ASSUME StorePart, NEW p \in Proposals, NEW pkt \in Packets, Store(p, pkt),
         UNCHANGED <<redis, index, archive>>
  PROVE  StorePart' /\ durable \subseteq durable' /\ Held(p, pkt)'
BY DEF StorePart, StoreTypeOK, StoreInv, CacheNeverAhead, Held, Store

LEMMA CachePutKeeps ==
  ASSUME StorePart, NEW p \in Proposals, NEW pkt \in Packets, Held(p, pkt),
         redis' = [redis EXCEPT ![p] = pkt] \/ redis' = redis,
         UNCHANGED <<s3, index, archive, durable>>
  PROVE  StorePart'
BY DEF StorePart, StoreTypeOK, StoreInv, CacheNeverAhead, Held

LEMMA RemovalKeeps ==
  ASSUME StorePart, NEW p \in Proposals,
         s3' = [s3 EXCEPT ![p] = None] \/ s3' = s3,
         redis' = [redis EXCEPT ![p] = None] \/ redis' = redis,
         UNCHANGED <<index, archive, durable>>
  PROVE  StorePart'
BY DEF StorePart, StoreTypeOK, StoreInv, CacheNeverAhead, Held

LEMMA IndexPutKeeps ==
  ASSUME StorePart, index' \subseteq Proposals, UNCHANGED <<s3, redis, archive, durable>>
  PROVE  StorePart'
BY DEF StorePart, StoreTypeOK, StoreInv, CacheNeverAhead, Held

LEMMA CopyKeeps ==
  ASSUME StorePart, NEW p \in Proposals, NEW pkt \in Packets, Held(p, pkt),
         archive' = archive \cup {[p |-> p, pkt |-> pkt]} \/ archive' = archive,
         UNCHANGED <<s3, redis, index, durable>>
  PROVE  StorePart'
BY DEF StorePart, StoreTypeOK, StoreInv, CacheNeverAhead, Held

\* One slot moves and only the packets change.
LEMMA StoreMove ==
  ASSUME IInv, NEW t \in Slots, NEW u \in Task, Becomes(t, u),
         TaskShape(u), TaskGate(u), TaskStore(u)',
         StorePart', durable \subseteq durable', UNCHANGED <<gate, graph>>, RestPart'
  PROVE  IInv'
<1>1. GatePart' /\ approvals' = approvals
  BY IInvParts, GateKept
<1>2. TaskInv(u)'
  BY <1>1 DEF TaskInv, TaskShape, TaskGate, Authorised, Placed, Removals, Targeted, Where, Reading,
              Creating, Moving, Executing, Resumptions
<1>3. QED
  BY <1>1, <1>2, SlotMoves DEF Grows

(***************************************************************************)
(* get_for_run.                                                            *)
(***************************************************************************)
\* A handler that reads has a proposal to read and a place to resume at.
LEMMA ReadingTask ==
  ASSUME NEW k \in Task, TaskInv(k), k.pc \in Reading
  PROVE  k.p \in Proposals /\ k.resume \in Resumptions /\ k.resume \in Labels
BY DEF TaskInv, TaskShape, Placed, Removals, Where, Reading, Task, Creating, Moving, Executing, Resumptions

\* get_for_run returns a packet, or nothing, to the handler that called it.
LEMMA Returned ==
  ASSUME NEW k \in Task, TaskInv(k), k.pc \in Reading, NEW pkt \in Packets \cup {None},
         NEW u, u = [k EXCEPT !.pc = k.resume, !.pkt = pkt]
  PROVE  u \in Task /\ TaskInv(u)
<1>1. u \in Task
  BY ReadingTask DEF Task
<1>2. /\ u.pc = k.resume /\ u.pkt = pkt /\ u.op = k.op /\ u.p = k.p /\ u.a = k.a
      /\ u.cred = k.cred /\ u.version = k.version /\ u.target = k.target
      /\ u.resume = k.resume
  BY DEF Task
<1>3. k.resume \in Resumptions
  BY ReadingTask
<1>4. Where(u) = Where(k)
  BY <1>2, <1>3 DEF Where, Reading, Resumptions
<1>5. TaskShape(u)
  BY <1>2, <1>3, <1>4 DEF TaskInv, TaskShape, Placed, Removals, Targeted, Reading, Resumptions
<1>6. TaskGate(u)
  BY <1>2, <1>3, <1>4 DEF TaskInv, TaskGate, Authorised, Resumptions
<1>7. TaskStore(u)
  BY <1>2, <1>3 DEF TaskStore, Resumptions
<1>8. QED BY <1>1, <1>5, <1>6, <1>7 DEF TaskInv

LEMMA GetCachedInv ==
  ASSUME IInv, NEW t \in Slots, GetCached(t)
  PROVE  IInv'
<1>1. PICK k \in Task : k = task[t] /\ TaskInv(k)
  BY Before
<1>2. k.pc = "get" /\ k.p \in Proposals
  BY <1>1, ReadingTask DEF GetCached, At, Reading
<1>3. PICK pkt \in Packets \cup {None} : pkt = redis[k.p]
  BY <1>2 DEF IInv, TypeOK, StoreTypeOK
<1>4. RestPart' /\ UNCHANGED <<store, gate, graph>>
  BY Counted DEF GetCached
<1>5. CASE Return(t, pkt)
  <2>1. PICK u : u = [k EXCEPT !.pc = k.resume, !.pkt = pkt] /\ Becomes(t, u)
    BY <1>1, <1>5 DEF Return
  <2>2. u \in Task /\ TaskInv(u)
    BY <1>1, <1>2, <2>1, Returned DEF Reading
  <2>3. QED BY <1>4, <2>1, <2>2, QuietMove
<1>6. CASE Goto(t, "getS3")
  <2>1. PICK u : u = [k EXCEPT !.pc = "getS3"] /\ Becomes(t, u)
    BY <1>1, <1>6 DEF Goto
  <2>2. u \in Task /\ TaskInv(u)
    BY <1>1, <1>2, <2>1 DEF Task, Labels, TaskInv, TaskShape, TaskGate, TaskStore, Placed, Removals,
       Targeted, Where, Reading, Creating, Moving, Executing, Resumptions, Authorised
  <2>3. QED BY <1>4, <2>1, <2>2, QuietMove
<1>7. QED
  BY <1>1, <1>3, <1>5, <1>6 DEF GetCached

LEMMA GetStoredInv ==
  ASSUME IInv, NEW t \in Slots, GetStored(t)
  PROVE  IInv'
<1>1. PICK k \in Task : k = task[t] /\ TaskInv(k)
  BY Before
<1>2. k.pc = "getS3" /\ k.p \in Proposals
  BY <1>1, ReadingTask DEF GetStored, At, Reading
<1>3. PICK pkt \in Packets \cup {None} : pkt = s3[k.p]
  BY <1>2 DEF IInv, TypeOK, StoreTypeOK
<1>4. RestPart' /\ UNCHANGED <<store, gate, graph>>
  BY Counted DEF GetStored
<1>5. CASE Return(t, None)
  <2>1. PICK u : u = [k EXCEPT !.pc = k.resume, !.pkt = None] /\ Becomes(t, u)
    BY <1>1, <1>5 DEF Return
  <2>2. u \in Task /\ TaskInv(u)
    BY <1>1, <1>2, <2>1, Returned DEF Reading
  <2>3. QED BY <1>4, <2>1, <2>2, QuietMove
<1>6. CASE pkt # None /\ Becomes(t, [task[t] EXCEPT !.pc = "fill", !.pkt = s3[task[t].p]])
  <2>1. PICK u : u = [k EXCEPT !.pc = "fill", !.pkt = pkt] /\ Becomes(t, u)
    BY <1>1, <1>3, <1>6
  <2>2. u \in Task
    BY <1>6, <2>1 DEF Task, Labels
  <2>3. /\ u.pc = "fill" /\ u.pkt = pkt /\ u.op = k.op /\ u.p = k.p /\ u.a = k.a
        /\ u.cred = k.cred /\ u.version = k.version /\ u.target = k.target
        /\ u.resume = k.resume
    BY <2>1 DEF Task
  <2>4. TaskShape(u) /\ TaskGate(u)
    BY <1>1, <1>2, <1>6, <2>3 DEF TaskInv, TaskShape, TaskGate, Placed, Removals, Targeted, Where, Reading,
       Resumptions, Authorised
  <2>5. TaskStore(u)
    BY <1>2, <1>3, <1>6, <2>3 DEF TaskStore, IInv, StoreInv
  <2>6. QED BY <1>4, <2>1, <2>2, <2>4, <2>5, QuietMove DEF TaskInv
<1>7. CASE Finish(t)
  BY <1>4, <1>7, FinishQuietly
<1>8. QED
  BY <1>1, <1>3, <1>5, <1>6, <1>7 DEF GetStored

LEMMA BackfillInv ==
  ASSUME IInv, NEW t \in Slots, Backfill(t)
  PROVE  IInv'
<1>1. PICK k \in Task : k = task[t] /\ TaskInv(k)
  BY Before
<1>2. k.pc = "fill" /\ k.p \in Proposals /\ k.pkt \in Packets /\ Held(k.p, k.pkt)
  BY <1>1, ReadingTask DEF Backfill, At, Reading, TaskInv, TaskShape, TaskStore
<1>3. RestPart' /\ UNCHANGED <<gate, graph>>
  BY Counted DEF Backfill
<1>4. StorePart' /\ durable' = durable
  BY <1>1, <1>2, IInvParts, CachePutKeeps DEF Backfill
<1>5. PICK u : u = [k EXCEPT !.pc = k.resume, !.pkt = k.pkt] /\ Becomes(t, u)
  <2>1. [k EXCEPT !.pc = k.resume] = [k EXCEPT !.pc = k.resume, !.pkt = k.pkt]
    BY DEF Task
  <2>2. QED BY <1>1, <2>1 DEF Backfill, Goto
<1>6. u \in Task /\ TaskInv(u)
  BY <1>1, <1>2, <1>5, Returned DEF Reading
<1>7. TaskStore(u)'
  BY <1>4, <1>6 DEF TaskInv, TaskStore, Held
<1>8. QED BY <1>3, <1>4, <1>5, <1>6, <1>7, StoreMove DEF TaskInv

(***************************************************************************)
(* Moving a task: the fields that change and the ones that do not.         *)
(***************************************************************************)
LEMMA Stepped ==
  ASSUME NEW k \in Task, NEW l \in Labels, NEW u, u = [k EXCEPT !.pc = l]
  PROVE  /\ u \in Task /\ u.pc = l
         /\ u.op = k.op /\ u.p = k.p /\ u.a = k.a /\ u.cred = k.cred /\ u.resume = k.resume
         /\ u.target = k.target /\ u.pkt = k.pkt /\ u.version = k.version /\ u.set = k.set
         /\ u.n = k.n /\ u.outcome = k.outcome
BY DEF Task

\* A handler may call transition when it asks for the move of its own request,
\* and /approve only for a proposal that is not high-risk.
LEMMA TransitionCalled ==
  ASSUME NEW t \in Slots, NEW to \in States, CallTransition(t, to),
         NEW k \in Task, k = task[t], TaskInv(k), k.p \in Proposals,
         \/ k.op \in {"orphan", "execute"} /\ to = "executed" /\ k.cred \in Credentials
         \/ k.op \in {"orphan", "confirm"} /\ to = "approved"
         \/ k.op = "approve" /\ to = "approved" /\ k.p \notin HighRisk
  PROVE  \E u \in Task : Becomes(t, u) /\ TaskInv(u)
<1>1. PICK u : u = [k EXCEPT !.pc = "get", !.resume = "transition", !.target = to] /\ Becomes(t, u)
  BY DEF CallTransition
<1>2. /\ u \in Task /\ u.pc = "get" /\ u.resume = "transition" /\ u.target = to
      /\ u.op = k.op /\ u.p = k.p /\ u.a = k.a /\ u.cred = k.cred
      /\ u.version = k.version
  <2>1. "get" \in Labels /\ "transition" \in Labels
    BY DEF Labels
  <2>2. QED BY <1>1, <2>1 DEF Task
<1>3. TaskInv(u)
  BY <1>2 DEF TaskInv, TaskShape, TaskGate, TaskStore, Placed, Removals, Targeted, Where, Reading,
              Creating, Moving, Executing, Resumptions
<1>4. QED BY <1>1, <1>2, <1>3

(***************************************************************************)
(* A request arrives.                                                      *)
(***************************************************************************)
LEMMA BeginInv ==
  ASSUME IInv, NEW t \in Slots, Begin(t)
  PROVE  IInv'
<1>1. PICK r \in Requests :
        /\ r.op \in {"create", "orphan"} => schema # None
        /\ Becomes(t, NewTask(r, started + 1,
                      IF r.op \in {"create", "orphan"} THEN schema ELSE None))
  BY DEF Begin
<1>2. PICK v \in Versions \cup {None} :
        /\ v = IF r.op \in {"create", "orphan"} THEN schema ELSE None
        /\ r.op \in {"create", "orphan"} => v \in Versions
  BY <1>1, IInvParts DEF RestPart
<1>3. PICK i \in Nat : i = started + 1
  BY IInvParts, ConstantsAssumption DEF RestPart
<1>4. PICK u : u = NewTask(r, i, v) /\ Becomes(t, u)
  BY <1>1, <1>2, <1>3
<1>5. /\ r.op \in OpNames /\ r.p \in Proposals \cup {None} /\ r.a \in Actors \cup {None}
      /\ r.cred \in Credentials \cup {None}
      /\ r.op \notin Removals => r.p \in Proposals
      /\ r.op \in {"approve", "confirm", "orphan"} => r.a \in Actors
      /\ r.op \in {"confirm", "execute"} => r.cred \in Credentials
  BY ConstantsAssumption DEF Requests, OpNames, Removals
<1>6. Entry(r.op) \in Labels /\ FirstResume(r.op) \in Labels /\ ReviewTarget(r.op) \in States
  BY <1>5 DEF Entry, FirstResume, ReviewTarget, Labels, States, OpNames, Removals
<1>7. u \in Task
  BY <1>4, <1>5, <1>6, ConstantsAssumption DEF NewTask, Task, Outcomes
<1>8. /\ u.pc = Entry(r.op) /\ u.resume = FirstResume(r.op) /\ u.target = ReviewTarget(r.op)
      /\ u.op = r.op /\ u.p = r.p /\ u.a = r.a /\ u.cred = r.cred /\ u.version = v
  BY <1>4 DEF NewTask
<1>9. TaskInv(u)
  BY <1>2, <1>5, <1>8 DEF TaskInv, TaskShape, TaskGate, TaskStore, Placed, Removals, Targeted, Where,
     Reading, Creating, Moving, Executing, Resumptions, Entry, FirstResume, ReviewTarget, OpNames, Removals
<1>10. RestPart' /\ UNCHANGED <<store, gate, graph>>
  BY IInvParts, ConstantsAssumption DEF Begin, RestPart
<1>11. QED BY <1>4, <1>7, <1>9, <1>10, QuietMove

(***************************************************************************)
(* create.                                                                 *)
(***************************************************************************)
LEMMA AfterCreateInv ==
  ASSUME IInv, NEW t \in Slots, task[t].pc \in Creating, AfterCreate(t),
         StorePart', durable' = durable, UNCHANGED <<gate, graph>>, RestPart'
  PROVE  IInv'
<1>1. PICK k \in Task : k = task[t] /\ TaskInv(k)
  BY Before
<1>2. \E u \in Task : Becomes(t, u) /\ TaskInv(u)
  <2>1. CASE Finish(t)
    BY <2>1, IdleTask DEF Finish
  <2>2. CASE k.op = "orphan" /\ CallTransition(t, "approved")
    BY <1>1, <2>2, TransitionCalled DEF States, TaskInv, TaskShape, Removals
  <2>3. QED BY <1>1, <2>1, <2>2 DEF AfterCreate
<1>3. PICK u \in Task : Becomes(t, u) /\ TaskInv(u)
  BY <1>2
<1>4. TaskStore(u)'
  BY <1>3 DEF TaskInv, TaskStore, Held
<1>5. QED BY <1>3, <1>4, StoreMove DEF TaskInv

LEMMA CreateExistingInv ==
  ASSUME IInv, NEW t \in Slots, CreateExisting(t)
  PROVE  IInv'
<1>1. RestPart' /\ UNCHANGED <<store, gate, graph>>
  BY IInvParts DEF CreateExisting, RestPart
<1>2. StorePart' /\ durable' = durable
  BY <1>1, IInvParts, StoreKept
<1>3. QED BY <1>1, <1>2, AfterCreateInv DEF CreateExisting, At, Creating

LEMMA CreatePutInv ==
  ASSUME IInv, NEW t \in Slots, CreatePut(t)
  PROVE  IInv'
<1>1. PICK k \in Task : k = task[t] /\ TaskInv(k)
  BY Before
<1>2. k.pc = "create" /\ k.op \in {"create", "orphan"} /\ k.p \in Proposals /\ k.version \in Versions
  BY <1>1 DEF CreatePut, At, TaskInv, TaskShape, Placed, Removals, Where, Reading, Creating, Moving,
     Executing, Task, OpNames, Removals
<1>3. PICK pkt \in Packets : pkt = [state |-> "pending", version |-> k.version]
  BY <1>2 DEF Packets, States
<1>4. RestPart' /\ UNCHANGED <<gate, graph>>
  BY Counted DEF CreatePut
<1>5. CASE Store(k.p, pkt) /\ Goto(t, "cacheNew")
  <2>1. StorePart' /\ durable \subseteq durable' /\ Held(k.p, pkt)'
    BY <1>2, <1>5, IInvParts, StorePutKeeps DEF CreatePut
  <2>2. PICK u : u = [k EXCEPT !.pc = "cacheNew"] /\ Becomes(t, u)
    BY <1>1, <1>5 DEF Goto
  <2>3. "cacheNew" \in Labels
    BY DEF Labels
  <2>4. /\ u \in Task /\ u.pc = "cacheNew" /\ u.op = k.op /\ u.p = k.p /\ u.a = k.a
        /\ u.version = k.version
    BY <2>2, <2>3, Stepped
  <2>5. TaskShape(u) /\ TaskGate(u)
    BY <1>1, <1>2, <2>4 DEF TaskInv, TaskShape, TaskGate, Placed, Removals, Where, Reading, Creating,
       Moving, Executing
  <2>6. TaskStore(u)'
    BY <1>3, <2>1, <2>4 DEF TaskStore, Held
  <2>7. QED BY <1>4, <2>1, <2>2, <2>4, <2>5, <2>6, StoreMove
<1>6. CASE UNCHANGED <<s3, durable>> /\ Finish(t)
  BY <1>4, <1>6, FinishQuietly DEF CreatePut, store
<1>7. QED
  BY <1>1, <1>3, <1>5, <1>6 DEF CreatePut, NewPacket, PutFailureRaised

LEMMA CreateCacheInv ==
  ASSUME IInv, NEW t \in Slots, CreateCache(t)
  PROVE  IInv'
<1>1. PICK k \in Task : k = task[t] /\ TaskInv(k)
  BY Before
<1>2. k.pc = "cacheNew" /\ k.op \in {"create", "orphan"} /\ k.p \in Proposals /\ k.version \in Versions
  BY <1>1 DEF CreateCache, At, TaskInv, TaskShape, Placed, Removals, Where, Reading, Creating, Moving,
     Executing, Task, OpNames, Removals
<1>3. PICK pkt \in Packets : pkt = [state |-> "pending", version |-> k.version] /\ Held(k.p, pkt)
  BY <1>1, <1>2 DEF Packets, States, TaskInv, TaskStore
<1>4. RestPart' /\ UNCHANGED <<gate, graph>>
  BY Counted DEF CreateCache
<1>5. StorePart' /\ durable' = durable
  BY <1>1, <1>2, <1>3, IInvParts, CachePutKeeps DEF CreateCache, NewPacket
<1>6. PICK u : u = [k EXCEPT !.pc = "indexRead"] /\ Becomes(t, u)
  BY <1>1 DEF CreateCache, Goto
<1>7. "indexRead" \in Labels
  BY DEF Labels
<1>8. /\ u \in Task /\ u.pc = "indexRead" /\ u.op = k.op /\ u.p = k.p /\ u.a = k.a
      /\ u.version = k.version
  BY <1>6, <1>7, Stepped
<1>9. TaskShape(u) /\ TaskGate(u) /\ TaskStore(u)'
  BY <1>1, <1>2, <1>8 DEF TaskInv, TaskShape, TaskGate, TaskStore, Placed, Removals, Where, Reading,
     Creating, Moving, Executing
<1>10. QED BY <1>4, <1>5, <1>6, <1>8, <1>9, StoreMove

LEMMA IndexReadInv ==
  ASSUME IInv, NEW t \in Slots, IndexRead(t)
  PROVE  IInv'
<1>1. PICK k \in Task : k = task[t] /\ TaskInv(k)
  BY Before
<1>2. k.pc = "indexRead" /\ k.op \in {"create", "orphan"}
  BY <1>1 DEF IndexRead, At, TaskInv, TaskShape, Placed, Removals, Where, Reading, Creating, Moving,
     Executing, Task, OpNames, Removals
<1>3. RestPart' /\ UNCHANGED <<store, gate, graph>>
  BY Counted DEF IndexRead
<1>4. StorePart' /\ durable' = durable
  BY <1>3, IInvParts, StoreKept
<1>5. CASE AfterCreate(t)
  BY <1>1, <1>2, <1>3, <1>4, <1>5, AfterCreateInv DEF Creating
<1>6. index \subseteq Proposals
  BY IInvParts DEF StorePart, StoreTypeOK
<1>7. CASE ~AfterCreate(t)
  <2>1. PICK ids \in SUBSET Proposals :
           Becomes(t, [task[t] EXCEPT !.pc = "indexPut", !.set = ids])
    BY <1>6, <1>7 DEF IndexRead
  <2>2. PICK u : u = [k EXCEPT !.pc = "indexPut", !.set = ids] /\ Becomes(t, u)
    BY <1>1, <2>1
  <2>3. ids \in SUBSET (Proposals \cup Candidates) /\ "indexPut" \in Labels
    BY DEF Labels
  <2>4. /\ u \in Task /\ u.pc = "indexPut" /\ u.op = k.op /\ u.p = k.p /\ u.a = k.a
        /\ u.version = k.version /\ u.set = ids
    BY <2>2, <2>3 DEF Task
  <2>5. TaskInv(u)
    BY <1>1, <1>2, <2>4 DEF TaskInv, TaskShape, TaskGate, TaskStore, Placed, Removals, Where, Reading,
       Creating, Moving, Executing
  <2>6. QED BY <1>3, <2>2, <2>4, <2>5, QuietMove
<1>8. QED
  BY <1>5, <1>7

LEMMA IndexPutInv ==
  ASSUME IInv, NEW t \in Slots, IndexPut(t)
  PROVE  IInv'
<1>1. PICK k \in Task : k = task[t] /\ TaskInv(k)
  BY Before
<1>2. /\ k.pc = "indexPut" /\ k.op \in {"create", "orphan"} /\ k.p \in Proposals
      /\ k.set \subseteq Proposals
  BY <1>1 DEF IndexPut, At, TaskInv, TaskShape, Placed, Removals, Where, Reading, Creating, Moving,
     Executing, Task, OpNames, Removals
<1>3. RestPart' /\ UNCHANGED <<gate, graph>>
  BY Counted DEF IndexPut
<1>4. index \subseteq Proposals
  BY IInvParts DEF StorePart, StoreTypeOK
<1>5. index' \subseteq Proposals
  BY <1>1, <1>2, <1>4 DEF IndexPut, IndexExtended
<1>6. StorePart' /\ durable' = durable
  BY <1>5, IInvParts, IndexPutKeeps DEF IndexPut
<1>7. QED
  BY <1>1, <1>2, <1>3, <1>6, AfterCreateInv DEF IndexPut, Creating

(***************************************************************************)
(* transition.                                                             *)
(***************************************************************************)
LEMMA TransitionRefusedInv ==
  ASSUME IInv, NEW t \in Slots, TransitionRefused(t)
  PROVE  IInv'
<1>1. RestPart'
  BY IInvParts DEF TransitionRefused, RestPart
<1>2. QED BY <1>1, FinishQuietly DEF TransitionRefused

LEMMA TransitionPutInv ==
  ASSUME IInv, NEW t \in Slots, TransitionPut(t)
  PROVE  IInv'
<1>1. PICK k \in Task : k = task[t] /\ TaskInv(k)
  BY Before
<1>2. k.pc = "transition" /\ k.p \in Proposals /\ Where(k) \in Moving
  BY <1>1 DEF TransitionPut, At, TaskInv, TaskShape, Placed, Removals, Where, Reading, Creating, Moving,
     Executing, Task
<1>3. k.pkt \in Packets /\ k.target \in States
  <2>1. k.pkt # None
    BY <1>1 DEF TransitionPut, Permitted, CanTransition, StateOf, Transitions
  <2>2. QED BY <2>1 DEF Task
<1>4. PICK pkt \in Packets : pkt = [state |-> k.target, version |-> k.pkt.version]
  BY <1>3 DEF Packets
<1>5. pkt = MovedPacket(t)
  BY <1>1, <1>4 DEF MovedPacket
<1>6. RestPart' /\ UNCHANGED <<gate, graph>>
  BY Counted DEF TransitionPut
<1>7. CASE /\ Store(k.p, pkt)
           /\ Becomes(t, [task[t] EXCEPT !.pc = "cacheState", !.pkt = MovedPacket(t)])
  <2>1. StorePart' /\ durable \subseteq durable' /\ Held(k.p, pkt)'
    BY <1>2, <1>7, IInvParts, StorePutKeeps DEF TransitionPut
  <2>2. PICK u : u = [k EXCEPT !.pc = "cacheState", !.pkt = pkt] /\ Becomes(t, u)
    BY <1>1, <1>5, <1>7
  <2>3. "cacheState" \in Labels
    BY DEF Labels
  <2>4. /\ u \in Task /\ u.pc = "cacheState" /\ u.pkt = pkt /\ u.op = k.op /\ u.p = k.p
        /\ u.a = k.a /\ u.cred = k.cred /\ u.version = k.version /\ u.target = k.target
    BY <2>2, <2>3 DEF Task
  <2>5. TaskShape(u) /\ TaskGate(u)
    BY <1>1, <1>2, <2>4 DEF TaskInv, TaskShape, TaskGate, Placed, Removals, Targeted, Where, Reading, Creating,
       Moving, Executing
  <2>6. TaskStore(u)'
    BY <2>1, <2>4 DEF TaskStore, Held
  <2>7. QED BY <1>6, <2>1, <2>2, <2>4, <2>5, <2>6, StoreMove
<1>8. CASE UNCHANGED <<s3, durable>> /\ Finish(t)
  BY <1>6, <1>8, FinishQuietly DEF TransitionPut, store
<1>9. QED
  BY <1>1, <1>5, <1>7, <1>8 DEF TransitionPut, PutFailureRaised

\* A step that ends the request, whatever it did to the stores and the gate.
LEMMA FinishMove ==
  ASSUME IInv, NEW t \in Slots, Finish(t), Grows, StorePart', GatePart', RestPart'
  PROVE  IInv'
<1>1. TaskInv(Idle)'
  BY IdleTask, OtherSlots
<1>2. QED BY <1>1, IdleTask, SlotMoves DEF Finish

LEMMA FinishStored ==
  ASSUME IInv, NEW t \in Slots, Finish(t),
         StorePart', durable \subseteq durable', UNCHANGED <<gate, graph>>, RestPart'
  PROVE  IInv'
<1>1. GatePart' /\ approvals' = approvals
  BY IInvParts, GateKept
<1>2. QED BY <1>1, FinishMove DEF Grows

LEMMA TransitionCacheInv ==
  ASSUME IInv, NEW t \in Slots, TransitionCache(t)
  PROVE  IInv'
<1>1. PICK k \in Task : k = task[t] /\ TaskInv(k)
  BY Before
<1>2. /\ k.pc = "cacheState" /\ k.p \in Proposals /\ k.pkt \in Packets /\ Held(k.p, k.pkt)
      /\ Where(k) = "cacheState"
  BY <1>1 DEF TransitionCache, At, TaskInv, TaskShape, TaskStore, Placed, Removals, Where, Reading,
     Creating, Moving, Executing, Task
<1>3. RestPart' /\ UNCHANGED <<gate, graph>>
  BY Counted DEF TransitionCache
<1>4. StorePart' /\ durable' = durable
  BY <1>1, <1>2, IInvParts, CachePutKeeps DEF TransitionCache
<1>5. CASE k.target = "approved" /\ Goto(t, "record")
  <2>1. PICK u : u = [k EXCEPT !.pc = "record"] /\ Becomes(t, u)
    BY <1>1, <1>5 DEF Goto
  <2>2. "record" \in Labels
    BY DEF Labels
  <2>3. /\ u \in Task /\ u.pc = "record" /\ u.op = k.op /\ u.p = k.p /\ u.a = k.a
        /\ u.cred = k.cred /\ u.version = k.version /\ u.target = k.target
    BY <2>1, <2>2, Stepped
  <2>4. TaskShape(u) /\ TaskGate(u) /\ TaskStore(u)'
    BY <1>1, <1>2, <1>5, <2>3 DEF TaskInv, TaskShape, TaskGate, TaskStore, Placed, Removals, Targeted,
       Where, Reading, Creating, Moving, Executing
  <2>5. QED BY <1>3, <1>4, <2>1, <2>3, <2>4, StoreMove
<1>6. CASE k.target = "excluded" /\ Fetch(t, "exclRead")
  <2>1. PICK u : u = [k EXCEPT !.pc = "get", !.resume = "exclRead"] /\ Becomes(t, u)
    BY <1>1, <1>6 DEF Fetch
  <2>2. "get" \in Labels /\ "exclRead" \in Labels
    BY DEF Labels
  <2>3. /\ u \in Task /\ u.pc = "get" /\ u.resume = "exclRead" /\ u.op = k.op /\ u.p = k.p
        /\ u.a = k.a /\ u.cred = k.cred /\ u.version = k.version /\ u.target = k.target
    BY <2>1, <2>2 DEF Task
  <2>4. TaskShape(u) /\ TaskGate(u) /\ TaskStore(u)'
    BY <1>1, <1>2, <1>6, <2>3 DEF TaskInv, TaskShape, TaskGate, TaskStore, Placed, Removals, Targeted,
       Where, Reading, Creating, Moving, Executing, Resumptions
  <2>5. QED BY <1>3, <1>4, <2>1, <2>3, <2>4, StoreMove
<1>7. CASE k.target = "pending" /\ Goto(t, "exclRead")
  <2>1. PICK u : u = [k EXCEPT !.pc = "exclRead"] /\ Becomes(t, u)
    BY <1>1, <1>7 DEF Goto
  <2>2. "exclRead" \in Labels
    BY DEF Labels
  <2>3. /\ u \in Task /\ u.pc = "exclRead" /\ u.op = k.op /\ u.p = k.p /\ u.a = k.a
        /\ u.cred = k.cred /\ u.version = k.version /\ u.target = k.target
    BY <2>1, <2>2, Stepped
  <2>4. TaskShape(u) /\ TaskGate(u) /\ TaskStore(u)'
    BY <1>1, <1>2, <1>7, <2>3 DEF TaskInv, TaskShape, TaskGate, TaskStore, Placed, Removals, Targeted,
       Where, Reading, Creating, Moving, Executing
  <2>5. QED BY <1>3, <1>4, <2>1, <2>3, <2>4, StoreMove
<1>8. CASE Finish(t)
  BY <1>3, <1>4, <1>8, FinishStored
<1>9. QED
  BY <1>1, <1>5, <1>6, <1>7, <1>8 DEF TransitionCache, AfterTransition

(***************************************************************************)
(* The gate.                                                               *)
(***************************************************************************)
LEMMA TokensKeep ==
  ASSUME GatePart, tokens' \subseteq Credentials, challenged' \subseteq Proposals,
         issued' \subseteq Credentials, UNCHANGED <<approvals, graph>>
  PROVE  GatePart'
BY DEF GatePart, graph, GateTypeOK, GraphTypeOK, GateInv, MutationAuthorised

LEMMA ApprovalPutKeeps ==
  ASSUME GatePart, NEW key \in Credentials, NEW c \in BOOLEAN, key[1] \in HighRisk => c,
         approvals' = ApprovalsWith(key, c) \/ approvals' = approvals,
         issued' \subseteq Credentials, UNCHANGED <<tokens, challenged, graph>>
  PROVE  GatePart' /\ {r.key : r \in approvals} \subseteq {r.key : r \in approvals'}
<1>1. CASE approvals' = approvals
  BY <1>1, TokensKeep DEF GatePart, GateTypeOK
<1>2. CASE approvals' = ApprovalsWith(key, c)
  <2>1. PICK n \in [key : Credentials, confirmed : BOOLEAN] :
           n = [key |-> key, confirmed |-> c] /\ n.key = key /\ (n.confirmed <=> c)
    <3>1. [key |-> key, confirmed |-> c] \in [key : Credentials, confirmed : BOOLEAN]
      OBVIOUS
    <3>2. [key |-> key, confirmed |-> c].key = key
      OBVIOUS
    <3>3. [key |-> key, confirmed |-> c].confirmed <=> c
      OBVIOUS
    <3>4. QED BY <3>1, <3>2, <3>3, Zenon
  <2>2. approvals' = {r \in approvals : r.key # key} \cup {n}
    BY <1>2, <2>1 DEF ApprovalsWith
  <2>3. GateTypeOK' /\ GraphTypeOK'
    BY <2>2 DEF GatePart, GateTypeOK, GraphTypeOK, graph
  <2>4. GateInv'
    BY <2>1, <2>2 DEF GatePart, GateInv
  <2>5. \A r \in approvals : \E r2 \in approvals' : r2.key = r.key
    BY <2>1, <2>2
  <2>6. MutationAuthorised'
    BY <2>4, <2>5 DEF GatePart, MutationAuthorised, GateInv, graph
  <2>7. QED BY <2>3, <2>4, <2>5, <2>6 DEF GatePart
<1>3. QED BY <1>1, <1>2

\* One slot moves and only the gate and the graph change.
LEMMA GateMove ==
  ASSUME IInv, NEW t \in Slots, NEW u \in Task, Becomes(t, u), TaskInv(u),
         {r.key : r \in approvals} \subseteq {r.key : r \in approvals'},
         GatePart', UNCHANGED store, RestPart'
  PROVE  IInv'
<1>1. StorePart' /\ durable' = durable
  BY IInvParts, StoreKept
<1>2. Grows
  BY <1>1 DEF Grows
<1>3. TaskInv(u)'
  BY <1>2, OtherSlots
<1>4. QED BY <1>1, <1>2, <1>3, SlotMoves

LEMMA FinishGate ==
  ASSUME IInv, NEW t \in Slots, Finish(t),
         {r.key : r \in approvals} \subseteq {r.key : r \in approvals'},
         GatePart', UNCHANGED store, RestPart'
  PROVE  IInv'
BY IdleTask, GateMove DEF Finish

\* The approval key of a handler that approves.
LEMMA KeyTyped ==
  ASSUME NEW t \in Slots, NEW k \in Task, k = task[t], TaskInv(k),
         k.op \in {"approve", "confirm", "orphan"}
  PROVE  Key(t) \in Credentials /\ Key(t)[1] = k.p /\ k.p \in Proposals
BY DEF TaskInv, TaskShape, Key, Credentials, Removals

LEMMA ApproveAgainInv ==
  ASSUME IInv, NEW t \in Slots, ApproveAgain(t)
  PROVE  IInv'
<1>1. PICK k \in Task : k = task[t] /\ TaskInv(k)
  BY Before
<1>2. k.op = "approve"
  BY <1>1 DEF ApproveAgain, At, TaskInv, TaskShape, Placed, Removals, Where, Reading, Creating, Moving,
     Executing, Task, OpNames, Removals
<1>3. Key(t) \in Credentials
  BY <1>1, <1>2, KeyTyped
<1>4. GatePart'
  BY <1>3, IInvParts, TokensKeep DEF ApproveAgain, GatePart, GateTypeOK
<1>5. RestPart'
  BY IInvParts DEF ApproveAgain, RestPart
<1>6. QED BY <1>4, <1>5, FinishGate DEF ApproveAgain

LEMMA ApproveRefusedInv ==
  ASSUME IInv, NEW t \in Slots, ApproveRefused(t)
  PROVE  IInv'
<1>1. RestPart'
  BY IInvParts DEF ApproveRefused, RestPart
<1>2. QED BY <1>1, FinishQuietly DEF ApproveRefused

LEMMA ApproveHighRiskInv ==
  ASSUME IInv, NEW t \in Slots, ApproveHighRisk(t)
  PROVE  IInv'
<1>1. PICK k \in Task : k = task[t] /\ TaskInv(k)
  BY Before
<1>2. k.op = "approve"
  BY <1>1 DEF ApproveHighRisk, At, TaskInv, TaskShape, Placed, Removals, Where, Reading, Creating, Moving,
     Executing, Task, OpNames, Removals
<1>3. Key(t) \in Credentials /\ k.p \in Proposals
  BY <1>1, <1>2, KeyTyped
<1>4. tokens' \subseteq Credentials /\ challenged' \subseteq Proposals
  BY <1>1, <1>3, IInvParts DEF ApproveHighRisk, GatePart, GateTypeOK
<1>5. GatePart'
  BY <1>4, IInvParts, TokensKeep DEF ApproveHighRisk, GatePart, GateTypeOK
<1>6. RestPart'
  BY Counted DEF ApproveHighRisk
<1>7. QED BY <1>5, <1>6, FinishGate DEF ApproveHighRisk

LEMMA ApproveLowRiskInv ==
  ASSUME IInv, NEW t \in Slots, ApproveLowRisk(t)
  PROVE  IInv'
<1>1. PICK k \in Task : k = task[t] /\ TaskInv(k)
  BY Before
<1>2. k.op = "approve" /\ k.p \in Proposals /\ k.p \notin HighRisk
  BY <1>1 DEF ApproveLowRisk, At, TaskInv, TaskShape, Placed, Removals, Where, Reading, Creating, Moving,
     Executing, Task, OpNames, Removals
<1>3. PICK u \in Task : Becomes(t, u) /\ TaskInv(u)
  BY <1>1, <1>2, TransitionCalled DEF ApproveLowRisk, States
<1>4. RestPart'
  BY IInvParts DEF ApproveLowRisk, RestPart
<1>5. QED BY <1>3, <1>4, QuietMove DEF ApproveLowRisk

LEMMA RedeemTokenInv ==
  ASSUME IInv, NEW t \in Slots, RedeemToken(t)
  PROVE  IInv'
<1>1. PICK k \in Task : k = task[t] /\ TaskInv(k)
  BY Before
<1>2. k.op = "confirm" /\ k.p \in Proposals
  BY <1>1 DEF RedeemToken, At, TaskInv, TaskShape, Placed, Removals, Where, Reading, Creating, Moving,
     Executing, Task, OpNames, Removals
<1>3. RestPart' /\ UNCHANGED <<store, gate, graph>>
  BY Counted DEF RedeemToken
<1>4. CASE CallTransition(t, "approved")
  <2>1. PICK u \in Task : Becomes(t, u) /\ TaskInv(u)
    BY <1>1, <1>2, <1>4, TransitionCalled DEF States
  <2>2. QED BY <1>3, <2>1, QuietMove
<1>5. CASE Finish(t)
  BY <1>3, <1>5, FinishQuietly
<1>6. QED BY <1>4, <1>5 DEF RedeemToken

LEMMA RecordApprovalInv ==
  ASSUME IInv, NEW t \in Slots, RecordApproval(t)
  PROVE  IInv'
<1>1. PICK k \in Task : k = task[t] /\ TaskInv(k)
  BY Before
<1>2. /\ k.pc = "record" /\ k.op \in {"approve", "confirm", "orphan"} /\ k.p \in Proposals
      /\ k.op = "approve" => k.p \notin HighRisk
  BY <1>1 DEF RecordApproval, At, TaskInv, TaskShape, TaskGate, Placed, Removals, Where, Reading, Creating,
     Moving, Executing, Task, OpNames, Removals
<1>3. PICK key \in Credentials : key = Key(t) /\ key[1] = k.p
  BY <1>1, <1>2, KeyTyped
<1>4. RestPart' /\ UNCHANGED <<store, tokens, challenged, graph>>
  BY Counted DEF RecordApproval
<1>5. issued' \subseteq Credentials
  BY <1>3, IInvParts DEF RecordApproval, GatePart, GateTypeOK
<1>6. GatePart' /\ {r.key : r \in approvals} \subseteq {r.key : r \in approvals'}
  <2>1. PICK c \in BOOLEAN : c <=> (k.op # "approve")
    OBVIOUS
  <2>2. c = (task[t].op # "approve")
    BY <1>1, <2>1
  <2>3. approvals' = ApprovalsWith(key, c) \/ approvals' = approvals
    BY <1>3, <2>2 DEF RecordApproval
  <2>4. key[1] \in HighRisk => c
    BY <1>2, <1>3, <2>1
  <2>5. QED BY <1>4, <1>5, <2>3, <2>4, IInvParts, ApprovalPutKeeps
<1>7. CASE Finish(t)
  BY <1>4, <1>6, <1>7, FinishGate
<1>8. CASE k.op = "confirm" /\ Goto(t, "dropToken")
  <2>1. PICK u : u = [k EXCEPT !.pc = "dropToken"] /\ Becomes(t, u)
    BY <1>1, <1>8 DEF Goto
  <2>2. "dropToken" \in Labels
    BY DEF Labels
  <2>3. /\ u \in Task /\ u.pc = "dropToken" /\ u.op = k.op /\ u.p = k.p /\ u.a = k.a
        /\ u.cred = k.cred /\ u.version = k.version /\ u.target = k.target
    BY <2>1, <2>2, Stepped
  <2>4. TaskInv(u)
    BY <1>1, <1>2, <1>8, <2>3 DEF TaskInv, TaskShape, TaskGate, TaskStore, Placed, Removals,
       Where, Reading, Creating, Moving, Executing
  <2>5. QED BY <1>4, <1>6, <2>1, <2>3, <2>4, GateMove
<1>9. CASE k.op = "orphan" /\ Becomes(t, [task[t] EXCEPT !.pc = "approval", !.cred = Key(t)])
  <2>1. PICK u : u = [k EXCEPT !.pc = "approval", !.cred = key] /\ Becomes(t, u)
    BY <1>1, <1>3, <1>9
  <2>2. "approval" \in Labels
    BY DEF Labels
  <2>3. /\ u \in Task /\ u.pc = "approval" /\ u.op = k.op /\ u.p = k.p /\ u.a = k.a
        /\ u.cred = key /\ u.version = k.version /\ u.target = k.target
    BY <2>1, <2>2 DEF Task
  <2>4. TaskInv(u)
    BY <1>1, <1>2, <1>9, <2>3 DEF TaskInv, TaskShape, TaskGate, TaskStore, Placed, Removals,
       Where, Reading, Creating, Moving, Executing
  <2>5. QED BY <1>4, <1>6, <2>1, <2>3, <2>4, GateMove
<1>10. QED
  BY <1>1, <1>7, <1>8, <1>9 DEF RecordApproval

LEMMA DropTokenInv ==
  ASSUME IInv, NEW t \in Slots, DropToken(t)
  PROVE  IInv'
<1>1. PICK k \in Task : k = task[t] /\ TaskInv(k)
  BY Before
<1>2. k.op = "confirm"
  BY <1>1 DEF DropToken, At, TaskInv, TaskShape, Placed, Removals, Where, Reading, Creating, Moving,
     Executing, Task, OpNames, Removals
<1>3. Key(t) \in Credentials
  BY <1>1, <1>2, KeyTyped
<1>4. tokens' \subseteq Credentials /\ issued' \subseteq Credentials
  BY <1>3, IInvParts DEF DropToken, GatePart, GateTypeOK
<1>5. GatePart'
  BY <1>4, IInvParts, TokensKeep DEF DropToken, GatePart, GateTypeOK
<1>6. RestPart'
  BY Counted DEF DropToken
<1>7. QED BY <1>5, <1>6, FinishGate DEF DropToken

(***************************************************************************)
(* The excluded ids.                                                       *)
(***************************************************************************)
LEMMA RestoreSeenInv ==
  ASSUME IInv, NEW t \in Slots, RestoreSeen(t)
  PROVE  IInv'
<1>1. PICK k \in Task : k = task[t] /\ TaskInv(k)
  BY Before
<1>2. k.op = "restore" /\ k.p \in Proposals /\ k.target = "pending"
  BY <1>1 DEF Targeted, RestoreSeen, At, TaskInv, TaskShape, Placed, Removals, Where, Reading, Creating, Moving,
     Executing, Task, OpNames, Removals
<1>3. PICK f \in BOOLEAN : f = (task[t].pkt # None)
  OBVIOUS
<1>4. PICK u : u = [k EXCEPT !.pc = "get", !.resume = "transition", !.found = f] /\ Becomes(t, u)
  BY <1>1, <1>3 DEF RestoreSeen
<1>5. "get" \in Labels /\ "transition" \in Labels
  BY DEF Labels
<1>6. /\ u \in Task /\ u.pc = "get" /\ u.resume = "transition" /\ u.target = k.target
      /\ u.op = k.op /\ u.p = k.p /\ u.a = k.a /\ u.cred = k.cred /\ u.version = k.version
  BY <1>4, <1>5 DEF Task
<1>7. TaskInv(u)
  BY <1>1, <1>2, <1>6 DEF TaskInv, TaskShape, TaskGate, TaskStore, Placed, Removals, Targeted,
     Where, Reading, Creating, Moving, Executing, Resumptions
<1>8. RestPart'
  BY IInvParts DEF RestoreSeen, RestPart
<1>9. QED BY <1>4, <1>6, <1>7, <1>8, QuietMove DEF RestoreSeen

LEMMA ExcludedReadInv ==
  ASSUME IInv, NEW t \in Slots, ExcludedRead(t)
  PROVE  IInv'
<1>1. PICK k \in Task : k = task[t] /\ TaskInv(k)
  BY Before
<1>2. k.pc = "exclRead" /\ k.op \in {"exclude", "restore"} /\ k.p \in Proposals
  BY <1>1 DEF ExcludedRead, At, TaskInv, TaskShape, Placed, Removals, Where, Reading, Creating, Moving,
     Executing, Task, OpNames, Removals
<1>3. RestPart' /\ UNCHANGED <<store, gate, graph>>
  BY Counted DEF ExcludedRead
<1>4. CASE Finish(t)
  BY <1>3, <1>4, FinishQuietly
<1>5. CASE ~Finish(t)
  <2>1. PICK ids \in SUBSET Candidates :
          Becomes(t, [task[t] EXCEPT !.pc = "exclPut", !.set = ids])
    BY <1>5, IInvParts DEF ExcludedRead, Rewrite, RestPart
  <2>2. PICK u : u = [k EXCEPT !.pc = "exclPut", !.set = ids] /\ Becomes(t, u)
    BY <1>1, <2>1
  <2>3. ids \in SUBSET (Proposals \cup Candidates) /\ "exclPut" \in Labels
    BY DEF Labels
  <2>4. /\ u \in Task /\ u.pc = "exclPut" /\ u.op = k.op /\ u.p = k.p /\ u.a = k.a
        /\ u.cred = k.cred /\ u.version = k.version /\ u.set = ids
    BY <2>2, <2>3 DEF Task
  <2>5. TaskInv(u)
    BY <1>1, <1>2, <2>4 DEF TaskInv, TaskShape, TaskGate, TaskStore, Placed, Removals, Where, Reading,
       Creating, Moving, Executing
  <2>6. QED BY <1>3, <2>2, <2>4, <2>5, QuietMove
<1>6. QED BY <1>4, <1>5

LEMMA ExcludedPutInv ==
  ASSUME IInv, NEW t \in Slots, ExcludedPut(t)
  PROVE  IInv'
<1>1. PICK k \in Task : k = task[t] /\ TaskInv(k)
  BY Before
<1>2. /\ k.pc = "exclPut" /\ k.op \in {"exclude", "restore"} /\ k.p \in Proposals
      /\ k.set \subseteq Candidates
  BY <1>1 DEF ExcludedPut, At, TaskInv, TaskShape, Placed, Removals, Where, Reading, Creating, Moving,
     Executing, Task, OpNames, Removals
<1>3. ExcludedUpdated(t) \in SUBSET Candidates
  BY <1>1, <1>2, ConstantsAssumption DEF ExcludedUpdated
<1>4. RestPart'
  BY <1>3, IInvParts, ConstantsAssumption DEF ExcludedPut, RestPart, Works, Fails
<1>5. UNCHANGED <<store, gate, graph>> /\ StorePart' /\ GatePart' /\ Grows
  BY IInvParts, StoreKept, GateKept DEF ExcludedPut, Grows
<1>6. QED BY <1>4, <1>5, FinishMove DEF ExcludedPut

(***************************************************************************)
(* Execution.                                                              *)
(***************************************************************************)
LEMMA ExecuteRefusedInv ==
  ASSUME IInv, NEW t \in Slots, ExecuteRefused(t)
  PROVE  IInv'
<1>1. RestPart'
  BY IInvParts DEF ExecuteRefused, RestPart
<1>2. QED BY <1>1, FinishQuietly DEF ExecuteRefused

LEMMA ExecuteBuildInv ==
  ASSUME IInv, NEW t \in Slots, ExecuteBuild(t)
  PROVE  IInv'
<1>1. PICK k \in Task : k = task[t] /\ TaskInv(k)
  BY Before
<1>2. k.op = "execute" /\ k.p \in Proposals /\ k.cred \in Credentials
  BY <1>1 DEF ExecuteBuild, At, TaskInv, TaskShape, Placed, Removals, Where, Reading, Creating, Moving,
     Executing, Task, OpNames, Removals
<1>3. PICK v \in Versions : v = task[t].pkt.version
  <2>1. k.pkt # None
    BY <1>1 DEF ExecuteBuild, StateOf
  <2>2. QED BY <1>1, <2>1 DEF Task, Packets
<1>4. PICK u : u = [k EXCEPT !.pc = "approval", !.version = v] /\ Becomes(t, u)
  BY <1>1, <1>3 DEF ExecuteBuild
<1>5. "approval" \in Labels
  BY DEF Labels
<1>6. /\ u \in Task /\ u.pc = "approval" /\ u.op = k.op /\ u.p = k.p /\ u.a = k.a
      /\ u.cred = k.cred
  BY <1>4, <1>5 DEF Task
<1>7. TaskInv(u)
  BY <1>1, <1>2, <1>6 DEF TaskInv, TaskShape, TaskGate, TaskStore, Placed, Removals, Where, Reading,
     Creating, Moving, Executing
<1>8. RestPart'
  BY IInvParts DEF ExecuteBuild, RestPart
<1>9. QED BY <1>4, <1>6, <1>7, <1>8, QuietMove DEF ExecuteBuild

\* What Agent-C works on.
LEMMA ExecutingTask ==
  ASSUME NEW k \in Task, TaskInv(k), Where(k) \in Executing
  PROVE  k.op \in {"orphan", "execute"} /\ k.p \in Proposals /\ k.cred \in Credentials
BY DEF TaskInv, TaskShape, Placed, Removals, Where, Reading, Creating, Moving, Executing, Task, OpNames, Removals

\* Ending an attempt, when an attempt that is not rejected is authorised.
LEMMA Concluded ==
  ASSUME NEW t \in Slots, NEW o \in Outcomes, Conclude(t, o),
         NEW k \in Task, k = task[t], TaskInv(k), Where(k) \in Executing,
         o # "rejected" => Authorised(k)
  PROVE  \E u \in Task : Becomes(t, u) /\ TaskInv(u)
<1>1. PICK u : u = [k EXCEPT !.pc = "audit", !.outcome = o] /\ Becomes(t, u)
  BY DEF Conclude
<1>2. "audit" \in Labels
  BY DEF Labels
<1>3. /\ u \in Task /\ u.pc = "audit" /\ u.outcome = o /\ u.op = k.op /\ u.p = k.p
      /\ u.a = k.a /\ u.cred = k.cred /\ u.version = k.version
  BY <1>1, <1>2 DEF Task
<1>4. TaskInv(u)
  BY <1>3, ExecutingTask DEF TaskInv, TaskShape, TaskGate, TaskStore, Authorised, Placed, Removals, Where,
     Reading, Creating, Moving, Executing
<1>5. QED BY <1>1, <1>3, <1>4

LEMMA CheckApprovalInv ==
  ASSUME IInv, NEW t \in Slots, CheckApproval(t)
  PROVE  IInv'
<1>1. PICK k \in Task : k = task[t] /\ TaskInv(k)
  BY Before
<1>2. k.pc = "approval" /\ Where(k) \in Executing
  BY <1>1 DEF CheckApproval, At, Where, Reading, Executing
<1>3. k.op \in {"orphan", "execute"} /\ k.p \in Proposals /\ k.cred \in Credentials
  BY <1>1, <1>2, ExecutingTask
<1>4. RestPart' /\ UNCHANGED <<store, gate, graph>>
  BY Counted DEF CheckApproval
<1>5. CASE ApprovalValid(t) /\ Fetch(t, "validate")
  <2>1. PICK u : u = [k EXCEPT !.pc = "get", !.resume = "validate"] /\ Becomes(t, u)
    BY <1>1, <1>5 DEF Fetch
  <2>2. "get" \in Labels /\ "validate" \in Labels
    BY DEF Labels
  <2>3. /\ u \in Task /\ u.pc = "get" /\ u.resume = "validate" /\ u.op = k.op /\ u.p = k.p
        /\ u.a = k.a /\ u.cred = k.cred /\ u.version = k.version
    BY <2>1, <2>2 DEF Task
  <2>4. Authorised(u)
    BY <1>1, <1>5, <2>3 DEF ApprovalValid, Authorised
  <2>5. TaskInv(u)
    BY <1>1, <1>2, <1>3, <2>3, <2>4 DEF TaskInv, TaskShape, TaskGate, TaskStore, Placed, Removals, Where,
       Reading, Creating, Moving, Executing, Resumptions
  <2>6. QED BY <1>4, <2>1, <2>3, <2>5, QuietMove
<1>6. CASE Conclude(t, "rejected")
  BY <1>1, <1>2, <1>4, <1>6, Concluded, QuietMove DEF Outcomes
<1>7. QED BY <1>5, <1>6 DEF CheckApproval

LEMMA CheckStateInv ==
  ASSUME IInv, NEW t \in Slots, CheckState(t)
  PROVE  IInv'
<1>1. PICK k \in Task : k = task[t] /\ TaskInv(k)
  BY Before
<1>2. k.pc = "validate" /\ Where(k) \in Executing /\ Authorised(k)
  BY <1>1 DEF CheckState, At, Where, Reading, Executing, TaskInv, TaskGate
<1>3. k.op \in {"orphan", "execute"} /\ k.p \in Proposals /\ k.cred \in Credentials
  BY <1>1, <1>2, ExecutingTask
<1>4. RestPart' /\ UNCHANGED <<store, gate, graph>>
  BY IInvParts DEF CheckState, RestPart
<1>5. CASE Goto(t, "schema")
  <2>1. PICK u : u = [k EXCEPT !.pc = "schema"] /\ Becomes(t, u)
    BY <1>1, <1>5 DEF Goto
  <2>2. "schema" \in Labels
    BY DEF Labels
  <2>3. /\ u \in Task /\ u.pc = "schema" /\ u.op = k.op /\ u.p = k.p /\ u.a = k.a
        /\ u.cred = k.cred /\ u.version = k.version
    BY <2>1, <2>2, Stepped
  <2>4. TaskInv(u)
    BY <1>1, <1>2, <1>3, <2>3 DEF TaskInv, TaskShape, TaskGate, TaskStore, Authorised, Placed, Removals,
       Where, Reading, Creating, Moving, Executing
  <2>5. QED BY <1>4, <2>1, <2>3, <2>4, QuietMove
<1>6. CASE Conclude(t, "rejected")
  BY <1>1, <1>2, <1>4, <1>6, Concluded, QuietMove DEF Outcomes
<1>7. QED BY <1>5, <1>6 DEF CheckState

LEMMA CheckSchemaInv ==
  ASSUME IInv, NEW t \in Slots, CheckSchema(t)
  PROVE  IInv'
<1>1. PICK k \in Task : k = task[t] /\ TaskInv(k)
  BY Before
<1>2. k.pc = "schema" /\ Where(k) \in Executing /\ Authorised(k)
  BY <1>1 DEF CheckSchema, At, Where, Reading, Executing, TaskInv, TaskGate
<1>3. k.op \in {"orphan", "execute"} /\ k.p \in Proposals /\ k.cred \in Credentials
  BY <1>1, <1>2, ExecutingTask
<1>4. RestPart' /\ UNCHANGED <<store, gate, graph>>
  BY Counted DEF CheckSchema
<1>5. CASE Goto(t, "apply")
  <2>1. PICK u : u = [k EXCEPT !.pc = "apply"] /\ Becomes(t, u)
    BY <1>1, <1>5 DEF Goto
  <2>2. "apply" \in Labels
    BY DEF Labels
  <2>3. /\ u \in Task /\ u.pc = "apply" /\ u.op = k.op /\ u.p = k.p /\ u.a = k.a
        /\ u.cred = k.cred /\ u.version = k.version
    BY <2>1, <2>2, Stepped
  <2>4. TaskInv(u)
    BY <1>1, <1>2, <1>3, <2>3 DEF TaskInv, TaskShape, TaskGate, TaskStore, Authorised, Placed, Removals,
       Where, Reading, Creating, Moving, Executing
  <2>5. QED BY <1>4, <2>1, <2>3, <2>4, QuietMove
<1>6. CASE Conclude(t, "rejected") \/ Conclude(t, "applied")
  BY <1>1, <1>2, <1>4, <1>6, Concluded, QuietMove DEF Outcomes
<1>7. QED BY <1>5, <1>6 DEF CheckSchema

\* A step of an authorised attempt reaches the graph.
LEMMA WriteKeeps ==
  ASSUME GatePart, NEW k \in Task, Authorised(k), k.p \in Proposals, k.n < NSteps,
         writes' = writes \cup {[id |-> k.id, p |-> k.p, step |-> k.n + 1]},
         UNCHANGED <<gate, audit>>
  PROVE  GatePart' /\ approvals' = approvals
<1>1. PICK w \in [id : Nat, p : Proposals, step : 1..NSteps] :
         w = [id |-> k.id, p |-> k.p, step |-> k.n + 1] /\ w.p = k.p
  <2>1. k.id \in Nat /\ k.n \in 0..NSteps
    BY DEF Task
  <2>2. k.n + 1 \in 1..NSteps
    BY <2>1, ConstantsAssumption
  <2>3. [id |-> k.id, p |-> k.p, step |-> k.n + 1] \in [id : Nat, p : Proposals, step : 1..NSteps]
    BY <2>1, <2>2
  <2>4. [id |-> k.id, p |-> k.p, step |-> k.n + 1].p = k.p
    OBVIOUS
  <2>5. QED BY <2>3, <2>4, Zenon
<1>2. approvals' = approvals /\ writes' = writes \cup {w}
  BY <1>1 DEF gate
<1>3. PICK r \in approvals : r.key[1] = w.p /\ (w.p \in HighRisk => r.confirmed)
  BY <1>1 DEF Authorised, GatePart, GateInv
<1>4. MutationAuthorised'
  BY <1>2, <1>3 DEF GatePart, MutationAuthorised
<1>5. GateTypeOK' /\ GraphTypeOK' /\ GateInv'
  BY <1>1, <1>2 DEF GatePart, GateTypeOK, GraphTypeOK, GateInv, gate
<1>6. QED BY <1>2, <1>4, <1>5 DEF GatePart

LEMMA ApplyStepInv ==
  ASSUME IInv, NEW t \in Slots, ApplyStep(t)
  PROVE  IInv'
<1>1. PICK k \in Task : k = task[t] /\ TaskInv(k)
  BY Before
<1>2. k.pc = "apply" /\ Where(k) \in Executing /\ Authorised(k)
  BY <1>1 DEF ApplyStep, At, Where, Reading, Executing, TaskInv, TaskGate
<1>3. k.op \in {"orphan", "execute"} /\ k.p \in Proposals /\ k.cred \in Credentials
  BY <1>1, <1>2, ExecutingTask
<1>4. RestPart' /\ UNCHANGED <<store, gate, audit>>
  BY Counted DEF ApplyStep
<1>5. CASE /\ writes' = writes \cup
                {[id |-> task[t].id, p |-> task[t].p, step |-> task[t].n + 1]}
           /\ Becomes(t, [task[t] EXCEPT !.n = task[t].n + 1,
                !.pc = IF task[t].n + 1 = NSteps THEN "verify" ELSE "apply"])
  <2>1. GatePart' /\ approvals' = approvals
    BY <1>1, <1>2, <1>3, <1>4, <1>5, IInvParts, WriteKeeps DEF ApplyStep
  <2>2. PICK n \in 0..NSteps : n = task[t].n + 1
    BY <1>1, ConstantsAssumption DEF ApplyStep, Task
  <2>3. PICK l \in {"verify", "apply"} : l = IF task[t].n + 1 = NSteps THEN "verify" ELSE "apply"
    OBVIOUS
  <2>4. PICK u : u = [k EXCEPT !.n = n, !.pc = l] /\ Becomes(t, u)
    BY <1>1, <1>5, <2>2, <2>3
  <2>5. l \in Labels
    BY <2>3 DEF Labels
  <2>6. /\ u \in Task /\ u.pc = l /\ u.op = k.op /\ u.p = k.p /\ u.a = k.a
        /\ u.cred = k.cred /\ u.version = k.version
    BY <2>2, <2>4, <2>5 DEF Task
  <2>7. TaskInv(u)
    BY <1>1, <1>2, <1>3, <2>3, <2>6 DEF TaskInv, TaskShape, TaskGate, TaskStore, Authorised,
       Placed, Removals, Where, Reading, Creating, Moving, Executing
  <2>8. QED BY <1>4, <2>1, <2>4, <2>6, <2>7, GateMove
<1>6. CASE writes' = writes /\ Conclude(t, "failed")
  <2>1. UNCHANGED graph
    BY <1>4, <1>6 DEF graph
  <2>2. QED BY <1>1, <1>2, <1>4, <1>6, <2>1, Concluded, QuietMove DEF Outcomes
<1>7. QED BY <1>5, <1>6 DEF ApplyStep

LEMMA VerifyInv ==
  ASSUME IInv, NEW t \in Slots, Verify(t)
  PROVE  IInv'
<1>1. PICK k \in Task : k = task[t] /\ TaskInv(k)
  BY Before
<1>2. k.pc = "verify" /\ Where(k) \in Executing /\ Authorised(k)
  BY <1>1 DEF Verify, At, Where, Reading, Executing, TaskInv, TaskGate
<1>3. RestPart' /\ UNCHANGED <<store, gate, graph>>
  BY Counted DEF Verify
<1>4. CASE Conclude(t, "applied") \/ Conclude(t, "failed")
  BY <1>1, <1>2, <1>3, <1>4, Concluded, QuietMove DEF Outcomes
<1>5. CASE Finish(t)
  BY <1>3, <1>5, FinishQuietly
<1>6. QED BY <1>4, <1>5 DEF Verify

LEMMA AppendAuditInv ==
  ASSUME IInv, NEW t \in Slots, AppendAudit(t)
  PROVE  IInv'
<1>1. PICK k \in Task : k = task[t] /\ TaskInv(k)
  BY Before
<1>2. k.pc = "audit" /\ Where(k) \in Executing
  BY <1>1 DEF AppendAudit, At, Where, Reading, Executing
<1>3. k.op \in {"orphan", "execute"} /\ k.p \in Proposals /\ k.cred \in Credentials
  BY <1>1, <1>2, ExecutingTask
<1>4. RestPart' /\ UNCHANGED <<store, gate, writes>>
  BY Counted DEF AppendAudit
<1>5. Record(t) \in [id : Nat, p : Proposals, cred : Credentials,
                     outcome : Outcomes, steps : 0..NSteps]
  BY <1>1, <1>3 DEF Record, Task
<1>6. audit' \subseteq [id : Nat, p : Proposals, cred : Credentials,
                        outcome : Outcomes, steps : 0..NSteps]
  BY <1>5, IInvParts DEF AppendAudit, GatePart, GraphTypeOK
<1>7. GatePart' /\ approvals' = approvals
  BY <1>4, <1>6, IInvParts DEF gate, GatePart, GateTypeOK, GraphTypeOK, GateInv, MutationAuthorised
<1>8. CASE Finish(t)
  BY <1>4, <1>7, <1>8, FinishGate
<1>9. CASE CallTransition(t, "executed")
  <2>1. PICK u \in Task : Becomes(t, u) /\ TaskInv(u)
    BY <1>1, <1>3, <1>9, TransitionCalled DEF States
  <2>2. QED BY <1>4, <1>7, <2>1, GateMove
<1>10. QED BY <1>8, <1>9 DEF AppendAudit, AfterAudit

(***************************************************************************)
(* archive_for_run and clear_for_run.                                      *)
(***************************************************************************)
\* What a handler that removes proposals works on.
LEMMA RemovingTask ==
  ASSUME NEW k \in Task, TaskInv(k), k.pc \in {"next", "copy", "delete", "evict"}
  PROVE  /\ k.op \in Removals
         /\ k.set \subseteq Proposals
         /\ k.pc # "next" => k.p \in Proposals
BY DEF TaskInv, TaskShape, Placed, Removals, Where, Reading, Creating, Moving, Executing, Task, OpNames, Removals

LEMMA ClearExcludedInv ==
  ASSUME IInv, NEW t \in Slots, ClearExcluded(t)
  PROVE  IInv'
<1>1. PICK k \in Task : k = task[t] /\ TaskInv(k)
  BY Before
<1>2. k.pc = "unexclude" /\ k.op \in Removals
  BY <1>1 DEF ClearExcluded, At, TaskInv, TaskShape, Placed, Removals, Where, Reading, Creating, Moving,
     Executing, Task, OpNames, Removals
<1>3. PICK u : u = [k EXCEPT !.pc = "list"] /\ Becomes(t, u)
  BY <1>1 DEF ClearExcluded, Goto
<1>4. "list" \in Labels
  BY DEF Labels
<1>5. u \in Task /\ u.pc = "list" /\ u.op = k.op
  BY <1>3, <1>4 DEF Task
<1>6. TaskInv(u)
  BY <1>2, <1>5 DEF TaskInv, TaskShape, TaskGate, TaskStore, Placed, Removals, Where, Reading,
     Creating, Moving, Executing
<1>7. RestPart'
  BY IInvParts, ConstantsAssumption DEF ClearExcluded, RestPart, Works, Fails
<1>8. QED BY <1>3, <1>5, <1>6, <1>7, QuietMove DEF ClearExcluded

LEMMA ListIndexInv ==
  ASSUME IInv, NEW t \in Slots, ListIndex(t)
  PROVE  IInv'
<1>1. PICK k \in Task : k = task[t] /\ TaskInv(k)
  BY Before
<1>2. k.op \in Removals
  BY <1>1 DEF ListIndex, At, TaskInv, TaskShape, Placed, Removals, Where, Reading, Creating, Moving,
     Executing, Task, OpNames, Removals
<1>3. RestPart' /\ UNCHANGED <<store, gate, graph>>
  BY Counted DEF ListIndex
<1>4. CASE Becomes(t, [task[t] EXCEPT !.pc = "next", !.set = index])
  <2>1. PICK ids \in SUBSET Proposals : ids = index
    BY IInvParts DEF StorePart, StoreTypeOK
  <2>2. PICK u : u = [k EXCEPT !.pc = "next", !.set = ids] /\ Becomes(t, u)
    BY <1>1, <1>4, <2>1
  <2>3. ids \in SUBSET (Proposals \cup Candidates) /\ "next" \in Labels
    BY DEF Labels
  <2>4. u \in Task /\ u.pc = "next" /\ u.op = k.op /\ u.set = ids
    BY <2>2, <2>3 DEF Task
  <2>5. TaskInv(u)
    BY <1>2, <2>4 DEF TaskInv, TaskShape, TaskGate, TaskStore, Placed, Removals, Where, Reading,
       Creating, Moving, Executing
  <2>6. QED BY <1>3, <2>2, <2>4, <2>5, QuietMove
<1>5. CASE Finish(t)
  BY <1>3, <1>5, FinishQuietly
<1>6. QED BY <1>4, <1>5 DEF ListIndex

LEMMA ArchiveReadInv ==
  ASSUME IInv, NEW t \in Slots, NEW p \in Proposals, ArchiveRead(t, p)
  PROVE  IInv'
<1>1. PICK k \in Task : k = task[t] /\ TaskInv(k)
  BY Before
<1>2. k.pc = "next" /\ k.op \in Removals /\ k.set \subseteq Proposals
  BY <1>1, RemovingTask DEF ArchiveRead, At
<1>3. RestPart' /\ UNCHANGED <<store, gate, graph>>
  BY Counted DEF ArchiveRead
<1>4. PICK rest \in SUBSET Proposals : rest = task[t].set \ {p}
  BY <1>1, <1>2
<1>5. rest \in SUBSET (Proposals \cup Candidates)
  OBVIOUS
<1>6. CASE Becomes(t, [task[t] EXCEPT !.set = task[t].set \ {p}])
  <2>1. PICK u : u = [k EXCEPT !.set = rest] /\ Becomes(t, u)
    BY <1>1, <1>4, <1>6
  <2>2. u \in Task /\ u.pc = "next" /\ u.op = k.op /\ u.set = rest
    BY <1>2, <1>5, <2>1 DEF Task
  <2>3. TaskInv(u)
    BY <1>2, <2>2 DEF TaskInv, TaskShape, TaskGate, TaskStore, Placed, Removals, Where, Reading,
       Creating, Moving, Executing
  <2>4. QED BY <1>3, <2>1, <2>2, <2>3, QuietMove
<1>7. CASE Becomes(t, [task[t] EXCEPT !.set = task[t].set \ {p}, !.kept = task[t].kept \cup {p}])
  <2>1. PICK keep \in SUBSET Proposals : keep = task[t].kept \cup {p}
    BY <1>1 DEF Task
  <2>2. PICK u : u = [k EXCEPT !.set = rest, !.kept = keep] /\ Becomes(t, u)
    BY <1>1, <1>4, <1>7, <2>1
  <2>3. u \in Task /\ u.pc = "next" /\ u.op = k.op /\ u.set = rest
    BY <1>2, <1>5, <2>2 DEF Task
  <2>4. TaskInv(u)
    BY <1>2, <2>3 DEF TaskInv, TaskShape, TaskGate, TaskStore, Placed, Removals, Where, Reading,
       Creating, Moving, Executing
  <2>5. QED BY <1>3, <2>2, <2>3, <2>4, QuietMove
<1>8. CASE /\ StateOf(s3[p]) \notin {"absent", "executed"}
           /\ Becomes(t, [task[t] EXCEPT !.pc = "copy", !.p = p, !.pkt = s3[p]])
  <2>1. PICK pkt \in Packets : pkt = s3[p] /\ Held(p, pkt)
    BY <1>8, IInvParts DEF StorePart, StoreTypeOK, StoreInv, StateOf
  <2>2. PICK u : u = [k EXCEPT !.pc = "copy", !.p = p, !.pkt = pkt] /\ Becomes(t, u)
    BY <1>1, <1>8, <2>1
  <2>3. "copy" \in Labels
    BY DEF Labels
  <2>4. u \in Task /\ u.pc = "copy" /\ u.op = k.op /\ u.p = p /\ u.pkt = pkt /\ u.set = k.set
    BY <2>2, <2>3 DEF Task
  <2>5. TaskInv(u)
    BY <1>2, <2>1, <2>4 DEF TaskInv, TaskShape, TaskGate, TaskStore, Placed, Removals, Where, Reading,
       Creating, Moving, Executing
  <2>6. QED BY <1>3, <2>2, <2>4, <2>5, QuietMove
<1>9. CASE Finish(t)
  BY <1>3, <1>9, FinishQuietly
<1>10. QED BY <1>6, <1>7, <1>8, <1>9 DEF ArchiveRead

LEMMA ArchiveCopyInv ==
  ASSUME IInv, NEW t \in Slots, ArchiveCopy(t)
  PROVE  IInv'
<1>1. PICK k \in Task : k = task[t] /\ TaskInv(k)
  BY Before
<1>2. /\ k.pc = "copy" /\ k.op \in Removals /\ k.set \subseteq Proposals
      /\ k.p \in Proposals
  BY <1>1, RemovingTask DEF ArchiveCopy, At
<1>3. k.pkt \in Packets /\ Held(k.p, k.pkt)
  BY <1>1, <1>2 DEF TaskInv, TaskShape, TaskStore
<1>4. RestPart' /\ UNCHANGED <<gate, graph>>
  BY Counted DEF ArchiveCopy
<1>5. StorePart' /\ durable' = durable
  BY <1>1, <1>2, <1>3, IInvParts, CopyKeeps DEF ArchiveCopy
<1>6. CASE Goto(t, "delete")
  <2>1. PICK u : u = [k EXCEPT !.pc = "delete"] /\ Becomes(t, u)
    BY <1>1, <1>6 DEF Goto
  <2>2. "delete" \in Labels
    BY DEF Labels
  <2>3. u \in Task /\ u.pc = "delete" /\ u.op = k.op /\ u.p = k.p /\ u.set = k.set
    BY <2>1, <2>2, Stepped
  <2>4. TaskShape(u) /\ TaskGate(u) /\ TaskStore(u)'
    BY <1>2, <2>3 DEF TaskShape, TaskGate, TaskStore, Placed, Removals, Where, Reading, Creating, Moving,
       Executing
  <2>5. QED BY <1>4, <1>5, <2>1, <2>3, <2>4, StoreMove
<1>7. CASE Finish(t)
  BY <1>4, <1>5, <1>7, FinishStored
<1>8. QED BY <1>6, <1>7 DEF ArchiveCopy

LEMMA ClearNextInv ==
  ASSUME IInv, NEW t \in Slots, NEW p \in Proposals, ClearNext(t, p)
  PROVE  IInv'
<1>1. PICK k \in Task : k = task[t] /\ TaskInv(k)
  BY Before
<1>2. k.pc = "next" /\ k.op \in Removals /\ k.set \subseteq Proposals
  BY <1>1, RemovingTask DEF ClearNext, At
<1>3. PICK u : u = [k EXCEPT !.pc = "delete", !.p = p] /\ Becomes(t, u)
  BY <1>1 DEF ClearNext
<1>4. "delete" \in Labels
  BY DEF Labels
<1>5. u \in Task /\ u.pc = "delete" /\ u.op = k.op /\ u.p = p /\ u.set = k.set
  BY <1>3, <1>4 DEF Task
<1>6. TaskInv(u)
  BY <1>2, <1>5 DEF TaskInv, TaskShape, TaskGate, TaskStore, Placed, Removals, Where, Reading,
     Creating, Moving, Executing
<1>7. RestPart'
  BY IInvParts DEF ClearNext, RestPart
<1>8. QED BY <1>3, <1>5, <1>6, <1>7, QuietMove DEF ClearNext

LEMMA DeleteStoredInv ==
  ASSUME IInv, NEW t \in Slots, DeleteStored(t)
  PROVE  IInv'
<1>1. PICK k \in Task : k = task[t] /\ TaskInv(k)
  BY Before
<1>2. /\ k.pc = "delete" /\ k.op \in Removals /\ k.set \subseteq Proposals
      /\ k.p \in Proposals
  BY <1>1, RemovingTask DEF DeleteStored, At
<1>3. RestPart' /\ UNCHANGED <<gate, graph>>
  BY Counted DEF DeleteStored
<1>4. StorePart' /\ durable' = durable
  BY <1>1, <1>2, IInvParts, RemovalKeeps DEF DeleteStored
<1>5. PICK u : u = [k EXCEPT !.pc = "evict"] /\ Becomes(t, u)
  BY <1>1 DEF DeleteStored, Goto
<1>6. "evict" \in Labels
  BY DEF Labels
<1>7. u \in Task /\ u.pc = "evict" /\ u.op = k.op /\ u.p = k.p /\ u.set = k.set
  BY <1>5, <1>6, Stepped
<1>8. TaskShape(u) /\ TaskGate(u) /\ TaskStore(u)'
  BY <1>2, <1>7 DEF TaskShape, TaskGate, TaskStore, Placed, Removals, Where, Reading, Creating, Moving,
     Executing
<1>9. QED BY <1>3, <1>4, <1>5, <1>7, <1>8, StoreMove

LEMMA EvictCachedInv ==
  ASSUME IInv, NEW t \in Slots, EvictCached(t)
  PROVE  IInv'
<1>1. PICK k \in Task : k = task[t] /\ TaskInv(k)
  BY Before
<1>2. /\ k.pc = "evict" /\ k.op \in Removals /\ k.set \subseteq Proposals
      /\ k.p \in Proposals
  BY <1>1, RemovingTask DEF EvictCached, At
<1>3. RestPart' /\ UNCHANGED <<gate, graph>>
  BY Counted DEF EvictCached
<1>4. StorePart' /\ durable' = durable
  BY <1>1, <1>2, IInvParts, RemovalKeeps DEF EvictCached
<1>5. PICK rest \in SUBSET Proposals : rest = task[t].set \ {task[t].p}
  BY <1>1, <1>2
<1>6. PICK u : u = [k EXCEPT !.pc = "next", !.p = None, !.pkt = None, !.set = rest] /\ Becomes(t, u)
  BY <1>1, <1>5 DEF EvictCached
<1>7. rest \in SUBSET (Proposals \cup Candidates) /\ "next" \in Labels
  BY DEF Labels
<1>8. u \in Task /\ u.pc = "next" /\ u.op = k.op /\ u.set = rest
  BY <1>6, <1>7 DEF Task
<1>9. TaskShape(u) /\ TaskGate(u) /\ TaskStore(u)'
  BY <1>2, <1>8 DEF TaskShape, TaskGate, TaskStore, Placed, Removals, Where, Reading, Creating, Moving,
     Executing
<1>10. QED BY <1>3, <1>4, <1>6, <1>8, <1>9, StoreMove

LEMMA ManifestInv ==
  ASSUME IInv, NEW t \in Slots, Manifest(t)
  PROVE  IInv'
<1>1. PICK k \in Task : k = task[t] /\ TaskInv(k)
  BY Before
<1>2. k.op = "archive"
  BY <1>1 DEF Manifest
<1>3. RestPart' /\ UNCHANGED <<store, gate, graph>>
  BY Counted DEF Manifest
<1>4. CASE Goto(t, "reindex")
  <2>1. PICK u : u = [k EXCEPT !.pc = "reindex"] /\ Becomes(t, u)
    BY <1>1, <1>4 DEF Goto
  <2>2. "reindex" \in Labels
    BY DEF Labels
  <2>3. u \in Task /\ u.pc = "reindex" /\ u.op = k.op
    BY <2>1, <2>2, Stepped
  <2>4. TaskInv(u)
    BY <1>2, <2>3 DEF TaskInv, TaskShape, TaskGate, TaskStore, Placed, Removals, Where, Reading, Creating,
       Moving, Executing
  <2>5. QED BY <1>3, <2>1, <2>3, <2>4, QuietMove
<1>5. CASE Finish(t)
  BY <1>3, <1>5, FinishQuietly
<1>6. QED BY <1>4, <1>5 DEF Manifest

LEMMA RebuildIndexInv ==
  ASSUME IInv, NEW t \in Slots, RebuildIndex(t)
  PROVE  IInv'
<1>1. PICK k \in Task : k = task[t] /\ TaskInv(k)
  BY Before
<1>2. RestPart' /\ UNCHANGED <<gate, graph>>
  BY Counted DEF RebuildIndex
<1>3. index' \subseteq Proposals
  <2>1. k.kept \subseteq Proposals
    BY DEF Task
  <2>2. index \subseteq Proposals
    BY IInvParts DEF StorePart, StoreTypeOK
  <2>3. QED BY <1>1, <2>1, <2>2 DEF RebuildIndex
<1>4. StorePart' /\ durable' = durable
  BY <1>3, IInvParts, IndexPutKeeps DEF RebuildIndex
<1>5. QED BY <1>2, <1>4, FinishStored DEF RebuildIndex

(***************************************************************************)
(* Steps that belong to no request, and the theorem.                       *)
(***************************************************************************)
\* A step that leaves the requests, the stores and the approvals alone.
LEMMA OutsideMove ==
  ASSUME IInv, UNCHANGED <<store, approvals, graph, task>>, GatePart', RestPart'
  PROVE  IInv'
<1>1. StorePart' /\ durable' = durable
  BY IInvParts, StoreKept
<1>2. Grows
  BY <1>1 DEF Grows
<1>3. task' \in [Slots -> Task] /\ \A s \in Slots : TaskInv(task[s])'
  <2>1. ASSUME NEW s \in Slots PROVE TaskInv(task[s])'
    <3>1. PICK k \in Task : k = task[s] /\ TaskInv(k)
      BY Before
    <3>2. TaskInv(k)'
      BY <1>2, <3>1, OtherSlots
    <3>3. QED BY <3>1, <3>2 DEF TaskInv, TaskShape, TaskGate, TaskStore, Authorised, Held
  <2>2. QED BY <2>1, IInvParts
<1>4. QED BY <1>1, <1>3 DEF IInv, TypeOK, StorePart, GatePart, RestPart

LEMMA ExpireTokenInv == ASSUME IInv, ExpireToken PROVE IInv'
<1>1. GatePart'
  BY IInvParts, TokensKeep DEF ExpireToken, GatePart, GateTypeOK
<1>2. RestPart'
  BY IInvParts DEF ExpireToken, RestPart
<1>3. QED BY <1>1, <1>2, OutsideMove DEF ExpireToken

LEMMA LockSchemaInv == ASSUME IInv, LockSchema PROVE IInv'
<1>1. GatePart' /\ approvals' = approvals
  BY IInvParts, GateKept DEF LockSchema
<1>2. RestPart'
  BY IInvParts, ConstantsAssumption DEF LockSchema, RestPart, Works, Fails
<1>3. QED BY <1>1, <1>2, OutsideMove DEF LockSchema

LEMMA CrashInv == ASSUME IInv, Crash PROVE IInv'
<1>1. GatePart' /\ approvals' = approvals
  BY IInvParts, GateKept DEF Crash
<1>2. StorePart' /\ durable' = durable
  BY IInvParts, StoreKept DEF Crash
<1>3. RestPart'
  BY Counted DEF Crash
<1>4. TaskInv(Idle)'
  BY <1>1, <1>2, IdleTask, OtherSlots DEF Grows
<1>5. task' \in [Slots -> Task] /\ \A s \in Slots : task'[s] = Idle
  BY IdleTask DEF Crash
<1>6. \A s \in Slots : TaskInv(task[s])'
  BY <1>4, <1>5 DEF TaskInv, TaskShape, TaskGate, TaskStore, Authorised, Held
<1>7. QED BY <1>1, <1>2, <1>3, <1>5, <1>6 DEF IInv, TypeOK, StorePart, GatePart, RestPart

LEMMA InitInv == ASSUME Init PROVE IInv
<1>1. RestPart
  BY ConstantsAssumption DEF Init, RestPart
<1>2. ASSUME NEW p \in Preloaded
      PROVE  [state |-> "pending", version |-> schema] \in Packets
  BY <1>2 DEF Init, Packets, States
<1>3. StorePart
  <2>1. s3 \in [Proposals -> Packets \cup {None}] /\ redis = s3
    BY <1>2 DEF Init
  <2>2. \A p \in Proposals : s3[p] # None => p \in Preloaded
    BY DEF Init
  <2>3. durable = {[p |-> p, pkt |-> s3[p]] : p \in Preloaded}
    BY DEF Init
  <2>4. \A p \in Preloaded : s3[p] \in Packets
    BY <1>2, ConstantsAssumption DEF Init
  <2>5. durable \subseteq [p : Proposals, pkt : Packets]
    BY <2>3, <2>4, ConstantsAssumption
  <2>6. index \subseteq Proposals /\ archive = {}
    BY ConstantsAssumption DEF Init
  <2>7. QED
    BY <2>1, <2>2, <2>3, <2>5, <2>6 DEF StorePart, StoreTypeOK, StoreInv, CacheNeverAhead, Held
<1>4. GatePart
  BY DEF Init, GatePart, GateTypeOK, GraphTypeOK, GateInv, MutationAuthorised
<1>5. task \in [Slots -> Task] /\ \A t \in Slots : TaskInv(task[t])
  BY IdleTask DEF Init
<1>6. QED BY <1>1, <1>3, <1>4, <1>5, IInvParts

LEMMA StutterInv == ASSUME IInv, UNCHANGED vars PROVE IInv'
<1>1. UNCHANGED <<store, gate, graph, excluded, schema, task, started, faults>>
  BY DEF vars
<1>2. GatePart'
  BY <1>1, IInvParts, GateKept
<1>3. RestPart'
  BY <1>1, IInvParts DEF RestPart
<1>4. QED BY <1>1, <1>2, <1>3, OutsideMove DEF gate

\* Every step keeps the invariant: one case per action.
LEMMA NextInv == ASSUME IInv, [Next]_vars PROVE IInv'
<1>1. ASSUME NEW t \in Slots, Begin(t) PROVE IInv'
  BY <1>1, BeginInv
<1>2. ASSUME NEW t \in Slots, ReadStep(t) PROVE IInv'
  BY <1>2, GetCachedInv, GetStoredInv, BackfillInv DEF ReadStep
<1>3. ASSUME NEW t \in Slots, CreateStep(t) PROVE IInv'
  BY <1>3, CreateExistingInv, CreatePutInv, CreateCacheInv, IndexReadInv, IndexPutInv
     DEF CreateStep
<1>4. ASSUME NEW t \in Slots, TransitionStep(t) PROVE IInv'
  BY <1>4, TransitionRefusedInv, TransitionPutInv, TransitionCacheInv DEF TransitionStep
<1>5. ASSUME NEW t \in Slots, GateStep(t) PROVE IInv'
  BY <1>5, ApproveAgainInv, ApproveRefusedInv, ApproveHighRiskInv, ApproveLowRiskInv,
     RedeemTokenInv, RecordApprovalInv, DropTokenInv, RestoreSeenInv, ExcludedReadInv,
     ExcludedPutInv DEF GateStep
<1>6. ASSUME NEW t \in Slots, ExecutionStep(t) PROVE IInv'
  BY <1>6, ExecuteRefusedInv, ExecuteBuildInv, CheckApprovalInv, CheckStateInv, CheckSchemaInv,
     ApplyStepInv, VerifyInv, AppendAuditInv DEF ExecutionStep
<1>7. ASSUME NEW t \in Slots, RemovalStep(t) PROVE IInv'
  BY <1>7, ClearExcludedInv, ListIndexInv, ArchiveReadInv, ArchiveCopyInv, ClearNextInv, DeleteStoredInv,
     EvictCachedInv, ManifestInv, RebuildIndexInv DEF RemovalStep
<1>8. CASE \E t \in Slots : SlotStep(t)
  BY <1>1, <1>2, <1>3, <1>4, <1>5, <1>6, <1>7, <1>8 DEF SlotStep
<1>9. CASE ExpireToken \/ LockSchema \/ Crash
  BY <1>9, ExpireTokenInv, LockSchemaInv, CrashInv
<1>10. CASE UNCHANGED vars
  BY <1>10, StutterInv
<1>11. QED BY <1>8, <1>9, <1>10 DEF Next

\* The inductive invariant holds in every reachable state.
THEOREM Invariance == Spec => []IInv
BY InitInv, NextInv, PTL DEF Spec

\* Type correctness of the stores, the gate, the graph and every handler's state.
THEOREM TypeCorrectness == Spec => []TypeOK
<1>1. IInv => TypeOK
  BY DEF IInv
<1>2. QED BY Invariance, <1>1, PTL

\* Whatever the number of proposals, operators, concurrent requests, faults and
\* crashes, nothing is written to the graph without an approval record, and no
\* merge or delete without a confirmed one (execution.py, _validate).
THEOREM Authorisation == Spec => []MutationAuthorised
<1>1. IInv => MutationAuthorised
  BY DEF IInv
<1>2. QED BY Invariance, <1>1, PTL

\* Redis and the archive never hold a packet that S3 has not held first
\* (service.py writes S3 before Redis and copies only what it read from S3).
THEOREM CacheFollowsStore == Spec => []CacheNeverAhead
<1>1. IInv => CacheNeverAhead
  BY DEF IInv
<1>2. QED BY Invariance, <1>1, PTL

(***************************************************************************)
(* The history: what the audit log says of the graph, what the executed    *)
(* proposals say of the audit log, and which approvals were confirmed      *)
(* after a challenge.                                                      *)
(***************************************************************************)

(***************************************************************************)
(* Framing.  Most steps belong to a handler that is not, and does not      *)
(* become, part of an attempt: it is early.                                *)
(***************************************************************************)
Early(k) == ~Marking(k) /\ Where(k) \notin {"apply", "verify", "audit"}

\* The handler goes on with its own request, and not yet with its attempt.
GoesOn(k, u) ==
  /\ u.op = k.op /\ u.id = k.id /\ u.n = k.n
  /\ u.p = k.p \/ k.op \in Removals
  /\ Early(u) /\ u.pc # "token"

ExecutedKept ==
  \A p \in Proposals : StateOf(s3[p])' = "executed" => StateOf(s3[p]) = "executed"

LEMMA EarlyAttempt ==
  ASSUME TypeOK, HistoryInv, NEW t \in Slots, Early(task[t])
  PROVE  /\ task[t].n = 0
         /\ \A w \in writes : w.id # task[t].id
         /\ \A r \in audit : r.id # task[t].id
<1>1. task[t] \in Task /\ AttemptInv(task[t])
  BY DEF TypeOK, HistoryInv
<1>2. task[t].n \in 0..NSteps /\ NSteps \in Nat
  BY <1>1, ConstantsAssumption DEF Task
<1>3. task[t].n = 0
  BY <1>1, <1>2 DEF AttemptInv, Early
<1>4. \A w \in writes : w.step \in 1..NSteps
  BY DEF TypeOK, GraphTypeOK
<1>5. QED
  BY <1>1, <1>2, <1>3, <1>4 DEF AttemptInv, Early, Committed

\* One slot moves, and neither the graph, nor the log, nor the ids change.
LEMMA AttemptMove ==
  ASSUME TypeOK, HistoryInv, NEW t \in Slots, NEW u, Becomes(t, u),
         u.id \in {task[t].id, 0}, AttemptInv(u),
         UNCHANGED <<graph, started>>, ExecutedIsRecorded'
  PROVE  HistoryInv'
<1>1. task \in [Slots -> Task]
  BY DEF TypeOK
<1>2. task'[t] = u /\ \A s \in Slots : s # t => task'[s] = task[s]
  BY <1>1 DEF Becomes
<1>3. writes' = writes /\ audit' = audit /\ started' = started
  BY DEF graph
<1>4. OwnIds'
  BY <1>2 DEF HistoryInv, OwnIds
<1>5. LogInv'
  BY <1>3 DEF HistoryInv, LogInv, Committed
<1>6. ASSUME NEW s \in Slots PROVE AttemptInv(task[s])'
  <2>1. PICK k : k = task'[s] /\ AttemptInv(k)
    BY <1>2 DEF HistoryInv
  <2>2. QED BY <1>3, <2>1 DEF AttemptInv, Committed, Marking
<1>7. QED BY <1>4, <1>5, <1>6 DEF HistoryInv

LEMMA RecordsKept ==
  ASSUME HistoryInv, ExecutedKept, audit \subseteq audit'
  PROVE  ExecutedIsRecorded'
BY DEF HistoryInv, ExecutedIsRecorded, ExecutedKept

LEMMA IdleAttempt ==
  ASSUME TypeOK, HistoryInv
  PROVE  AttemptInv(Idle)
<1>1. started \in Nat
  BY ConstantsAssumption DEF TypeOK
<1>2. Where(Idle) = "idle" /\ Idle.n = 0 /\ Idle.id = 0 /\ Idle.op = "none" /\ ~Marking(Idle)
  BY DEF Idle, Where, Reading, Marking, Moving
<1>3. \A w \in writes : w.id # 0
  BY DEF HistoryInv, LogInv
<1>4. \A r \in audit : r.id # 0
  BY DEF HistoryInv, LogInv
<1>5. QED
  BY <1>1, <1>2, <1>3, <1>4 DEF AttemptInv, Committed

\* The step of a handler that ends its request.
LEMMA FinishAttempt ==
  ASSUME TypeOK, HistoryInv, NEW t \in Slots, Finish(t),
         UNCHANGED <<graph, started>>, ExecutedKept
  PROVE  HistoryInv'
<1>1. ExecutedIsRecorded'
  BY RecordsKept DEF graph
<1>2. Idle.id = 0
  BY DEF Idle
<1>3. QED BY <1>1, <1>2, IdleAttempt, AttemptMove DEF Finish

\* The step of a handler that goes on before its attempt.
LEMMA EarlyMove ==
  ASSUME TypeOK, HistoryInv, NEW t \in Slots, Early(task[t]), NEW u, Becomes(t, u),
         GoesOn(task[t], u), UNCHANGED <<graph, started>>, ExecutedKept
  PROVE  HistoryInv'
<1>1. ExecutedIsRecorded'
  BY RecordsKept DEF graph
<1>2. AttemptInv(task[t])
  BY DEF HistoryInv
<1>3. AttemptInv(u)
  BY <1>2, EarlyAttempt DEF AttemptInv, GoesOn, Early, Committed
<1>4. QED BY <1>1, <1>3, AttemptMove DEF GoesOn

EarlyStep(t) ==
  /\ Early(task[t])
  /\ Finish(t) \/ \E u : Becomes(t, u) /\ GoesOn(task[t], u)
  /\ UNCHANGED <<graph, started>>
  /\ ExecutedKept

LEMMA EarlyStepKeeps ==
  ASSUME TypeOK, HistoryInv, NEW t \in Slots, EarlyStep(t)
  PROVE  HistoryInv'
BY FinishAttempt, EarlyMove DEF EarlyStep

LEMMA StoreUntouched == ASSUME UNCHANGED s3 PROVE ExecutedKept
BY DEF ExecutedKept

\* Packets are created pending, moved to a target, or removed.
LEMMA PutKeepsExecuted ==
  ASSUME StorePart, NEW p \in Proposals, NEW pkt \in Packets, Store(p, pkt),
         pkt.state # "executed"
  PROVE  ExecutedKept
BY DEF StorePart, StoreTypeOK, Store, ExecutedKept, StateOf

LEMMA RemovalKeepsExecuted ==
  ASSUME StorePart, NEW p \in Proposals, s3' = [s3 EXCEPT ![p] = None] \/ s3' = s3
  PROVE  ExecutedKept
BY DEF StorePart, StoreTypeOK, ExecutedKept, StateOf

(***************************************************************************)
(* What a handler does outside its attempt.                                *)
(***************************************************************************)
\* The handlers that are early wherever they are.
LEMMA Patient ==
  ASSUME NEW k \in Task, TaskShape(k), k.op \notin {"orphan", "execute"}
  PROVE  Early(k)
BY DEF TaskShape, Placed, Targeted, Early, Marking, Executing, Moving, Creating, Where, Reading, Task,
       OpNames, Removals

LEMMA CallsEarly ==
  ASSUME NEW t \in Slots, NEW k \in Task, k = task[t], NEW to \in States, to # "executed",
         CallTransition(t, to)
  PROVE  \E u : Becomes(t, u) /\ GoesOn(k, u)
<1>1. PICK u : u = [k EXCEPT !.pc = "get", !.resume = "transition", !.target = to] /\ Becomes(t, u)
  BY DEF CallTransition
<1>2. /\ u.op = k.op /\ u.id = k.id /\ u.n = k.n /\ u.p = k.p
      /\ u.pc = "get" /\ u.resume = "transition" /\ u.target = to
  BY <1>1 DEF Task
<1>3. QED BY <1>1, <1>2 DEF GoesOn, Early, Marking, Where, Reading

LEMMA GoesEarly ==
  ASSUME NEW t \in Slots, NEW k \in Task, k = task[t], NEW l, Goto(t, l),
         l \notin {"get", "getS3", "fill", "transition", "cacheState", "apply", "verify", "audit", "token"}
  PROVE  \E u : Becomes(t, u) /\ GoesOn(k, u)
<1>1. PICK u : u = [k EXCEPT !.pc = l] /\ Becomes(t, u)
  BY DEF Goto
<1>2. u.op = k.op /\ u.id = k.id /\ u.n = k.n /\ u.p = k.p /\ u.pc = l
  BY <1>1 DEF Task
<1>3. QED BY <1>1, <1>2 DEF GoesOn, Early, Marking, Where, Reading, Moving

LEMMA CreateEarly ==
  ASSUME IInv, NEW t \in Slots, CreateStep(t)
  PROVE  EarlyStep(t)
<1>1. PICK k \in Task : k = task[t] /\ TaskInv(k)
  BY Before
<1>2. k.pc \in Creating /\ k.p \in Proposals
  BY <1>1 DEF CreateStep, CreateExisting, CreatePut, CreateCache, IndexRead, IndexPut, At, Creating,
     TaskInv, TaskShape, Placed, Where, Reading, Moving, Executing, Removals, Task
<1>3. Early(k)
  BY <1>2 DEF Early, Marking, Creating, Where, Reading, Moving
<1>4. UNCHANGED <<graph, started>>
  BY DEF CreateStep, CreateExisting, CreatePut, CreateCache, IndexRead, IndexPut
<1>5. ASSUME AfterCreate(t)
      PROVE  Finish(t) \/ \E u : Becomes(t, u) /\ GoesOn(k, u)
  BY <1>1, <1>5, CallsEarly DEF AfterCreate, States
<1>6. CASE CreateExisting(t)
  BY <1>1, <1>3, <1>4, <1>5, <1>6, StoreUntouched DEF CreateExisting, EarlyStep, store
<1>7. CASE CreatePut(t)
  <2>1. CASE Store(k.p, NewPacket(t)) /\ Goto(t, "cacheNew")
    <3>1. k.version \in Versions
      BY <1>1, <1>7 DEF CreatePut, At, TaskInv, TaskShape, Placed, Where, Reading, Moving, Executing,
         Creating, Removals, Task, OpNames
    <3>2. PICK pkt \in Packets : pkt = [state |-> "pending", version |-> k.version]
      BY <3>1 DEF Packets, States
    <3>3. ExecutedKept
      BY <1>1, <1>2, <2>1, <3>2, IInvParts, PutKeepsExecuted DEF NewPacket
    <3>4. QED BY <1>1, <1>3, <1>4, <2>1, <3>3, GoesEarly DEF EarlyStep
  <2>2. CASE UNCHANGED <<s3, durable>> /\ Finish(t)
    BY <1>1, <1>3, <1>4, <2>2, StoreUntouched DEF EarlyStep
  <2>3. QED BY <1>1, <1>7, <2>1, <2>2 DEF CreatePut
<1>8. CASE CreateCache(t)
  BY <1>1, <1>3, <1>4, <1>8, StoreUntouched, GoesEarly DEF CreateCache, EarlyStep
<1>9. CASE IndexRead(t)
  <2>1. CASE AfterCreate(t)
    BY <1>1, <1>3, <1>4, <1>5, <1>9, <2>1, StoreUntouched DEF IndexRead, EarlyStep, store
  <2>2. ASSUME NEW ids, Becomes(t, [task[t] EXCEPT !.pc = "indexPut", !.set = ids])
        PROVE  EarlyStep(t)
    <3>1. PICK u : u = [k EXCEPT !.pc = "indexPut", !.set = ids] /\ Becomes(t, u)
      BY <1>1, <2>2
    <3>2. u.op = k.op /\ u.id = k.id /\ u.n = k.n /\ u.p = k.p /\ u.pc = "indexPut"
      BY <3>1 DEF Task
    <3>3. GoesOn(k, u)
      BY <3>2 DEF GoesOn, Early, Marking, Where, Reading, Moving
    <3>4. QED BY <1>1, <1>3, <1>4, <1>9, <3>1, <3>3, StoreUntouched DEF IndexRead, EarlyStep, store
  <2>3. QED BY <1>9, <2>1, <2>2 DEF IndexRead
<1>10. CASE IndexPut(t)
  BY <1>1, <1>3, <1>4, <1>5, <1>10, StoreUntouched DEF IndexPut, EarlyStep
<1>11. QED BY <1>6, <1>7, <1>8, <1>9, <1>10 DEF CreateStep

LEMMA GateEarly ==
  ASSUME IInv, NEW t \in Slots, GateStep(t)
  PROVE  EarlyStep(t)
<1>1. PICK k \in Task : k = task[t] /\ TaskInv(k)
  BY Before
<1>2. k.pc \in {"approve", "token", "record", "dropToken", "restore", "exclRead", "exclPut"}
  BY <1>1 DEF GateStep, ApproveAgain, ApproveRefused, ApproveHighRisk, ApproveLowRisk, RedeemToken,
     RecordApproval, DropToken, RestoreSeen, ExcludedRead, ExcludedPut, At
<1>3. Early(k)
  BY <1>2 DEF Early, Marking, Where, Reading, Moving
<1>4. UNCHANGED <<graph, started, s3>>
  BY DEF GateStep, ApproveAgain, ApproveRefused, ApproveHighRisk, ApproveLowRisk, RedeemToken,
     RecordApproval, DropToken, RestoreSeen, ExcludedRead, ExcludedPut, store
<1>5. ExecutedKept
  BY <1>4, StoreUntouched
<1>6. ASSUME NEW ids, Becomes(t, [task[t] EXCEPT !.pc = "exclPut", !.set = ids])
      PROVE  \E u : Becomes(t, u) /\ GoesOn(k, u)
  <2>1. PICK u : u = [k EXCEPT !.pc = "exclPut", !.set = ids] /\ Becomes(t, u)
    BY <1>1, <1>6
  <2>2. u.op = k.op /\ u.id = k.id /\ u.n = k.n /\ u.p = k.p /\ u.pc = "exclPut"
    BY <2>1 DEF Task
  <2>3. QED BY <2>1, <2>2 DEF GoesOn, Early, Marking, Where, Reading, Moving
<1>7. Finish(t) \/ \E u : Becomes(t, u) /\ GoesOn(k, u)
  <2>1. CASE ApproveAgain(t) \/ ApproveRefused(t) \/ ApproveHighRisk(t) \/ DropToken(t) \/ ExcludedPut(t)
    BY <2>1 DEF ApproveAgain, ApproveRefused, ApproveHighRisk, DropToken, ExcludedPut
  <2>2. CASE ApproveLowRisk(t) \/ RedeemToken(t)
    BY <1>1, <2>2, CallsEarly DEF ApproveLowRisk, RedeemToken, States
  <2>3. CASE RecordApproval(t)
    <3>1. CASE Becomes(t, [task[t] EXCEPT !.pc = "approval", !.cred = Key(t)])
      <4>1. PICK u : u = [k EXCEPT !.pc = "approval", !.cred = Key(t)] /\ Becomes(t, u)
        BY <1>1, <3>1
      <4>2. u.op = k.op /\ u.id = k.id /\ u.n = k.n /\ u.p = k.p /\ u.pc = "approval"
        BY <4>1 DEF Task
      <4>3. QED BY <4>1, <4>2 DEF GoesOn, Early, Marking, Where, Reading, Moving
    <3>2. CASE Goto(t, "dropToken")
      BY <1>1, <3>2, GoesEarly
    <3>3. QED BY <2>3, <3>1, <3>2 DEF RecordApproval
  <2>4. CASE RestoreSeen(t)
    <3>1. k.target = "pending"
      BY <1>1, <2>4 DEF RestoreSeen, At, TaskInv, TaskShape, Placed, Targeted, Where, Reading, Moving,
         Executing, Creating, Removals, Task, OpNames
    <3>2. PICK u : u = [k EXCEPT !.pc = "get", !.resume = "transition", !.found = k.pkt # None]
                   /\ Becomes(t, u)
      BY <1>1, <2>4 DEF RestoreSeen
    <3>3. /\ u.op = k.op /\ u.id = k.id /\ u.n = k.n /\ u.p = k.p
          /\ u.pc = "get" /\ u.resume = "transition" /\ u.target = "pending"
      BY <3>1, <3>2 DEF Task
    <3>4. QED BY <3>2, <3>3 DEF GoesOn, Early, Marking, Where, Reading
  <2>5. CASE ExcludedRead(t)
    BY <1>1, <1>6, <2>5 DEF ExcludedRead, Rewrite
  <2>6. QED BY <2>1, <2>2, <2>3, <2>4, <2>5 DEF GateStep
<1>8. QED BY <1>1, <1>3, <1>4, <1>5, <1>7 DEF EarlyStep

LEMMA RemovalEarly ==
  ASSUME IInv, NEW t \in Slots, RemovalStep(t)
  PROVE  EarlyStep(t)
<1>1. PICK k \in Task : k = task[t] /\ TaskInv(k)
  BY Before
<1>2. k.pc \in {"unexclude", "list", "next", "copy", "delete", "evict", "reindex"}
  BY <1>1 DEF RemovalStep, ClearExcluded, ListIndex, ArchiveCopy, DeleteStored, EvictCached, Manifest,
     RebuildIndex, ArchiveRead, ClearNext, At
<1>3. Early(k) /\ k.op \in Removals
  BY <1>1, <1>2 DEF Early, Marking, Where, Reading, Moving, TaskInv, TaskShape, Placed, Executing,
     Creating, Removals, Task, OpNames
<1>4. UNCHANGED <<graph, started>>
  BY DEF RemovalStep, ClearExcluded, ListIndex, ArchiveCopy, DeleteStored, EvictCached, Manifest,
     RebuildIndex, ArchiveRead, ClearNext
<1>5. ExecutedKept
  <2>1. CASE DeleteStored(t)
    <3>1. k.p \in Proposals
      BY <1>1, <2>1 DEF DeleteStored, At, TaskInv, TaskShape
    <3>2. QED BY <1>1, <2>1, <3>1, IInvParts, RemovalKeepsExecuted DEF DeleteStored
  <2>2. CASE ~DeleteStored(t)
    <3>1. UNCHANGED s3
      BY <2>2 DEF RemovalStep, ClearExcluded, ListIndex, ArchiveCopy, EvictCached, Manifest,
         RebuildIndex, ArchiveRead, ClearNext, store
    <3>2. QED BY <3>1, StoreUntouched
  <2>3. QED BY <2>1, <2>2
<1>6. Finish(t) \/ \E u : Becomes(t, u) /\ GoesOn(k, u)
  <2>1. CASE ClearExcluded(t) \/ ArchiveCopy(t) \/ DeleteStored(t) \/ Manifest(t) \/ RebuildIndex(t)
    BY <1>1, <2>1, GoesEarly DEF ClearExcluded, ArchiveCopy, DeleteStored, Manifest, RebuildIndex
  <2>2. CASE ListIndex(t)
    <3>1. CASE Becomes(t, [task[t] EXCEPT !.pc = "next", !.set = index])
      <4>1. PICK u : u = [k EXCEPT !.pc = "next", !.set = index] /\ Becomes(t, u)
        BY <1>1, <3>1
      <4>2. u.op = k.op /\ u.id = k.id /\ u.n = k.n /\ u.p = k.p /\ u.pc = "next"
        BY <4>1 DEF Task
      <4>3. QED BY <4>1, <4>2 DEF GoesOn, Early, Marking, Where, Reading, Moving
    <3>2. QED BY <2>2, <3>1 DEF ListIndex
  <2>3. CASE EvictCached(t)
    <3>1. PICK u : /\ u = [k EXCEPT !.pc = "next", !.p = None, !.pkt = None, !.set = k.set \ {k.p}]
                   /\ Becomes(t, u)
      BY <1>1, <2>3 DEF EvictCached
    <3>2. u.op = k.op /\ u.id = k.id /\ u.n = k.n /\ u.pc = "next"
      BY <3>1 DEF Task
    <3>3. QED BY <1>3, <3>1, <3>2 DEF GoesOn, Early, Marking, Where, Reading, Moving
  <2>4. ASSUME NEW p \in Proposals, ArchiveRead(t, p) \/ ClearNext(t, p)
        PROVE  Finish(t) \/ \E u : Becomes(t, u) /\ GoesOn(k, u)
    <3>1. k.pc = "next"
      BY <1>1, <2>4 DEF ArchiveRead, ClearNext, At
    <3>2. ASSUME NEW u, \/ u = [k EXCEPT !.set = k.set \ {p}]
                        \/ u = [k EXCEPT !.set = k.set \ {p}, !.kept = k.kept \cup {p}]
                        \/ u = [k EXCEPT !.pc = "copy", !.p = p, !.pkt = s3[p]]
                        \/ u = [k EXCEPT !.pc = "delete", !.p = p]
          PROVE  GoesOn(k, u)
      <4>1. u.op = k.op /\ u.id = k.id /\ u.n = k.n /\ u.pc \in {"next", "copy", "delete"}
        BY <3>1, <3>2 DEF Task
      <4>2. QED BY <1>3, <4>1 DEF GoesOn, Early, Marking, Where, Reading, Moving
    <3>3. QED BY <1>1, <2>4, <3>2 DEF ArchiveRead, ClearNext
  <2>5. QED BY <2>1, <2>2, <2>3, <2>4 DEF RemovalStep
<1>7. QED BY <1>1, <1>3, <1>4, <1>5, <1>6 DEF EarlyStep

(***************************************************************************)
(* Reading and moving: the handler stays where it is in its request.       *)
(***************************************************************************)
Stays(k, u) ==
  /\ u.op = k.op /\ u.id = k.id /\ u.n = k.n /\ u.p = k.p
  /\ u.target = k.target /\ u.outcome = k.outcome
  /\ Where(u) = Where(k) \/ {Where(u), Where(k)} \subseteq Moving

LEMMA StaysAttempt ==
  ASSUME NEW k, AttemptInv(k), NEW u, Stays(k, u)
  PROVE  AttemptInv(u)
BY DEF AttemptInv, Stays, Marking, Moving

LEMMA ReadKeepsHistory ==
  ASSUME IInv, HistoryInv, NEW t \in Slots, ReadStep(t)
  PROVE  HistoryInv'
<1>1. PICK k \in Task : k = task[t] /\ TaskInv(k)
  BY Before
<1>2. k.pc \in Reading /\ k.resume \in Resumptions
  BY <1>1, ReadingTask DEF ReadStep, GetCached, GetStored, Backfill, At, Reading
<1>3. UNCHANGED <<graph, started, s3>>
  BY DEF ReadStep, GetCached, GetStored, Backfill, store
<1>4. ExecutedIsRecorded'
  BY <1>3, StoreUntouched, RecordsKept DEF graph
<1>5. ASSUME NEW u, NEW pkt, \/ u = [k EXCEPT !.pc = k.resume, !.pkt = pkt]
                             \/ u = [k EXCEPT !.pc = k.resume]
                             \/ u = [k EXCEPT !.pc = "getS3"]
                             \/ u = [k EXCEPT !.pc = "fill", !.pkt = pkt]
      PROVE  Stays(k, u) /\ u.id \in {k.id, 0}
  <2>1. /\ u.op = k.op /\ u.id = k.id /\ u.n = k.n /\ u.p = k.p
        /\ u.target = k.target /\ u.outcome = k.outcome /\ u.resume = k.resume
        /\ u.pc \in {k.resume, "getS3", "fill"}
    BY <1>5 DEF Task
  <2>2. Where(u) = Where(k)
    BY <1>2, <2>1 DEF Where, Reading, Resumptions
  <2>3. QED BY <2>1, <2>2 DEF Stays
<1>6. ASSUME NEW u, Becomes(t, u), Stays(k, u), u.id \in {k.id, 0}
      PROVE  HistoryInv'
  <2>1. AttemptInv(u)
    BY <1>1, <1>6, StaysAttempt DEF HistoryInv
  <2>2. QED BY <1>1, <1>3, <1>4, <1>6, <2>1, AttemptMove DEF IInv
<1>7. CASE Finish(t)
  BY <1>3, <1>7, StoreUntouched, FinishAttempt DEF IInv
<1>8. CASE GetCached(t)
  BY <1>1, <1>5, <1>6, <1>8 DEF GetCached, Return, Goto
<1>9. CASE GetStored(t)
  BY <1>1, <1>5, <1>6, <1>7, <1>9 DEF GetStored, Return
<1>10. CASE Backfill(t)
  BY <1>1, <1>5, <1>6, <1>10 DEF Backfill, Goto
<1>11. QED BY <1>8, <1>9, <1>10 DEF ReadStep

LEMMA TransitionPutKeepsHistory ==
  ASSUME IInv, HistoryInv, NEW t \in Slots, TransitionPut(t)
  PROVE  HistoryInv'
<1>1. PICK k \in Task : k = task[t] /\ TaskInv(k) /\ AttemptInv(k)
  BY Before DEF HistoryInv
<1>2. k.pc = "transition" /\ k.p \in Proposals /\ k.target \in States
  BY <1>1 DEF TransitionPut, At, TaskInv, TaskShape, Placed, Removals, Where, Reading, Creating, Moving,
     Executing, Task
<1>3. UNCHANGED <<graph, started>>
  BY DEF TransitionPut
<1>4. CASE /\ Store(k.p, MovedPacket(t))
           /\ Becomes(t, [task[t] EXCEPT !.pc = "cacheState", !.pkt = MovedPacket(t)])
  <2>1. PICK u : u = [k EXCEPT !.pc = "cacheState", !.pkt = MovedPacket(t)] /\ Becomes(t, u)
    BY <1>1, <1>4
  <2>2. /\ u.op = k.op /\ u.id = k.id /\ u.n = k.n /\ u.p = k.p /\ u.target = k.target
        /\ u.outcome = k.outcome /\ u.pc = "cacheState"
    BY <2>1 DEF Task
  <2>3. AttemptInv(u)
    BY <1>1, <1>2, <2>2, StaysAttempt DEF Stays, Where, Reading, Moving
  <2>4. ASSUME NEW p \in Proposals, StateOf(s3[p])' = "executed"
        PROVE  \E r \in audit' : r.p = p /\ r.outcome = "applied"
    <3>1. CASE p = k.p
      <4>1. s3'[p] = [state |-> k.target, version |-> k.pkt.version]
        BY <1>1, <1>4, <3>1, IInvParts DEF Store, MovedPacket, StorePart, StoreTypeOK
      <4>2. s3'[p] = None \/ s3'[p].state = k.target
        BY <4>1
      <4>3. k.target = "executed"
        BY <2>4, <4>2 DEF StateOf
      <4>4. QED BY <1>1, <1>2, <1>3, <3>1, <4>3 DEF AttemptInv, Marking, Where, Reading, Moving, graph
    <3>2. CASE p # k.p
      <4>1. s3'[p] = s3[p]
        BY <1>4, <3>2, IInvParts DEF Store, StorePart, StoreTypeOK
      <4>2. QED BY <1>3, <2>4, <4>1 DEF HistoryInv, ExecutedIsRecorded, StateOf, graph
    <3>3. QED BY <3>1, <3>2
  <2>5. ExecutedIsRecorded'
    BY <2>4 DEF ExecutedIsRecorded
  <2>6. QED BY <1>1, <1>3, <2>1, <2>2, <2>3, <2>5, AttemptMove DEF IInv
<1>5. CASE UNCHANGED <<s3, durable>> /\ Finish(t)
  BY <1>3, <1>5, StoreUntouched, FinishAttempt DEF IInv
<1>6. QED BY <1>1, <1>4, <1>5 DEF TransitionPut, PutFailureRaised

LEMMA TransitionCacheKeepsHistory ==
  ASSUME IInv, HistoryInv, NEW t \in Slots, TransitionCache(t)
  PROVE  HistoryInv'
<1>1. PICK k \in Task : k = task[t] /\ TaskInv(k)
  BY Before
<1>2. k.pc = "cacheState" /\ UNCHANGED <<graph, started, s3>>
  BY <1>1 DEF TransitionCache, At
<1>3. CASE Finish(t)
  BY <1>2, <1>3, StoreUntouched, FinishAttempt DEF IInv
<1>4. CASE k.target # "executed" /\ ~Finish(t)
  <2>1. Early(k)
    BY <1>2, <1>4 DEF Early, Marking, Where, Reading
  <2>2. CASE Goto(t, "record") \/ Goto(t, "exclRead")
    BY <1>1, <1>2, <2>1, <2>2, GoesEarly, StoreUntouched, EarlyStepKeeps DEF EarlyStep, IInv
  <2>3. CASE Fetch(t, "exclRead")
    <3>1. PICK u : u = [k EXCEPT !.pc = "get", !.resume = "exclRead"] /\ Becomes(t, u)
      BY <1>1, <2>3 DEF Fetch
    <3>2. u.op = k.op /\ u.id = k.id /\ u.n = k.n /\ u.p = k.p /\ u.pc = "get" /\ u.resume = "exclRead"
      BY <3>1 DEF Task
    <3>3. GoesOn(k, u)
      BY <3>2 DEF GoesOn, Early, Marking, Where, Reading, Moving
    <3>4. QED BY <1>1, <1>2, <2>1, <3>1, <3>3, StoreUntouched, EarlyStepKeeps DEF EarlyStep, IInv
  <2>4. QED BY <1>1, <1>4, <2>2, <2>3 DEF TransitionCache, AfterTransition
<1>5. QED BY <1>1, <1>3, <1>4 DEF TransitionCache, AfterTransition

LEMMA TransitionKeepsHistory ==
  ASSUME IInv, HistoryInv, NEW t \in Slots, TransitionStep(t)
  PROVE  HistoryInv'
<1>1. CASE TransitionRefused(t)
  BY <1>1, StoreUntouched, FinishAttempt DEF TransitionRefused, store, IInv
<1>2. QED
  BY <1>1, TransitionPutKeepsHistory, TransitionCacheKeepsHistory DEF TransitionStep

(***************************************************************************)
(* The attempt.                                                            *)
(***************************************************************************)
\* No other handler works under the id of a request.
LEMMA OtherIds ==
  ASSUME HistoryInv, NEW s \in Slots, NEW t \in Slots, s # t, task[t].id # 0
  PROVE  task[s].id # task[t].id
BY DEF HistoryInv, OwnIds

\* Before the first step: the attempt has committed nothing.
LEMMA ValidationKeepsHistory ==
  ASSUME IInv, HistoryInv, NEW t \in Slots,
         \/ ExecuteRefused(t) \/ ExecuteBuild(t) \/ CheckApproval(t)
         \/ CheckState(t) \/ CheckSchema(t)
  PROVE  HistoryInv'
<1>1. PICK k \in Task : k = task[t] /\ TaskInv(k) /\ AttemptInv(k)
  BY Before DEF HistoryInv
<1>2. k.pc \in {"execute", "approval", "validate", "schema"}
  BY <1>1 DEF ExecuteRefused, ExecuteBuild, CheckApproval, CheckState, CheckSchema, At
<1>3. Early(k) /\ k.op # "none"
  BY <1>1, <1>2 DEF Early, Marking, Where, Reading, Moving, TaskInv, TaskShape, Placed
<1>4. k.n = 0 /\ (\A w \in writes : w.id # k.id) /\ (\A r \in audit : r.id # k.id)
  BY <1>1, <1>3, EarlyAttempt DEF IInv
<1>5. UNCHANGED <<graph, started, s3>>
  BY DEF ExecuteRefused, ExecuteBuild, CheckApproval, CheckState, CheckSchema, store
<1>6. ExecutedIsRecorded'
  BY <1>5, StoreUntouched, RecordsKept DEF graph
<1>7. CASE Finish(t)
  BY <1>5, <1>7, StoreUntouched, FinishAttempt DEF IInv
<1>8. ASSUME NEW u, Becomes(t, u), u.op = k.op, u.id = k.id, u.n = k.n, u.p = k.p, Early(u),
             u.pc # "token"
      PROVE  HistoryInv'
  BY <1>1, <1>3, <1>5, <1>8, StoreUntouched, EarlyMove DEF GoesOn, IInv
<1>9. ASSUME NEW out \in {"rejected", "applied"}, Conclude(t, out), out = "applied" => DryRun
      PROVE  HistoryInv'
  <2>1. PICK u : u = [k EXCEPT !.pc = "audit", !.outcome = out] /\ Becomes(t, u)
    BY <1>1, <1>9 DEF Conclude
  <2>2. /\ u.op = k.op /\ u.id = k.id /\ u.n = k.n /\ u.p = k.p /\ u.pc = "audit"
        /\ u.outcome = out
    BY <2>1 DEF Task
  <2>3. Where(u) = "audit" /\ ~Marking(u)
    BY <2>2 DEF Where, Reading, Marking, Moving
  <2>4. Accounted(u.outcome, u.n)
    BY <1>4, <1>9, <2>2 DEF Accounted, Whole
  <2>5. AttemptInv(u)
    BY <1>1, <1>4, <2>2, <2>3, <2>4 DEF AttemptInv, Committed
  <2>6. QED BY <1>1, <1>5, <1>6, <2>1, <2>2, <2>5, AttemptMove DEF IInv
<1>10. CASE ExecuteRefused(t)
  BY <1>7, <1>10 DEF ExecuteRefused
<1>11. CASE ExecuteBuild(t)
  <2>1. PICK u : u = [k EXCEPT !.pc = "approval", !.version = k.pkt.version] /\ Becomes(t, u)
    BY <1>1, <1>11 DEF ExecuteBuild
  <2>2. u.op = k.op /\ u.id = k.id /\ u.n = k.n /\ u.p = k.p /\ u.pc = "approval"
    BY <2>1 DEF Task
  <2>3. QED BY <1>8, <2>1, <2>2 DEF Early, Marking, Where, Reading, Moving
<1>12. CASE CheckApproval(t)
  <2>1. CASE Fetch(t, "validate")
    <3>1. PICK u : u = [k EXCEPT !.pc = "get", !.resume = "validate"] /\ Becomes(t, u)
      BY <1>1, <2>1 DEF Fetch
    <3>2. u.op = k.op /\ u.id = k.id /\ u.n = k.n /\ u.p = k.p /\ u.pc = "get" /\ u.resume = "validate"
      BY <3>1 DEF Task
    <3>3. QED BY <1>8, <3>1, <3>2 DEF Early, Marking, Where, Reading, Moving
  <2>2. QED BY <1>9, <1>12, <2>1 DEF CheckApproval
<1>13. ASSUME NEW l \in {"schema", "apply"}, Goto(t, l), l = "apply" => ~DryRun
       PROVE  HistoryInv'
  <2>1. PICK u : u = [k EXCEPT !.pc = l] /\ Becomes(t, u)
    BY <1>1, <1>13 DEF Goto
  <2>2. u.op = k.op /\ u.id = k.id /\ u.n = k.n /\ u.p = k.p /\ u.pc = l
    BY <2>1 DEF Task
  <2>3. Where(u) = l /\ ~Marking(u)
    BY <2>2 DEF Where, Reading, Marking, Moving
  <2>4. AttemptInv(u)
    BY <1>1, <1>4, <1>13, <2>2, <2>3 DEF AttemptInv, Committed
  <2>5. QED BY <1>1, <1>5, <1>6, <2>1, <2>2, <2>4, AttemptMove DEF IInv
<1>14. CASE CheckState(t)
  BY <1>9, <1>13, <1>14 DEF CheckState
<1>15. CASE CheckSchema(t)
  BY <1>9, <1>13, <1>15 DEF CheckSchema
<1>16. QED BY <1>10, <1>11, <1>12, <1>14, <1>15

LEMMA ApplyKeepsHistory ==
  ASSUME IInv, HistoryInv, NEW t \in Slots, ApplyStep(t)
  PROVE  HistoryInv'
<1>1. PICK k \in Task : k = task[t] /\ TaskInv(k) /\ AttemptInv(k)
  BY Before DEF HistoryInv
<1>2. /\ k.pc = "apply" /\ Where(k) = "apply" /\ ~Marking(k) /\ k.op # "none"
      /\ k.id \in Nat /\ k.id # 0 /\ k.p \in Proposals /\ k.n \in Nat /\ k.n < NSteps /\ NSteps \in Nat
  BY <1>1, ConstantsAssumption DEF AttemptInv, ApplyStep, At, Where, Reading, Marking, Moving, TaskInv, TaskShape, Placed,
     Executing, Creating, Removals, Task, OpNames
<1>3. audit' = audit /\ started' = started /\ UNCHANGED s3
  BY DEF ApplyStep, store
<1>4. ExecutedIsRecorded'
  BY <1>3, StoreUntouched, RecordsKept
<1>5. k.id \in 1..started /\ started \in Nat
  BY <1>1, <1>2, ConstantsAssumption DEF AttemptInv, IInv, TypeOK
<1>6. ~DryRun /\ \A r \in audit : r.id # k.id
  BY <1>1, <1>2 DEF AttemptInv
<1>7. CASE Conclude(t, "failed") /\ writes' = writes
  <2>1. PICK u : u = [k EXCEPT !.pc = "audit", !.outcome = "failed"] /\ Becomes(t, u)
    BY <1>1, <1>7 DEF Conclude
  <2>2. /\ u.op = k.op /\ u.id = k.id /\ u.n = k.n /\ u.p = k.p /\ u.pc = "audit"
        /\ u.outcome = "failed"
    BY <2>1 DEF Task
  <2>3. Where(u) = "audit" /\ ~Marking(u)
    BY <2>2 DEF Where, Reading, Marking, Moving
  <2>4. AttemptInv(u)
    BY <1>1, <1>6, <2>2, <2>3 DEF AttemptInv, Accounted
  <2>5. QED BY <1>1, <1>3, <1>4, <1>7, <2>1, <2>2, <2>4, AttemptMove DEF IInv, graph
<1>8. ASSUME NEW w, w = [id |-> k.id, p |-> k.p, step |-> k.n + 1],
             writes' = writes \cup {w},
             NEW l, l = (IF k.n + 1 = NSteps THEN "verify" ELSE "apply"),
             NEW u, u = [k EXCEPT !.n = k.n + 1, !.pc = l], Becomes(t, u)
      PROVE  HistoryInv'
  <2>1. task \in [Slots -> Task] /\ task'[t] = u /\ \A s \in Slots : s # t => task'[s] = task[s]
    BY <1>8 DEF Becomes, IInv, TypeOK
  <2>2. /\ u.op = k.op /\ u.id = k.id /\ u.n = k.n + 1 /\ u.p = k.p /\ u.pc = l
        /\ u.target = k.target
    BY <1>8 DEF Task
  <2>3. w.id = k.id /\ w.p = k.p /\ w.step = k.n + 1
    BY <1>8
  <2>4. Where(u) = l /\ ~Marking(u) /\ (l = "verify" => u.n = NSteps)
    BY <1>8, <2>2 DEF Where, Reading, Marking, Moving
  <2>5. OwnIds'
    BY <1>1, <2>1, <2>2 DEF HistoryInv, OwnIds
  <2>6. ASSUME NEW i, NEW p, NEW n, i # k.id, Committed(i, p, n)
        PROVE  Committed(i, p, n)'
    BY <1>8, <2>3, <2>6 DEF Committed
  <2>7. LogInv'
    BY <1>3, <1>5, <1>6, <1>8, <2>3, <2>6 DEF HistoryInv, LogInv
  <2>8. Committed(u.id, u.p, u.n)'
    <3>1. \A v \in writes' : v.id = u.id => v.p = u.p /\ v.step <= u.n
      <4>1. \A v \in writes : v.step \in Nat
        BY ConstantsAssumption DEF IInv, TypeOK, GraphTypeOK
      <4>2. QED BY <1>1, <1>2, <1>8, <2>2, <2>3, <4>1 DEF AttemptInv, Committed
    <3>2. ASSUME NEW j \in 1..u.n
          PROVE  [id |-> u.id, p |-> u.p, step |-> j] \in writes'
      <4>1. CASE j = k.n + 1
        BY <1>8, <2>2, <4>1
      <4>2. CASE j # k.n + 1
        BY <1>1, <1>2, <1>8, <2>2, <4>2 DEF AttemptInv, Committed
      <4>3. QED BY <4>1, <4>2
    <3>3. QED BY <3>1, <3>2 DEF Committed
  <2>9. AttemptInv(u)'
    BY <1>1, <1>2, <1>3, <1>6, <1>8, <2>2, <2>4, <2>8 DEF AttemptInv, Marking
  <2>10. ASSUME NEW s \in Slots PROVE AttemptInv(task[s])'
    <3>1. CASE s = t
      BY <2>1, <2>9, <3>1 DEF AttemptInv, Marking, Committed, Accounted
    <3>2. CASE s # t
      <4>1. PICK m : m = task[s] /\ m = task'[s] /\ AttemptInv(m)
        BY <2>1, <3>2 DEF HistoryInv
      <4>2. m.id # k.id
        BY <1>1, <1>2, <3>2, <4>1, OtherIds
      <4>3. Committed(m.id, m.p, m.n)'
        BY <2>6, <4>1, <4>2 DEF AttemptInv
      <4>4. QED BY <1>3, <4>1, <4>3 DEF AttemptInv, Marking, Committed
    <3>3. QED BY <3>1, <3>2
  <2>11. QED BY <1>4, <2>5, <2>7, <2>10 DEF HistoryInv
<1>9. QED
  BY <1>1, <1>7, <1>8 DEF ApplyStep

LEMMA VerifyKeepsHistory ==
  ASSUME IInv, HistoryInv, NEW t \in Slots, Verify(t)
  PROVE  HistoryInv'
<1>1. PICK k \in Task : k = task[t] /\ TaskInv(k) /\ AttemptInv(k)
  BY Before DEF HistoryInv
<1>2. k.pc = "verify" /\ Where(k) = "verify" /\ ~Marking(k)
  BY <1>1 DEF Verify, At, Where, Reading, Marking, Moving
<1>3. UNCHANGED <<graph, started, s3>>
  BY DEF Verify, store
<1>4. ExecutedIsRecorded'
  BY <1>3, StoreUntouched, RecordsKept DEF graph
<1>5. ~DryRun /\ k.n = NSteps
  BY <1>1, <1>2 DEF AttemptInv
<1>6. ASSUME NEW out \in {"applied", "failed"}, Conclude(t, out)
      PROVE  HistoryInv'
  <2>1. PICK u : u = [k EXCEPT !.pc = "audit", !.outcome = out] /\ Becomes(t, u)
    BY <1>1, <1>6 DEF Conclude
  <2>2. /\ u.op = k.op /\ u.id = k.id /\ u.n = k.n /\ u.p = k.p /\ u.pc = "audit"
        /\ u.outcome = out
    BY <2>1 DEF Task
  <2>3. Where(u) = "audit" /\ ~Marking(u)
    BY <2>2 DEF Where, Reading, Marking, Moving
  <2>4. Accounted(u.outcome, u.n)
    BY <1>5, <1>6, <2>2 DEF Accounted, Whole
  <2>5. AttemptInv(u)
    BY <1>1, <1>2, <2>2, <2>3, <2>4 DEF AttemptInv
  <2>6. QED BY <1>1, <1>3, <1>4, <2>1, <2>2, <2>5, AttemptMove DEF IInv
<1>7. CASE Finish(t)
  BY <1>3, <1>7, StoreUntouched, FinishAttempt DEF IInv
<1>8. QED BY <1>6, <1>7 DEF Verify

\* The audit record is the attempt's last word, written before the proposal is
\* marked executed.
LEMMA AuditKeepsHistory ==
  ASSUME IInv, HistoryInv, NEW t \in Slots, AppendAudit(t)
  PROVE  HistoryInv'
<1>1. PICK k \in Task : k = task[t] /\ TaskInv(k) /\ AttemptInv(k)
  BY Before DEF HistoryInv
<1>2. /\ k.pc = "audit" /\ Where(k) = "audit" /\ ~Marking(k) /\ k.op # "none"
      /\ k.id \in Nat /\ k.id # 0 /\ k.p \in Proposals
  BY <1>1 DEF AttemptInv, AppendAudit, At, Where, Reading, Marking, Moving, TaskInv, TaskShape, Placed,
     Executing, Creating, Removals, Task, OpNames
<1>3. writes' = writes /\ started' = started /\ UNCHANGED s3
  BY DEF AppendAudit, store
<1>4. audit \subseteq audit'
  BY DEF AppendAudit
<1>5. ExecutedIsRecorded'
  BY <1>3, <1>4, StoreUntouched, RecordsKept
<1>6. k.id \in 1..started /\ started \in Nat
  BY <1>1, <1>2, ConstantsAssumption DEF AttemptInv, IInv, TypeOK
<1>7. CASE audit' = audit /\ Finish(t)
  BY <1>3, <1>7, StoreUntouched, FinishAttempt DEF IInv, graph
<1>8. ASSUME NEW r, r = [id |-> k.id, p |-> k.p, cred |-> k.cred,
                         outcome |-> k.outcome, steps |-> k.n],
             audit' = audit \cup {r}, AfterAudit(t)
      PROVE  HistoryInv'
  <2>1. r.id = k.id /\ r.p = k.p /\ r.cred = k.cred /\ r.outcome = k.outcome /\ r.steps = k.n
    BY <1>8
  <2>2. LogInv'
    <3>1. Committed(r.id, r.p, r.steps) /\ Accounted(r.outcome, r.steps)
      BY <1>1, <1>2, <2>1 DEF AttemptInv
    <3>2. r.outcome # "rejected" => r.cred[1] = r.p
      BY <1>1, <1>2, <2>1 DEF TaskInv, TaskGate, Authorised
    <3>3. \A q \in audit' : q = r \/ q \in audit
      BY <1>8
    <3>4. \A q \in audit' : Committed(q.id, q.p, q.steps)' <=> Committed(q.id, q.p, q.steps)
      BY <1>3 DEF Committed
    <3>5. QED BY <1>3, <1>6, <2>1, <3>1, <3>2, <3>3, <3>4 DEF HistoryInv, LogInv, Committed
  <2>3. ASSUME NEW u, Becomes(t, u), u.id = k.id \/ u.id = 0, AttemptInv(u)'
        PROVE  HistoryInv'
    <3>1. task \in [Slots -> Task] /\ task'[t] = u /\ \A s \in Slots : s # t => task'[s] = task[s]
      BY <2>3 DEF Becomes, IInv, TypeOK
    <3>2. OwnIds'
      BY <1>1, <2>3, <3>1 DEF HistoryInv, OwnIds
    <3>3. ASSUME NEW s \in Slots PROVE AttemptInv(task[s])'
      <4>1. CASE s = t
        BY <2>3, <3>1, <4>1 DEF AttemptInv, Marking, Committed, Accounted
      <4>2. CASE s # t
        <5>1. PICK m : m = task[s] /\ m = task'[s] /\ AttemptInv(m)
          BY <3>1, <4>2 DEF HistoryInv
        <5>2. m.id # k.id
          BY <1>1, <1>2, <4>2, <5>1, OtherIds
        <5>3. QED BY <1>3, <1>8, <2>1, <5>1, <5>2 DEF AttemptInv, Marking, Committed
      <4>3. QED BY <4>1, <4>2
    <3>4. QED BY <1>5, <2>2, <3>2, <3>3 DEF HistoryInv
  <2>4. CASE Finish(t)
    <3>1. AttemptInv(Idle)
      BY IdleAttempt DEF IInv
    <3>2. Idle.id = 0 /\ ~Marking(Idle)
      BY DEF Idle, Marking, Where, Reading, Moving
    <3>3. AttemptInv(Idle)'
      BY <1>3, <1>6, <1>8, <2>1, <3>1, <3>2 DEF AttemptInv, Marking, Committed
    <3>4. QED BY <2>3, <2>4, <3>2, <3>3 DEF Finish
  <2>5. CASE k.outcome = "applied" /\ CallTransition(t, "executed")
    <3>1. PICK u : /\ u = [k EXCEPT !.pc = "get", !.resume = "transition", !.target = "executed"]
                   /\ Becomes(t, u)
      BY <1>1, <2>5 DEF CallTransition
    <3>2. /\ u.op = k.op /\ u.id = k.id /\ u.n = k.n /\ u.p = k.p
          /\ u.pc = "get" /\ u.resume = "transition" /\ u.target = "executed"
      BY <3>1 DEF Task
    <3>3. Where(u) = "transition" /\ Marking(u)
      BY <3>2 DEF Where, Reading, Marking, Moving
    <3>4. r \in audit' /\ r.p = u.p /\ r.outcome = "applied"
      BY <1>8, <2>1, <2>5, <3>2
    <3>5. AttemptInv(u)'
      BY <1>1, <1>3, <3>2, <3>3, <3>4 DEF AttemptInv, Marking, Committed
    <3>6. QED BY <2>3, <3>1, <3>2, <3>5
  <2>6. QED BY <1>1, <1>8, <2>4, <2>5 DEF AfterAudit
<1>9. QED BY <1>1, <1>7, <1>8 DEF AppendAudit, Record

(***************************************************************************)
(* The rest of the run.                                                    *)
(***************************************************************************)
\* A request arrives under an id nothing has used.
LEMMA BeginKeepsHistory ==
  ASSUME IInv, HistoryInv, NEW t \in Slots, Begin(t)
  PROVE  HistoryInv'
<1>1. PICK r \in Requests : \E v : Becomes(t, NewTask(r, started + 1, v))
  BY DEF Begin
<1>2. started' = started + 1 /\ started \in Nat /\ UNCHANGED <<graph, s3>>
  BY ConstantsAssumption DEF Begin, IInv, TypeOK, store
<1>3. PICK u : (\E v : u = NewTask(r, started + 1, v)) /\ Becomes(t, u)
  BY <1>1
<1>4. /\ u.op = r.op /\ u.id = started + 1 /\ u.n = 0
      /\ u.pc = Entry(r.op) /\ u.resume = FirstResume(r.op) /\ u.target = ReviewTarget(r.op)
  BY <1>3 DEF NewTask
<1>5. Where(u) \notin {"apply", "verify", "audit"} /\ ~Marking(u)
  BY <1>4 DEF Where, Reading, Marking, Entry, FirstResume, ReviewTarget
<1>6. task \in [Slots -> Task]
  BY DEF IInv, TypeOK
<1>7. task'[t] = u /\ \A s \in Slots : s # t => task'[s] = task[s]
  BY <1>3, <1>6 DEF Becomes
<1>8. writes' = writes /\ audit' = audit
  BY <1>2 DEF graph
<1>9. \A s \in Slots : task[s].id \in Nat /\ task[s].id <= started
  BY <1>6 DEF HistoryInv, AttemptInv, Task
<1>10. OwnIds'
  BY <1>2, <1>4, <1>7, <1>9 DEF HistoryInv, OwnIds
<1>11. LogInv'
  BY <1>2, <1>8 DEF HistoryInv, LogInv, Committed
<1>12. AttemptInv(u)'
  <2>1. \A w \in writes : w.id # u.id
    BY <1>2, <1>4 DEF HistoryInv, LogInv
  <2>2. \A q \in audit : q.id # u.id
    BY <1>2, <1>4 DEF HistoryInv, LogInv
  <2>3. u.id <= started' /\ u.id > 0
    BY <1>2, <1>4
  <2>4. Committed(u.id, u.p, u.n)'
    BY <1>4, <1>8, <2>1 DEF Committed
  <2>5. ~(u.n > 0)
    BY <1>4
  <2>6. QED BY <1>5, <1>8, <2>2, <2>3, <2>4, <2>5 DEF AttemptInv, Marking
<1>13. ASSUME NEW s \in Slots PROVE AttemptInv(task[s])'
  <2>1. CASE s = t
    BY <1>7, <1>12, <2>1 DEF AttemptInv, Marking, Committed
  <2>2. CASE s # t
    <3>1. PICK m : m = task[s] /\ m = task'[s] /\ AttemptInv(m) /\ m.id <= started /\ m.id \in Nat
      BY <1>7, <1>9, <2>2 DEF HistoryInv
    <3>2. m.id <= started'
      BY <1>2, <3>1
    <3>3. QED BY <1>8, <3>1, <3>2 DEF AttemptInv, Marking, Committed
  <2>3. QED BY <2>1, <2>2
<1>14. ExecutedIsRecorded'
  BY <1>2, <1>8, StoreUntouched, RecordsKept
<1>15. QED BY <1>10, <1>11, <1>13, <1>14 DEF HistoryInv

\* Steps of no slot: nothing an attempt relies on changes.
LEMMA OutsideKeepsHistory ==
  ASSUME HistoryInv, UNCHANGED <<s3, graph, task, started>>
  PROVE  HistoryInv'
<1>1. writes' = writes /\ audit' = audit
  BY DEF graph
<1>2. OwnIds' /\ LogInv'
  BY <1>1 DEF HistoryInv, OwnIds, LogInv, Committed
<1>3. ExecutedIsRecorded'
  BY <1>1, StoreUntouched, RecordsKept
<1>4. ASSUME NEW s \in Slots PROVE AttemptInv(task[s])'
  <2>1. PICK m : m = task[s] /\ m = task'[s] /\ AttemptInv(m)
    BY DEF HistoryInv
  <2>2. QED BY <1>1, <2>1 DEF AttemptInv, Marking, Committed
<1>5. QED BY <1>2, <1>3, <1>4 DEF HistoryInv

\* A crash forgets the attempts in flight; their steps and records remain.
LEMMA CrashKeepsHistory ==
  ASSUME IInv, HistoryInv, Crash
  PROVE  HistoryInv'
<1>1. UNCHANGED <<s3, graph, started>> /\ \A t \in Slots : task'[t] = Idle
  BY DEF Crash, store
<1>2. writes' = writes /\ audit' = audit
  BY <1>1 DEF graph
<1>3. OwnIds' /\ LogInv'
  BY <1>1, <1>2 DEF HistoryInv, OwnIds, LogInv, Committed, Idle
<1>4. ExecutedIsRecorded'
  BY <1>1, <1>2, StoreUntouched, RecordsKept
<1>5. ASSUME NEW s \in Slots PROVE AttemptInv(task[s])'
  <2>1. PICK m : m = Idle /\ m = task'[s] /\ AttemptInv(m)
    BY <1>1, IdleAttempt DEF IInv
  <2>2. QED BY <1>1, <1>2, <2>1 DEF AttemptInv, Marking, Committed
<1>6. QED BY <1>3, <1>4, <1>5 DEF HistoryInv

LEMMA InitHistory == ASSUME Init PROVE HistoryInv
<1>1. writes = {} /\ audit = {} /\ started = 0 /\ \A t \in Slots : task[t] = Idle
  BY DEF Init
<1>2. Where(Idle) = "idle" /\ Idle.n = 0 /\ Idle.id = 0 /\ Idle.op = "none" /\ ~Marking(Idle)
  BY DEF Idle, Where, Reading, Marking, Moving
<1>3. OwnIds /\ LogInv
  BY <1>1, <1>2 DEF OwnIds, LogInv
<1>4. AttemptInv(Idle)
  BY <1>1, <1>2 DEF AttemptInv, Committed
<1>5. ASSUME NEW p \in Proposals PROVE StateOf(s3[p]) # "executed"
  <2>1. s3[p] = None \/ s3[p].state = "pending"
    BY DEF Init
  <2>2. QED BY <2>1 DEF StateOf
<1>6. ExecutedIsRecorded
  BY <1>5 DEF ExecutedIsRecorded
<1>7. QED BY <1>1, <1>3, <1>4, <1>6 DEF HistoryInv

LEMMA NextHistory == ASSUME IInv, HistoryInv, [Next]_vars PROVE HistoryInv'
<1>1. ASSUME NEW t \in Slots, CreateStep(t) \/ GateStep(t) \/ RemovalStep(t) PROVE HistoryInv'
  BY <1>1, CreateEarly, GateEarly, RemovalEarly, EarlyStepKeeps DEF IInv
<1>2. ASSUME NEW t \in Slots, ExecutionStep(t) PROVE HistoryInv'
  BY <1>2, ValidationKeepsHistory, ApplyKeepsHistory, VerifyKeepsHistory, AuditKeepsHistory
     DEF ExecutionStep
<1>3. CASE \E t \in Slots : SlotStep(t)
  BY <1>1, <1>2, <1>3, BeginKeepsHistory, ReadKeepsHistory, TransitionKeepsHistory DEF SlotStep
<1>4. CASE ExpireToken \/ LockSchema
  BY <1>4, OutsideKeepsHistory DEF ExpireToken, LockSchema, store
<1>5. CASE Crash
  BY <1>5, CrashKeepsHistory
<1>6. CASE UNCHANGED vars
  BY <1>6, OutsideKeepsHistory DEF vars, store
<1>7. QED BY <1>3, <1>4, <1>5, <1>6 DEF Next

\* The history invariant holds in every reachable state.
THEOREM HistoryInvariance == Spec => []HistoryInv
<1>1. IInv /\ HistoryInv /\ [Next]_vars => HistoryInv'
  BY NextHistory
<1>2. Init => HistoryInv
  BY InitHistory
<1>3. QED BY Invariance, <1>1, <1>2, PTL DEF Spec

\* The steps of an attempt, as the audit log counts them.
LEMMA CommittedSteps ==
  ASSUME GraphTypeOK, NEW i, NEW p, NEW n \in 0..NSteps, Committed(i, p, n)
  PROVE  {w \in writes : w.id = i} = {[id |-> i, p |-> p, step |-> j] : j \in 1..n}
<1>1. ASSUME NEW w \in writes, w.id = i
      PROVE  \E j \in 1..n : w = [id |-> i, p |-> p, step |-> j]
  <2>1. w \in [id : Nat, p : Proposals, step : 1..NSteps]
    BY <1>1 DEF GraphTypeOK
  <2>2. w.step \in 1..n /\ w.p = p
    BY <1>1, <2>1, ConstantsAssumption DEF Committed
  <2>3. w = [id |-> i, p |-> p, step |-> w.step]
    BY <1>1, <2>1, <2>2
  <2>4. QED BY <2>2, <2>3
<1>2. ASSUME NEW j \in 1..n
      PROVE  [id |-> i, p |-> p, step |-> j] \in {w \in writes : w.id = i}
  BY DEF Committed
<1>3. QED BY <1>1, <1>2

\* Whatever the interleavings, faults and crashes, an audit record says exactly
\* which steps its attempt committed, and an attempt that got past validation
\* presented an approval of its own proposal (execution.py, execute).
THEOREM AuditIsTruthful == Spec => []AuditTruthful
<1>1. TypeOK /\ HistoryInv => AuditTruthful
  <2>1. SUFFICES ASSUME TypeOK, HistoryInv, NEW r \in audit
                 PROVE  /\ {w \in writes : w.id = r.id} =
                              {[id |-> r.id, p |-> r.p, step |-> i] : i \in 1..r.steps}
                        /\ r.outcome = "applied" => r.steps = IF DryRun THEN 0 ELSE NSteps
                        /\ r.outcome = "rejected" => r.steps = 0
                        /\ r.outcome # "rejected" => r.cred[1] = r.p
    BY DEF AuditTruthful
  <2>2. GraphTypeOK /\ r.steps \in 0..NSteps
    BY <2>1 DEF TypeOK, GraphTypeOK
  <2>3. /\ Committed(r.id, r.p, r.steps) /\ Accounted(r.outcome, r.steps)
        /\ r.outcome # "rejected" => r.cred[1] = r.p
    BY <2>1 DEF HistoryInv, LogInv
  <2>4. {w \in writes : w.id = r.id} =
           {[id |-> r.id, p |-> r.p, step |-> i] : i \in 1..r.steps}
    BY <2>2, <2>3, CommittedSteps
  <2>5. QED BY <2>3, <2>4 DEF Accounted, Whole
<1>2. QED BY TypeCorrectness, HistoryInvariance, <1>1, PTL

\* A proposal that S3 holds as executed has an audit record of an applied attempt,
\* and outside DRY_RUN all its steps are in the graph: the router marks it only
\* after Agent-C's record is written, and no crash or lost write comes between.
THEOREM ExecutedIsApplied == Spec => [](~DryRun => ExecutedMeansApplied)
<1>1. HistoryInv => (~DryRun => ExecutedMeansApplied)
  BY DEF HistoryInv, ExecutedIsRecorded, LogInv, Accounted, Whole, Committed, ExecutedMeansApplied
<1>2. QED BY HistoryInvariance, <1>1, PTL

(***************************************************************************)
(* Two phases.                                                             *)
(***************************************************************************)
\* What a slot's step leaves of its request.
Continues(k, u) == u.op = k.op /\ (u.p = k.p \/ k.op \in Removals) /\ u.pc # "token"

\* A step that grants nothing: the tokens and the approvals do not grow, and a
\* request to confirm does not get past its token.
GateShut(t) ==
  /\ Finish(t) \/ \E u : Becomes(t, u) /\ Continues(task[t], u)
  /\ tokens' \subseteq tokens
  /\ approvals' = approvals
  /\ challenged \subseteq challenged'

LEMMA ShutKeepsPhase ==
  ASSUME TypeOK, PhaseInv, NEW t \in Slots, GateShut(t),
         task[t].op = "confirm" /\ task[t].pc = "token" => Finish(t)
  PROVE  PhaseInv'
<1>1. task \in [Slots -> Task]
  BY DEF TypeOK
<1>2. PICK u : Becomes(t, u) /\ (u = Idle \/ Continues(task[t], u))
               /\ (task[t].op = "confirm" /\ task[t].pc = "token" => u = Idle)
  BY DEF GateShut, Finish
<1>3. task'[t] = u /\ \A s \in Slots : s # t => task'[s] = task[s]
  BY <1>1, <1>2 DEF Becomes
<1>4. Idle.op = "none"
  BY DEF Idle
<1>5. u.op # "orphan" /\ (u.op = "confirm" /\ u.pc # "token" => u.p \in challenged)
  BY <1>2, <1>4 DEF PhaseInv, Continues, Removals
<1>6. QED BY <1>3, <1>5 DEF PhaseInv, GateShut

LEMMA Continuing ==
  ASSUME NEW t \in Slots, task[t] \in Task, NEW u, Becomes(t, u),
         u.op = task[t].op, u.p = task[t].p, u.pc # "token"
  PROVE  \E v : Becomes(t, v) /\ Continues(task[t], v)
BY DEF Continues

LEMMA MovesContinue ==
  ASSUME NEW t \in Slots, task[t] \in Task, NEW l,
         \/ Goto(t, l) /\ l # "token"
         \/ Fetch(t, l) \/ CallTransition(t, l) \/ Conclude(t, l)
         \/ Return(t, l) /\ task[t].resume # "token"
  PROVE  \E u : Becomes(t, u) /\ Continues(task[t], u)
<1>1. PICK k \in Task : k = task[t]
  OBVIOUS
<1>2. CASE Goto(t, l) /\ l # "token"
  <2>1. PICK u : u = [k EXCEPT !.pc = l] /\ Becomes(t, u)
    BY <1>1, <1>2 DEF Goto
  <2>2. u.op = k.op /\ u.p = k.p /\ u.pc = l
    BY <2>1 DEF Task
  <2>3. QED BY <1>1, <1>2, <2>1, <2>2, Continuing
<1>3. CASE Fetch(t, l)
  <2>1. PICK u : u = [k EXCEPT !.pc = "get", !.resume = l] /\ Becomes(t, u)
    BY <1>1, <1>3 DEF Fetch
  <2>2. u.op = k.op /\ u.p = k.p /\ u.pc = "get"
    BY <2>1 DEF Task
  <2>3. QED BY <1>1, <2>1, <2>2, Continuing
<1>4. CASE CallTransition(t, l)
  <2>1. PICK u : u = [k EXCEPT !.pc = "get", !.resume = "transition", !.target = l] /\ Becomes(t, u)
    BY <1>1, <1>4 DEF CallTransition
  <2>2. u.op = k.op /\ u.p = k.p /\ u.pc = "get"
    BY <2>1 DEF Task
  <2>3. QED BY <1>1, <2>1, <2>2, Continuing
<1>5. CASE Conclude(t, l)
  <2>1. PICK u : u = [k EXCEPT !.pc = "audit", !.outcome = l] /\ Becomes(t, u)
    BY <1>1, <1>5 DEF Conclude
  <2>2. u.op = k.op /\ u.p = k.p /\ u.pc = "audit"
    BY <2>1 DEF Task
  <2>3. QED BY <1>1, <2>1, <2>2, Continuing
<1>6. CASE Return(t, l) /\ task[t].resume # "token"
  <2>1. PICK u : u = [k EXCEPT !.pc = k.resume, !.pkt = l] /\ Becomes(t, u)
    BY <1>1, <1>6 DEF Return
  <2>2. u.op = k.op /\ u.p = k.p /\ u.pc = k.resume
    BY <2>1 DEF Task
  <2>3. QED BY <1>1, <1>6, <2>1, <2>2, Continuing
<1>7. QED BY <1>2, <1>3, <1>4, <1>5, <1>6

\* Reads, transitions and attempts carry on with their own request.
LEMMA RestContinues ==
  ASSUME IInv, NEW t \in Slots, ReadStep(t) \/ TransitionStep(t) \/ ExecutionStep(t)
  PROVE  /\ Finish(t) \/ \E u : Becomes(t, u) /\ Continues(task[t], u)
         /\ UNCHANGED gate
         /\ task[t].pc # "token"
<1>1. PICK k \in Task : k = task[t] /\ TaskInv(k)
  BY Before
<1>2. UNCHANGED gate /\ task[t].pc # "token"
  BY DEF ReadStep, GetCached, GetStored, Backfill, TransitionStep, TransitionRefused, TransitionPut,
     TransitionCache, ExecutionStep, ExecuteRefused, ExecuteBuild, CheckApproval, CheckState,
     CheckSchema, ApplyStep, Verify, AppendAudit, At
<1> SUFFICES Finish(t) \/ \E u : Becomes(t, u) /\ Continues(k, u)
  BY <1>1, <1>2
<1>3. CASE ReadStep(t)
  <2>1. k.resume # "token"
    BY <1>1, <1>3, ReadingTask DEF ReadStep, GetCached, GetStored, Backfill, At, Reading, Resumptions
  <2>2. CASE Becomes(t, [task[t] EXCEPT !.pc = "fill", !.pkt = s3[task[t].p]])
    <3>1. PICK u : u = [k EXCEPT !.pc = "fill", !.pkt = s3[k.p]] /\ Becomes(t, u)
      BY <1>1, <2>2
    <3>2. u.op = k.op /\ u.p = k.p /\ u.pc = "fill"
      BY <3>1 DEF Task
    <3>3. QED BY <1>1, <3>1, <3>2, Continuing
  <2>3. CASE GetCached(t) \/ Backfill(t)
    BY <1>1, <2>1, <2>3, MovesContinue DEF GetCached, Backfill
  <2>4. CASE GetStored(t)
    BY <1>1, <2>1, <2>2, <2>4, MovesContinue DEF GetStored
  <2>5. QED BY <1>3, <2>3, <2>4 DEF ReadStep
<1>4. CASE TransitionStep(t)
  <2>1. CASE TransitionRefused(t)
    BY <2>1 DEF TransitionRefused
  <2>2. CASE Becomes(t, [task[t] EXCEPT !.pc = "cacheState", !.pkt = MovedPacket(t)])
    <3>1. PICK u : u = [k EXCEPT !.pc = "cacheState", !.pkt = MovedPacket(t)] /\ Becomes(t, u)
      BY <1>1, <2>2
    <3>2. u.op = k.op /\ u.p = k.p /\ u.pc = "cacheState"
      BY <3>1 DEF Task
    <3>3. QED BY <1>1, <3>1, <3>2, Continuing
  <2>3. CASE TransitionCache(t)
    BY <1>1, <2>3, MovesContinue DEF TransitionCache, AfterTransition
  <2>4. QED BY <1>4, <2>1, <2>2, <2>3 DEF TransitionStep, TransitionPut, PutFailureRaised
<1>5. CASE ExecutionStep(t)
  <2>1. CASE ExecuteRefused(t) \/ CheckApproval(t) \/ CheckState(t) \/ CheckSchema(t) \/ Verify(t)
    BY <1>1, <2>1, MovesContinue
       DEF ExecuteRefused, CheckApproval, CheckState, CheckSchema, Verify
  <2>2. CASE ExecuteBuild(t)
    <3>1. PICK u : u = [k EXCEPT !.pc = "approval", !.version = k.pkt.version] /\ Becomes(t, u)
      BY <1>1, <2>2 DEF ExecuteBuild
    <3>2. u.op = k.op /\ u.p = k.p /\ u.pc = "approval"
      BY <3>1 DEF Task
    <3>3. QED BY <1>1, <3>1, <3>2, Continuing
  <2>3. CASE ApplyStep(t)
    <3>1. CASE Conclude(t, "failed")
      BY <1>1, <3>1, MovesContinue
    <3>2. CASE ~Conclude(t, "failed")
      <4>1. PICK l : l = IF k.n + 1 = NSteps THEN "verify" ELSE "apply"
        OBVIOUS
      <4>2. PICK u : u = [k EXCEPT !.n = k.n + 1, !.pc = l] /\ Becomes(t, u)
        BY <1>1, <2>3, <3>2, <4>1 DEF ApplyStep
      <4>3. u.op = k.op /\ u.p = k.p /\ u.pc # "token"
        BY <4>1, <4>2 DEF Task
      <4>4. QED BY <1>1, <4>2, <4>3, Continuing
    <3>3. QED BY <3>1, <3>2
  <2>4. CASE AppendAudit(t)
    BY <1>1, <2>4, MovesContinue DEF AppendAudit, AfterAudit
  <2>5. QED BY <1>5, <2>1, <2>2, <2>3, <2>4 DEF ExecutionStep
<1>6. QED BY <1>3, <1>4, <1>5

\* Creating and removing grant nothing either.
LEMMA OtherStepsKeepPhase ==
  ASSUME IInv, PhaseInv, NEW t \in Slots,
         \/ ReadStep(t) \/ TransitionStep(t) \/ ExecutionStep(t)
         \/ CreateStep(t) \/ RemovalStep(t)
  PROVE  PhaseInv'
<1>1. CASE ReadStep(t) \/ TransitionStep(t) \/ ExecutionStep(t)
  BY <1>1, RestContinues, ShutKeepsPhase DEF GateShut, gate, IInv
<1>2. CASE CreateStep(t) \/ RemovalStep(t)
  <2>1. UNCHANGED gate /\ task[t].pc # "token"
    BY <1>2 DEF CreateStep, CreateExisting, CreatePut, CreateCache, IndexRead, IndexPut, RemovalStep,
       ClearExcluded, ListIndex, ArchiveCopy, DeleteStored, EvictCached, Manifest, RebuildIndex,
       ArchiveRead, ClearNext, At
  <2>2. EarlyStep(t)
    BY <1>2, CreateEarly, RemovalEarly
  <2>3. QED BY <2>1, <2>2, ShutKeepsPhase DEF GateShut, EarlyStep, GoesOn, Continues, gate, IInv
<1>3. QED BY <1>1, <1>2

LEMMA GateKeepsPhase ==
  ASSUME IInv, PhaseInv, NEW t \in Slots, GateStep(t)
  PROVE  PhaseInv'
<1>1. PICK k \in Task : k = task[t] /\ TaskInv(k)
  BY Before
<1>2. Finish(t) \/ \E u : Becomes(t, u) /\ Continues(k, u)
  BY <1>1, GateEarly DEF EarlyStep, GoesOn, Continues
<1>3. CASE ApproveHighRisk(t)
  <2>1. Key(t)[1] = k.p
    BY <1>1 DEF Key
  <2>2. \A s \in Slots : task'[s] = task[s] \/ task'[s] = Idle
    BY <1>3 DEF ApproveHighRisk, Finish, Becomes, IInv, TypeOK
  <2>3. approvals' = approvals /\ challenged \subseteq challenged'
    BY <1>3 DEF ApproveHighRisk
  <2>4. \A key \in tokens' : key[1] \in challenged'
    BY <1>1, <1>3, <2>1 DEF ApproveHighRisk, PhaseInv
  <2>5. Idle.op = "none"
    BY DEF Idle
  <2>6. QED BY <2>2, <2>3, <2>4, <2>5 DEF PhaseInv
<1>4. CASE RedeemToken(t)
  <2>1. CASE Finish(t)
    BY <1>4, <2>1, ShutKeepsPhase DEF RedeemToken, GateShut, gate, IInv
  <2>2. CASE TokenAccepted(t) /\ ~Finish(t)
    <3>1. k.p \in challenged
      BY <1>1, <2>2 DEF TokenAccepted, PhaseInv
    <3>2. PICK u : Becomes(t, u) /\ Continues(k, u)
      BY <1>2, <2>2
    <3>3. k.op = "confirm"
      BY <1>1, <1>4 DEF RedeemToken, At, TaskInv, TaskShape, Placed, Where, Reading, Moving, Executing,
         Creating, Removals, Task, OpNames
    <3>4. u.op = "confirm" /\ u.p = k.p
      BY <3>2, <3>3 DEF Continues, Removals
    <3>5. task'[t] = u /\ \A s \in Slots : s # t => task'[s] = task[s]
      BY <3>2 DEF Becomes, IInv, TypeOK
    <3>6. QED BY <1>4, <3>1, <3>4, <3>5 DEF RedeemToken, PhaseInv, gate
  <2>3. QED BY <1>4, <2>1, <2>2 DEF RedeemToken
<1>5. CASE RecordApproval(t)
  <2>1. k.op = "approve" \/ (k.op = "confirm" /\ k.p \in challenged)
    <3>1. k.op \in {"approve", "confirm", "orphan"} /\ k.pc = "record"
      BY <1>1, <1>5 DEF RecordApproval, At, TaskInv, TaskShape, Placed, Where, Reading, Moving, Executing,
         Creating, Removals, Task, OpNames
    <3>2. k.op # "orphan" /\ (k.op = "confirm" /\ k.pc # "token" => k.p \in challenged)
      BY <1>1 DEF PhaseInv
    <3>3. QED BY <3>1, <3>2
  <2>2. PICK u : Becomes(t, u) /\ (u = Idle \/ Continues(k, u))
    BY <1>2 DEF Finish
  <2>3. task'[t] = u /\ \A s \in Slots : s # t => task'[s] = task[s]
    BY <2>2 DEF Becomes, IInv, TypeOK
  <2>4. u.op # "orphan" /\ (u.op = "confirm" => u.p \in challenged)
    BY <2>1, <2>2 DEF Idle, Continues, Removals
  <2>5. Key(t)[1] = k.p /\ tokens' = tokens /\ challenged' = challenged
    BY <1>1, <1>5 DEF Key, RecordApproval
  <2>6. \A r \in approvals' : r.confirmed => r.key[1] \in challenged
    <3>1. CASE approvals' = approvals
      BY <3>1 DEF PhaseInv
    <3>2. CASE approvals' = ApprovalsWith(Key(t), k.op # "approve")
      <4>1. PICK n : n = [key |-> Key(t), confirmed |-> k.op # "approve"]
        OBVIOUS
      <4>2. n.key = Key(t) /\ (n.confirmed <=> k.op # "approve")
        BY <4>1, Zenon
      <4>3. approvals' \subseteq approvals \cup {n}
        BY <3>2, <4>1 DEF ApprovalsWith
      <4>4. QED BY <2>1, <2>5, <4>2, <4>3 DEF PhaseInv
    <3>3. QED BY <1>1, <1>5, <3>1, <3>2 DEF RecordApproval
  <2>7. QED BY <2>3, <2>4, <2>5, <2>6 DEF PhaseInv
<1>6. CASE \/ ApproveAgain(t) \/ ApproveRefused(t) \/ ApproveLowRisk(t) \/ DropToken(t)
           \/ RestoreSeen(t) \/ ExcludedRead(t) \/ ExcludedPut(t)
  <2>1. tokens' \subseteq tokens /\ approvals' = approvals /\ challenged' = challenged
    BY <1>6 DEF ApproveAgain, ApproveRefused, ApproveLowRisk, DropToken, RestoreSeen, ExcludedRead,
       ExcludedPut, gate
  <2>2. task[t].pc # "token"
    BY <1>6 DEF ApproveAgain, ApproveRefused, ApproveLowRisk, DropToken, RestoreSeen, ExcludedRead,
       ExcludedPut, At
  <2>3. QED BY <1>1, <1>2, <2>1, <2>2, ShutKeepsPhase DEF GateShut, IInv
<1>7. QED BY <1>3, <1>4, <1>5, <1>6 DEF GateStep

LEMMA BeginKeepsPhase ==
  ASSUME IInv, PhaseInv, "orphan" \notin Ops, NEW t \in Slots, Begin(t)
  PROVE  PhaseInv'
<1>1. PICK r \in Requests : r.op \in Ops /\ \E v : Becomes(t, NewTask(r, started + 1, v))
  BY DEF Begin
<1>2. PICK u : (\E v : u = NewTask(r, started + 1, v)) /\ Becomes(t, u)
  BY <1>1
<1>3. u.op = r.op /\ u.pc = Entry(r.op)
  BY <1>2 DEF NewTask
<1>4. u.op # "orphan" /\ (u.op = "confirm" => u.pc = "token")
  BY <1>1, <1>3 DEF Entry
<1>5. task'[t] = u /\ \A s \in Slots : s # t => task'[s] = task[s]
  BY <1>2 DEF Becomes, IInv, TypeOK
<1>6. UNCHANGED <<approvals, tokens, challenged>>
  BY DEF Begin, gate
<1>7. QED BY <1>4, <1>5, <1>6 DEF PhaseInv

LEMMA NextPhase ==
  ASSUME IInv, PhaseInv, "orphan" \notin Ops, [Next]_vars
  PROVE  PhaseInv'
<1>1. CASE \E t \in Slots : SlotStep(t)
  BY <1>1, BeginKeepsPhase, GateKeepsPhase, OtherStepsKeepPhase DEF SlotStep
<1>2. CASE ExpireToken
  BY <1>2 DEF ExpireToken, PhaseInv
<1>3. CASE LockSchema \/ UNCHANGED vars
  BY <1>3 DEF LockSchema, PhaseInv, gate, vars
<1>4. CASE Crash
  BY <1>4 DEF Crash, PhaseInv, gate, Idle
<1>5. QED BY <1>1, <1>2, <1>3, <1>4 DEF Next

\* Unless orphaned entities are deleted in bulk, which approves and confirms by
\* itself, a merge or delete reaches the graph only after a confirmation token was
\* stored for that very proposal, whoever presents it and whatever fails
\* (service.py, request_approval and confirm).
THEOREM PhaseOneFirst == Spec => []("orphan" \notin Ops => TwoPhase)
<1>1. Init /\ "orphan" \notin Ops => PhaseInv
  BY DEF Init, PhaseInv, Idle
<1>2. IInv /\ ("orphan" \notin Ops => PhaseInv) /\ [Next]_vars
        => ("orphan" \notin Ops => PhaseInv)'
  BY NextPhase
<1>3. IInv /\ PhaseInv => TwoPhase
  BY DEF IInv, PhaseInv, TwoPhase, MutationAuthorised
<1>4. Init => ("orphan" \notin Ops => PhaseInv)
  BY <1>1
<1>5. IInv /\ ("orphan" \notin Ops => PhaseInv) => ("orphan" \notin Ops => TwoPhase)
  BY <1>3
<1>6. QED BY Invariance, <1>2, <1>4, <1>5, PTL DEF Spec

(***************************************************************************)
(* When no call is lost.  With requests that cross, every committed step is *)
(* accounted for and what is approved can be executed.  With requests that  *)
(* come one after the other, the stores agree between them, and what S3 and *)
(* the graph go through is a behaviour of ProposalLifecycle.                *)
(***************************************************************************)

LEMMA NothingFails == ASSUME IInv, MaxFaults = 0 PROVE ~Fails
BY DEF IInv, TypeOK, Fails

LEMMA Faultless == ASSUME IInv, Serial PROVE ~Fails
BY NothingFails DEF Serial

(***************************************************************************)
(* Requests that cross.  A handler that reads stays where it is in its     *)
(* request, and what it returns with was in S3.                            *)
(***************************************************************************)
LEMMA ReadMoves ==
  ASSUME IInv, MaxFaults = 0, NEW t \in Slots, ReadStep(t)
  PROVE  \E u : /\ Becomes(t, u) /\ Stays(task[t], u)
                /\ u.pc \in {task[t].resume, "getS3", "fill"}
                /\ u.pc = "approve" /\ u.pkt # None => Held(u.p, u.pkt)
<1>1. PICK k \in Task : k = task[t] /\ TaskInv(k)
  BY Before
<1>2. k.pc \in Reading /\ k.resume \in Resumptions /\ k.p \in Proposals
  BY <1>1, ReadingTask DEF ReadStep, GetCached, GetStored, Backfill, At, Reading
<1>3. ASSUME NEW u, NEW pkt, pkt # None => Held(k.p, pkt),
             \/ u = [k EXCEPT !.pc = k.resume, !.pkt = pkt]
             \/ u = [k EXCEPT !.pc = k.resume] /\ k.pkt = pkt
             \/ u = [k EXCEPT !.pc = "getS3"]
             \/ u = [k EXCEPT !.pc = "fill", !.pkt = pkt]
      PROVE  /\ Stays(k, u) /\ u.pc \in {k.resume, "getS3", "fill"}
             /\ u.pc = "approve" /\ u.pkt # None => Held(u.p, u.pkt)
  <2>1. /\ u.op = k.op /\ u.id = k.id /\ u.n = k.n /\ u.p = k.p
        /\ u.target = k.target /\ u.outcome = k.outcome /\ u.resume = k.resume
        /\ u.pc \in {k.resume, "getS3", "fill"}
        /\ u.pc # "getS3" => u.pkt = pkt
    BY <1>3 DEF Task
  <2>2. Where(u) = Where(k)
    BY <1>2, <2>1 DEF Where, Reading, Resumptions
  <2>3. QED BY <1>3, <2>1, <2>2 DEF Stays
<1>4. CASE GetCached(t)
  <2>1. redis[k.p] # None => Held(k.p, redis[k.p])
    BY <1>2 DEF IInv, CacheNeverAhead, Held
  <2>2. CASE Return(t, redis[k.p])
    <3>1. PICK u : u = [k EXCEPT !.pc = k.resume, !.pkt = redis[k.p]] /\ Becomes(t, u)
      BY <1>1, <2>2 DEF Return
    <3>2. QED BY <1>1, <1>3, <2>1, <3>1
  <2>3. CASE Goto(t, "getS3")
    <3>1. PICK u : u = [k EXCEPT !.pc = "getS3"] /\ Becomes(t, u)
      BY <1>1, <2>3 DEF Goto
    <3>2. QED BY <1>1, <1>3, <3>1
  <2>4. QED BY <1>1, <1>4, <2>2, <2>3 DEF GetCached
<1>5. CASE GetStored(t)
  <2>1. s3[k.p] # None => Held(k.p, s3[k.p])
    BY <1>2 DEF IInv, StoreInv
  <2>2. CASE s3[k.p] = None /\ Return(t, None)
    <3>1. PICK u : u = [k EXCEPT !.pc = k.resume, !.pkt = None] /\ Becomes(t, u)
      BY <1>1, <2>2 DEF Return
    <3>2. QED BY <1>1, <1>3, <3>1
  <2>3. CASE Becomes(t, [task[t] EXCEPT !.pc = "fill", !.pkt = s3[task[t].p]])
    <3>1. PICK u : u = [k EXCEPT !.pc = "fill", !.pkt = s3[k.p]] /\ Becomes(t, u)
      BY <1>1, <2>3
    <3>2. QED BY <1>1, <1>3, <2>1, <3>1
  <2>4. QED BY <1>1, <1>5, <2>2, <2>3, NothingFails DEF GetStored
<1>6. CASE Backfill(t)
  <2>1. k.pc = "fill" /\ Held(k.p, k.pkt)
    BY <1>1, <1>6 DEF Backfill, At, TaskInv, TaskStore
  <2>2. PICK u : u = [k EXCEPT !.pc = k.resume] /\ Becomes(t, u)
    BY <1>1, <1>6 DEF Backfill, Goto
  <2>3. QED BY <1>1, <1>3, <2>1, <2>2
<1>7. QED BY <1>4, <1>5, <1>6 DEF ReadStep

(***************************************************************************)
(* Accounting for the writes.                                              *)
(***************************************************************************)
LEMMA AccountMove ==
  ASSUME TypeOK, HistoryInv, AccountInv, NEW t \in Slots, NEW u, Becomes(t, u),
         audit \subseteq audit',
         \A w \in writes' : w \in writes \/ w.id = u.id,
         u.id = task[t].id \/ Early(task[t]) \/ \E r \in audit' : r.id = task[t].id,
         Marking(u) => \E r \in audit' : r.id = u.id
  PROVE  AccountInv'
<1>1. task'[t] = u /\ \A s \in Slots : s # t => task'[s] = task[s]
  BY DEF Becomes, TypeOK
<1>2. ASSUME NEW w \in writes'
      PROVE  (\E s \in Slots : task'[s].id = w.id) \/ \E r \in audit' : r.id = w.id
  <2>1. CASE w.id = u.id
    BY <1>1, <2>1
  <2>2. CASE w \in writes /\ \E r \in audit : r.id = w.id
    BY <2>2
  <2>3. CASE w \in writes /\ \E s \in Slots : task[s].id = w.id
    <3>1. PICK s \in Slots : task[s].id = w.id
      BY <2>3
    <3>2. CASE s # t
      BY <1>1, <3>1, <3>2
    <3>3. CASE s = t
      BY <2>1, <2>3, <3>1, <3>3, EarlyAttempt
    <3>4. QED BY <3>2, <3>3
  <2>4. QED BY <1>2, <2>1, <2>2, <2>3 DEF AccountInv, EveryWriteAccounted
<1>3. ASSUME NEW s \in Slots, Marking(task[s])' PROVE \E r \in audit' : r.id = task'[s].id
  <2>1. PICK m : m = task'[s] /\ Marking(m)
    BY <1>3 DEF Marking, Where
  <2>2. CASE s = t
    BY <1>1, <2>1, <2>2
  <2>3. CASE s # t
    BY <1>1, <2>1, <2>3 DEF AccountInv
  <2>4. QED BY <2>2, <2>3
<1>4. QED BY <1>2, <1>3 DEF AccountInv, EveryWriteAccounted

LEMMA FinishAccount ==
  ASSUME TypeOK, HistoryInv, AccountInv, NEW t \in Slots, Finish(t), audit \subseteq audit',
         writes' = writes, Early(task[t]) \/ Marking(task[t]) \/ \E r \in audit' : r.id = task[t].id
  PROVE  AccountInv'
<1>1. ~Marking(Idle)
  BY DEF Idle, Marking, Where, Reading, Moving
<1>2. QED BY <1>1, AccountMove DEF Finish, AccountInv

LEMMA StaysAccount ==
  ASSUME TypeOK, HistoryInv, AccountInv, NEW t \in Slots, NEW u, Becomes(t, u), Stays(task[t], u),
         UNCHANGED graph
  PROVE  AccountInv'
<1>1. u.id = task[t].id /\ (Marking(u) => Marking(task[t]))
  BY DEF Stays, Marking, Moving
<1>2. QED BY <1>1, AccountMove DEF AccountInv, graph

LEMMA EarlyAccount ==
  ASSUME TypeOK, HistoryInv, AccountInv, NEW t \in Slots, EarlyStep(t)
  PROVE  AccountInv'
<1>1. writes' = writes /\ audit' = audit
  BY DEF EarlyStep, graph
<1>2. CASE Finish(t)
  BY <1>1, <1>2, FinishAccount DEF EarlyStep
<1>3. CASE ~Finish(t)
  BY <1>1, <1>3, AccountMove DEF EarlyStep, GoesOn, Early
<1>4. QED BY <1>2, <1>3

LEMMA TransitionAccount ==
  ASSUME IInv, HistoryInv, MaxFaults = 0, AccountInv, NEW t \in Slots, TransitionStep(t)
  PROVE  AccountInv'
<1>1. PICK k \in Task : k = task[t] /\ TaskInv(k)
  BY Before
<1>2. k.pc \in Moving /\ UNCHANGED graph
  BY <1>1 DEF TransitionStep, TransitionRefused, TransitionPut, TransitionCache, At, Moving
<1>3. Early(k) \/ Marking(k)
  BY <1>2 DEF Early, Moving, Where, Reading
<1>4. CASE Finish(t)
  BY <1>1, <1>2, <1>3, <1>4, FinishAccount DEF IInv, graph
<1>5. CASE TransitionPut(t)
  <2>1. PICK u : u = [k EXCEPT !.pc = "cacheState", !.pkt = MovedPacket(t)] /\ Becomes(t, u)
    BY <1>1, <1>5, NothingFails DEF TransitionPut
  <2>2. /\ u.op = k.op /\ u.id = k.id /\ u.n = k.n /\ u.p = k.p /\ u.target = k.target
        /\ u.outcome = k.outcome /\ u.pc = "cacheState"
    BY <2>1 DEF Task
  <2>3. Stays(k, u)
    BY <1>2, <2>2 DEF Stays, Where, Reading, Moving
  <2>4. QED BY <1>1, <1>2, <2>1, <2>3, StaysAccount DEF IInv
<1>6. ASSUME NEW l \in {"record", "exclRead"}, Goto(t, l) \/ Fetch(t, l), k.target # "executed"
      PROVE  AccountInv'
  <2>1. PICK u : /\ u = [k EXCEPT !.pc = l] \/ u = [k EXCEPT !.pc = "get", !.resume = l]
                 /\ Becomes(t, u)
    BY <1>1, <1>6 DEF Goto, Fetch
  <2>2. u.id = k.id /\ Where(u) = l
    BY <1>1, <2>1 DEF Task, Where, Reading
  <2>3. ~Marking(u)
    BY <2>2 DEF Marking, Moving
  <2>4. QED BY <1>1, <1>2, <2>1, <2>2, <2>3, AccountMove DEF IInv, graph
<1>7. CASE TransitionCache(t)
  BY <1>1, <1>4, <1>6, <1>7 DEF TransitionCache, AfterTransition
<1>8. QED BY <1>4, <1>5, <1>7 DEF TransitionStep, TransitionRefused

\* An attempt keeps its id until its record is in the log.
LEMMA ExecutionAccount ==
  ASSUME IInv, HistoryInv, MaxFaults = 0, AccountInv, NEW t \in Slots, ExecutionStep(t)
  PROVE  AccountInv'
<1>1. PICK k \in Task : k = task[t] /\ TaskInv(k)
  BY Before
<1>2. ASSUME NEW u, Becomes(t, u), u.id = k.id, Where(u) \in Executing,
             audit' = audit, \A w \in writes' : w \in writes \/ w.id = u.id
      PROVE  AccountInv'
  <2>1. ~Marking(u)
    BY <1>2 DEF Marking, Moving, Executing
  <2>2. QED BY <1>1, <1>2, <2>1, AccountMove DEF IInv
<1>3. ASSUME NEW l \in Executing, NEW out, Goto(t, l) \/ Fetch(t, "validate") \/ Conclude(t, out),
             UNCHANGED graph
      PROVE  AccountInv'
  <2>1. PICK u : /\ \/ u = [k EXCEPT !.pc = l] \/ u = [k EXCEPT !.pc = "get", !.resume = "validate"]
                    \/ u = [k EXCEPT !.pc = "audit", !.outcome = out]
                 /\ Becomes(t, u)
    BY <1>1, <1>3 DEF Goto, Fetch, Conclude
  <2>2. u.id = k.id /\ Where(u) \in {l, "validate", "audit"}
    BY <1>3, <2>1 DEF Task, Where, Reading, Executing
  <2>3. QED BY <1>2, <1>3, <2>1, <2>2 DEF graph, Executing
<1>4. CASE ExecuteRefused(t)
  <2>1. k.pc = "execute" /\ Finish(t) /\ UNCHANGED graph
    BY <1>1, <1>4 DEF ExecuteRefused, At
  <2>2. Early(k)
    BY <2>1 DEF Early, Marking, Where, Reading, Moving
  <2>3. QED BY <1>1, <2>1, <2>2, FinishAccount DEF IInv, graph
<1>5. CASE ExecuteBuild(t)
  <2>1. PICK u : u = [k EXCEPT !.pc = "approval", !.version = k.pkt.version] /\ Becomes(t, u)
    BY <1>1, <1>5 DEF ExecuteBuild
  <2>2. u.id = k.id /\ Where(u) = "approval"
    BY <2>1 DEF Task, Where, Reading
  <2>3. QED BY <1>2, <1>5, <2>1, <2>2 DEF ExecuteBuild, graph, Executing
<1>6. CASE CheckApproval(t)
  BY <1>3, <1>6 DEF CheckApproval, Executing
<1>7. CASE CheckState(t)
  BY <1>3, <1>7 DEF CheckState, Executing
<1>8. CASE CheckSchema(t)
  BY <1>3, <1>8 DEF CheckSchema, Executing
<1>9. CASE ApplyStep(t)
  <2>1. PICK l : l = IF k.n + 1 = NSteps THEN "verify" ELSE "apply"
    OBVIOUS
  <2>2. PICK u : u = [k EXCEPT !.n = k.n + 1, !.pc = l] /\ Becomes(t, u)
    BY <1>1, <1>9, <2>1, NothingFails DEF ApplyStep
  <2>3. u.id = k.id /\ Where(u) \in Executing
    BY <2>1, <2>2 DEF Task, Where, Reading, Executing
  <2>4. PICK new : new = [id |-> k.id, p |-> k.p, step |-> k.n + 1]
    OBVIOUS
  <2>5. new.id = k.id /\ writes' = writes \cup {new} /\ audit' = audit
    BY <1>1, <1>9, <2>4, NothingFails DEF ApplyStep
  <2>6. \A w \in writes' : w \in writes \/ w.id = u.id
    BY <2>3, <2>5
  <2>7. Becomes(t, u)
    BY <2>2
  <2>8. QED BY <1>2, <2>3, <2>5, <2>6, <2>7
<1>10. CASE Verify(t)
  BY <1>3, <1>10, NothingFails DEF Verify, Executing
<1>11. CASE AppendAudit(t)
  <2>1. PICK r : r = Record(t)
    OBVIOUS
  <2>2. r.id = k.id /\ audit' = audit \cup {r} /\ writes' = writes
    BY <1>1, <1>11, <2>1, NothingFails DEF AppendAudit, Record
  <2>3. CASE Finish(t)
    BY <1>1, <2>2, <2>3, FinishAccount DEF IInv
  <2>4. CASE CallTransition(t, "executed")
    <3>1. PICK u : /\ u = [k EXCEPT !.pc = "get", !.resume = "transition", !.target = "executed"]
                   /\ Becomes(t, u)
      BY <1>1, <2>4 DEF CallTransition
    <3>2. u.id = k.id
      BY <3>1 DEF Task
    <3>3. QED BY <1>1, <2>2, <3>1, <3>2, AccountMove DEF IInv
  <2>5. QED BY <1>11, <2>3, <2>4, NothingFails DEF AppendAudit, AfterAudit
<1>12. QED
  BY <1>4, <1>5, <1>6, <1>7, <1>8, <1>9, <1>10, <1>11 DEF ExecutionStep

LEMMA BeginAccount ==
  ASSUME IInv, HistoryInv, AccountInv, NEW t \in Slots, Begin(t)
  PROVE  AccountInv'
<1>1. PICK k \in Task : k = task[t]
  BY Before
<1>2. PICK r \in Requests : \E v : Becomes(t, NewTask(r, started + 1, v))
  BY DEF Begin
<1>3. PICK u : (\E v : u = NewTask(r, started + 1, v)) /\ Becomes(t, u)
  BY <1>2
<1>4. u.pc = Entry(r.op) /\ u.resume = FirstResume(r.op) /\ u.target = ReviewTarget(r.op)
  BY <1>3 DEF NewTask
<1>5. ~Marking(u)
  BY <1>4 DEF Where, Reading, Marking, Entry, FirstResume, ReviewTarget
<1>6. Early(k) /\ UNCHANGED graph
  BY <1>1 DEF Begin, At, Early, Marking, Where, Reading, Moving
<1>7. QED BY <1>1, <1>3, <1>5, <1>6, AccountMove DEF IInv, graph

LEMMA NextAccount ==
  ASSUME IInv, HistoryInv, MaxFaults = 0, AccountInv, [Next]_vars
  PROVE  AccountInv'
<1>1. ASSUME NEW t \in Slots, CreateStep(t) \/ GateStep(t) \/ RemovalStep(t) PROVE AccountInv'
  BY <1>1, CreateEarly, GateEarly, RemovalEarly, EarlyAccount DEF IInv
<1>2. ASSUME NEW t \in Slots, ReadStep(t) PROVE AccountInv'
  <2>1. UNCHANGED graph
    BY <1>2 DEF ReadStep, GetCached, GetStored, Backfill
  <2>2. QED BY <1>2, <2>1, ReadMoves, StaysAccount DEF IInv
<1>3. CASE \E t \in Slots : SlotStep(t)
  BY <1>1, <1>2, <1>3, BeginAccount, TransitionAccount, ExecutionAccount DEF SlotStep
<1>4. CASE ExpireToken \/ LockSchema \/ UNCHANGED vars
  <2>1. task' = task /\ writes' = writes /\ audit' = audit
    BY <1>4 DEF ExpireToken, LockSchema, vars, graph
  <2>2. ASSUME NEW s \in Slots, Marking(task[s])' PROVE \E r \in audit' : r.id = task'[s].id
    <3>1. PICK m : m = task'[s] /\ m = task[s] /\ Marking(m)
      BY <2>1, <2>2 DEF Marking, Where
    <3>2. QED BY <2>1, <3>1 DEF AccountInv
  <2>3. QED BY <2>1, <2>2 DEF AccountInv, EveryWriteAccounted
<1>5. ~Crash
  BY NothingFails DEF Crash
<1>6. QED BY <1>3, <1>4, <1>5 DEF Next

\* When no call is lost, every committed step belongs to an attempt that is still
\* running or that the audit log records, however many requests cross
\* (execution.py, execute: only an error that is not caught leaves no record).
THEOREM WritesAccounted == Spec => [](MaxFaults = 0 => EveryWriteAccounted)
<1>1. Init => AccountInv
  BY DEF Init, AccountInv, EveryWriteAccounted, Idle, Marking, Where, Reading, Moving
<1>2. IInv /\ HistoryInv /\ (MaxFaults = 0 => AccountInv) /\ [Next]_vars
        => (MaxFaults = 0 => AccountInv)'
  BY NextAccount
<1>3. (MaxFaults = 0 => AccountInv) => (MaxFaults = 0 => EveryWriteAccounted)
  BY DEF AccountInv
<1>4. Init => (MaxFaults = 0 => AccountInv)
  BY <1>1
<1>5. QED BY Invariance, HistoryInvariance, <1>2, <1>3, <1>4, PTL DEF Spec

(***************************************************************************)
(* What is approved can be executed.                                       *)
(***************************************************************************)
LEMMA BackedMove ==
  ASSUME TypeOK, BackedInv, NEW t \in Slots, NEW k, k = task[t], NEW u, Becomes(t, u),
         {r.key : r \in approvals} \subseteq {r.key : r \in approvals'},
         durable \subseteq durable',
         Approving(k) => (u.p = k.p /\ Approving(u)) \/ HasRecord(k.p)',
         \A d \in durable' : d \in durable \/ d.pkt.state # "approved" \/ (d.p = u.p /\ Approving(u)),
         \A key \in issued' : key \in issued \/ Backed(key[1]) \/ HasRecord(key[1])',
         u.pc = "approve" /\ u.pkt # None => Held(u.p, u.pkt),
         u.pc = "dropToken" => HasRecord(u.p)'
  PROVE  BackedInv'
<1>1. task'[t] = u /\ \A s \in Slots : s # t => task'[s] = task[s]
  BY DEF Becomes, TypeOK
<1>2. ASSUME NEW p, HasRecord(p) PROVE HasRecord(p)'
  <2>1. PICK r \in approvals : r.key[1] = p
    BY <1>2 DEF HasRecord
  <2>2. PICK q \in approvals' : q.key = r.key
    BY <2>1
  <2>3. QED BY <2>1, <2>2 DEF HasRecord
<1>3. ASSUME NEW p, NEW s \in Slots, NEW m, m = task'[s], m.p = p, Approving(m)
      PROVE  Backed(p)'
  BY <1>3 DEF Backed, Approving
<1>4. ASSUME NEW p, Backed(p) PROVE Backed(p)'
  <2>1. CASE HasRecord(p)
    BY <1>2, <2>1 DEF Backed
  <2>2. CASE \E s \in Slots : task[s].p = p /\ Approving(task[s])
    <3>1. PICK s \in Slots : task[s].p = p /\ Approving(task[s])
      BY <2>2
    <3>2. CASE s # t
      BY <1>1, <1>3, <3>1, <3>2
    <3>3. CASE s = t
      <4>1. k.p = p /\ Approving(k)
        BY <3>1, <3>3
      <4>2. CASE HasRecord(k.p)'
        BY <4>1, <4>2 DEF Backed, HasRecord
      <4>3. CASE u.p = k.p /\ Approving(u)
        BY <1>1, <1>3, <4>1, <4>3
      <4>4. QED BY <4>1, <4>2, <4>3
    <3>4. QED BY <3>2, <3>3
  <2>3. QED BY <1>4, <2>1, <2>2 DEF Backed
<1>5. ASSUME NEW d \in durable', d.pkt.state = "approved" PROVE Backed(d.p)'
  BY <1>1, <1>3, <1>4, <1>5 DEF BackedInv
<1>6. ASSUME NEW key \in issued' PROVE Backed(key[1])'
  <2>1. CASE HasRecord(key[1])'
    BY <2>1 DEF Backed, HasRecord
  <2>2. QED BY <1>4, <1>6, <2>1 DEF BackedInv
<1>7. ASSUME NEW s \in Slots PROVE TaskBacked(task[s])'
  <2>1. PICK m : m = task'[s] /\ (m = u \/ TaskBacked(m))
    BY <1>1 DEF BackedInv
  <2>2. m.pc = "approve" /\ m.pkt # None => Held(m.p, m.pkt)'
    BY <2>1 DEF TaskBacked, Held
  <2>3. m.pc = "dropToken" => HasRecord(m.p)'
    BY <1>2, <2>1 DEF TaskBacked
  <2>4. QED BY <2>1, <2>2, <2>3 DEF TaskBacked, Held, HasRecord
<1>8. QED BY <1>5, <1>6, <1>7 DEF BackedInv

\* The handler goes to a place where it has neither read nor recorded an approval.
Away(u) == u.pc \notin {"approve", "dropToken"}

LEMMA QuietBacked ==
  ASSUME TypeOK, BackedInv, NEW t \in Slots, ~Approving(task[t]), NEW u, Becomes(t, u), Away(u),
         UNCHANGED <<approvals, issued, durable>>
  PROVE  BackedInv'
BY BackedMove DEF Away

LEMMA MovesAway ==
  ASSUME NEW t \in Slots, NEW k \in Task, k = task[t], NEW l,
         \/ Goto(t, l) /\ l \notin {"approve", "dropToken"}
         \/ Fetch(t, l) \/ CallTransition(t, l) \/ Conclude(t, l) \/ Finish(t)
  PROVE  \E u : Becomes(t, u) /\ Away(u)
<1>1. CASE Finish(t)
  BY <1>1 DEF Finish, Idle, Away
<1>2. CASE ~Finish(t)
  <2>1. PICK u : /\ \/ u = [k EXCEPT !.pc = l] /\ l \notin {"approve", "dropToken"}
                    \/ u = [k EXCEPT !.pc = "get", !.resume = l]
                    \/ u = [k EXCEPT !.pc = "get", !.resume = "transition", !.target = l]
                    \/ u = [k EXCEPT !.pc = "audit", !.outcome = l]
                 /\ Becomes(t, u)
    BY <1>2 DEF Goto, Fetch, CallTransition, Conclude
  <2>2. u.pc \notin {"approve", "dropToken"}
    BY <2>1 DEF Task
  <2>3. QED BY <2>1, <2>2 DEF Away
<1>3. QED BY <1>1, <1>2

LEMMA BeginBacked ==
  ASSUME IInv, BackedInv, NEW t \in Slots, Begin(t)
  PROVE  BackedInv'
<1>1. PICK r \in Requests : \E v : Becomes(t, NewTask(r, started + 1, v))
  BY DEF Begin
<1>2. PICK u : (\E v : u = NewTask(r, started + 1, v)) /\ Becomes(t, u)
  BY <1>1
<1>3. Away(u)
  BY <1>2 DEF NewTask, Entry, Away
<1>4. ~Approving(task[t]) /\ UNCHANGED <<approvals, issued, durable>>
  BY DEF Begin, At, Approving, store, gate
<1>5. QED BY <1>2, <1>3, <1>4, QuietBacked DEF IInv

LEMMA ReadBacked ==
  ASSUME IInv, MaxFaults = 0, BackedInv, NEW t \in Slots, ReadStep(t)
  PROVE  BackedInv'
<1>1. PICK k \in Task : k = task[t] /\ TaskInv(k)
  BY Before
<1>2. k.pc \in Reading /\ k.resume \in Resumptions
  BY <1>1, ReadingTask DEF ReadStep, GetCached, GetStored, Backfill, At, Reading
<1>3. ~Approving(k) /\ UNCHANGED <<approvals, issued, durable>>
  BY <1>2 DEF Approving, Reading, ReadStep, GetCached, GetStored, Backfill, store, gate
<1>4. PICK u : /\ Becomes(t, u) /\ u.pc \in {k.resume, "getS3", "fill"}
               /\ u.pc = "approve" /\ u.pkt # None => Held(u.p, u.pkt)
  BY <1>1, ReadMoves
<1>5. u.pc # "dropToken"
  BY <1>2, <1>4 DEF Resumptions
<1>6. QED BY <1>1, <1>3, <1>4, <1>5, BackedMove DEF IInv

LEMMA CreateBacked ==
  ASSUME IInv, MaxFaults = 0, BackedInv, NEW t \in Slots, CreateStep(t)
  PROVE  BackedInv'
<1>1. PICK k \in Task : k = task[t] /\ TaskInv(k)
  BY Before
<1>2. ~Approving(k) /\ approvals' = approvals /\ issued' = issued
  BY <1>1 DEF CreateStep, CreateExisting, CreatePut, CreateCache, IndexRead, IndexPut, At, Approving, gate
<1>3. CASE CreatePut(t)
  <2>1. PICK u : Becomes(t, u) /\ Away(u)
    BY <1>1, <1>3, MovesAway DEF CreatePut, Goto
  <2>2. PICK d : d = [p |-> k.p, pkt |-> NewPacket(t)]
    OBVIOUS
  <2>3. d.pkt.state = "pending"
    BY <2>2 DEF NewPacket
  <2>4. durable' = durable \cup {d}
    BY <1>1, <1>3, <2>2, NothingFails DEF CreatePut, Store
  <2>5. QED BY <1>1, <1>2, <2>1, <2>3, <2>4, BackedMove DEF IInv, Away
<1>4. CASE CreateExisting(t) \/ CreateCache(t) \/ IndexRead(t) \/ IndexPut(t)
  <2>1. durable' = durable
    BY <1>4 DEF CreateExisting, CreateCache, IndexRead, IndexPut, store
  <2>2. \E u : Becomes(t, u) /\ Away(u)
    <3>1. CASE AfterCreate(t) \/ CreateCache(t)
      BY <1>1, <3>1, MovesAway DEF AfterCreate, CreateCache
    <3>2. CASE Becomes(t, [task[t] EXCEPT !.pc = "indexPut", !.set = index])
      <4>1. PICK u : u = [k EXCEPT !.pc = "indexPut", !.set = index] /\ Becomes(t, u)
        BY <1>1, <3>2
      <4>2. u.pc = "indexPut"
        BY <4>1 DEF Task
      <4>3. QED BY <4>1, <4>2 DEF Away
    <3>3. QED BY <1>4, <3>1, <3>2, NothingFails DEF CreateExisting, IndexRead, IndexPut
  <2>3. QED BY <1>1, <1>2, <2>1, <2>2, QuietBacked DEF IInv
<1>5. QED BY <1>3, <1>4 DEF CreateStep

\* A transition to approved leads to the write of the approval record.
LEMMA TransitionBacked ==
  ASSUME IInv, MaxFaults = 0, BackedInv, NEW t \in Slots, TransitionStep(t)
  PROVE  BackedInv'
<1>1. PICK k \in Task : k = task[t] /\ TaskInv(k)
  BY Before
<1>2. approvals' = approvals /\ issued' = issued
  BY DEF TransitionStep, TransitionRefused, TransitionPut, TransitionCache, gate
<1>3. CASE TransitionRefused(t)
  <2>1. ~Approving(k) /\ durable' = durable
    BY <1>1, <1>3 DEF TransitionRefused, At, Approving, store
  <2>2. \E u : Becomes(t, u) /\ Away(u)
    BY <1>1, <1>3, MovesAway DEF TransitionRefused
  <2>3. QED BY <1>1, <1>2, <2>1, <2>2, QuietBacked DEF IInv
<1>4. CASE TransitionPut(t)
  <2>1. PICK u : u = [k EXCEPT !.pc = "cacheState", !.pkt = MovedPacket(t)] /\ Becomes(t, u)
    BY <1>1, <1>4, NothingFails DEF TransitionPut
  <2>2. u.p = k.p /\ u.target = k.target /\ u.pc = "cacheState"
    BY <2>1 DEF Task
  <2>3. PICK d : d = [p |-> k.p, pkt |-> MovedPacket(t)]
    OBVIOUS
  <2>4. d.p = u.p /\ d.pkt.state = u.target
    BY <1>1, <2>2, <2>3 DEF MovedPacket
  <2>5. durable' = durable \cup {d}
    BY <1>1, <1>4, <2>3, NothingFails DEF TransitionPut, Store
  <2>6. ~Approving(k)
    BY <1>1, <1>4 DEF TransitionPut, At, Approving
  <2>7. \A e \in durable' : e \in durable \/ e.pkt.state # "approved" \/ (e.p = u.p /\ Approving(u))
    BY <2>2, <2>4, <2>5 DEF Approving
  <2>8. Becomes(t, u) /\ durable \subseteq durable' /\ u.pc = "cacheState"
    BY <2>1, <2>2, <2>5
  <2>9. QED BY <1>1, <1>2, <2>6, <2>7, <2>8, BackedMove DEF IInv
<1>5. CASE TransitionCache(t)
  <2>1. durable' = durable /\ k.pc = "cacheState"
    BY <1>1, <1>5 DEF TransitionCache, At
  <2>2. CASE Goto(t, "record")
    <3>1. PICK u : u = [k EXCEPT !.pc = "record"] /\ Becomes(t, u)
      BY <1>1, <2>2 DEF Goto
    <3>2. u.p = k.p /\ u.pc = "record"
      BY <3>1 DEF Task
    <3>3. QED BY <1>1, <1>2, <2>1, <3>1, <3>2, BackedMove DEF IInv, Approving
  <2>3. CASE k.target # "approved" /\ ~Goto(t, "record")
    <3>1. ~Approving(k)
      BY <2>1, <2>3 DEF Approving
    <3>2. \E u : Becomes(t, u) /\ Away(u)
      BY <1>1, <1>5, <2>3, MovesAway DEF TransitionCache, AfterTransition
    <3>3. QED BY <1>1, <1>2, <2>1, <3>1, <3>2, QuietBacked DEF IInv
  <2>4. QED BY <1>1, <1>5, <2>2, <2>3 DEF TransitionCache, AfterTransition
<1>6. QED BY <1>3, <1>4, <1>5 DEF TransitionStep

\* The gate hands out an approval id of a proposal that has its record.
LEMMA RecordBacked ==
  ASSUME IInv, MaxFaults = 0, BackedInv, NEW t \in Slots, RecordApproval(t)
  PROVE  BackedInv'
<1>1. PICK k \in Task : k = task[t] /\ TaskInv(k)
  BY Before
<1>2. PICK new : new = [key |-> Key(t), confirmed |-> task[t].op # "approve"]
  OBVIOUS
<1>3. new.key = Key(t) /\ Key(t)[1] = k.p
  BY <1>1, <1>2 DEF Key
<1>4. approvals' = {r \in approvals : r.key # Key(t)} \cup {new} /\ durable' = durable
  BY <1>2, NothingFails DEF RecordApproval, ApprovalsWith, store
<1>5. HasRecord(k.p)'
  BY <1>3, <1>4 DEF HasRecord
<1>6. {r.key : r \in approvals} \subseteq {r.key : r \in approvals'}
  BY <1>3, <1>4
<1>7. issued' \subseteq issued \cup {Key(t)}
  BY DEF RecordApproval
<1>8. ASSUME NEW u, Becomes(t, u), u.pc # "approve", u.p = k.p \/ u.pc # "dropToken" PROVE BackedInv'
  <2>1. u.pc = "dropToken" => HasRecord(u.p)'
    BY <1>5, <1>8 DEF HasRecord
  <2>2. \A key \in issued' : key \in issued \/ Backed(key[1]) \/ HasRecord(key[1])'
    BY <1>3, <1>5, <1>7 DEF HasRecord
  <2>3. QED BY <1>1, <1>4, <1>5, <1>6, <1>8, <2>1, <2>2, BackedMove DEF IInv
<1>9. CASE Finish(t)
  BY <1>8, <1>9 DEF Finish, Idle
<1>10. CASE Goto(t, "dropToken")
  <2>1. PICK u : u = [k EXCEPT !.pc = "dropToken"] /\ Becomes(t, u)
    BY <1>1, <1>10 DEF Goto
  <2>2. u.p = k.p /\ u.pc = "dropToken"
    BY <2>1 DEF Task
  <2>3. QED BY <1>8, <2>1, <2>2
<1>11. CASE Becomes(t, [task[t] EXCEPT !.pc = "approval", !.cred = Key(t)])
  <2>1. PICK u : u = [k EXCEPT !.pc = "approval", !.cred = Key(t)] /\ Becomes(t, u)
    BY <1>1, <1>11
  <2>2. u.p = k.p /\ u.pc = "approval"
    BY <2>1 DEF Task
  <2>3. QED BY <1>8, <2>1, <2>2
<1>12. QED BY <1>9, <1>10, <1>11 DEF RecordApproval

LEMMA GateBacked ==
  ASSUME IInv, MaxFaults = 0, BackedInv, NEW t \in Slots, GateStep(t)
  PROVE  BackedInv'
<1>1. PICK k \in Task : k = task[t] /\ TaskInv(k) /\ TaskBacked(k)
  BY Before DEF BackedInv
<1>2. Key(t)[1] = k.p
  BY <1>1 DEF Key
<1>3. CASE ApproveAgain(t)
  <2>1. k.pc = "approve" /\ StateOf(k.pkt) = "approved"
    BY <1>1, <1>3 DEF ApproveAgain, At
  <2>2. PICK d \in durable : d = [p |-> k.p, pkt |-> k.pkt]
    BY <1>1, <2>1 DEF TaskBacked, Held, StateOf
  <2>3. d.p = k.p /\ d.pkt.state = "approved"
    BY <2>1, <2>2 DEF StateOf
  <2>4. Backed(k.p)
    BY <2>2, <2>3 DEF BackedInv
  <2>5. issued' = issued \cup {Key(t)} /\ approvals' = approvals /\ durable' = durable
    BY <1>3 DEF ApproveAgain, store
  <2>6. PICK u : Becomes(t, u) /\ Away(u)
    BY <1>1, <1>3, MovesAway DEF ApproveAgain
  <2>7. ~Approving(k)
    BY <2>1 DEF Approving
  <2>8. QED BY <1>1, <1>2, <2>4, <2>5, <2>6, <2>7, BackedMove DEF IInv, Away
<1>4. CASE DropToken(t)
  <2>1. k.pc = "dropToken" /\ HasRecord(k.p)
    BY <1>1, <1>4 DEF DropToken, At, TaskBacked
  <2>2. issued' = issued \cup {Key(t)} /\ approvals' = approvals /\ durable' = durable
    BY <1>4 DEF DropToken, store
  <2>3. PICK u : Becomes(t, u) /\ Away(u)
    BY <1>1, <1>4, MovesAway DEF DropToken
  <2>4. ~Approving(k) /\ Backed(k.p)
    BY <2>1 DEF Approving, Backed
  <2>5. QED BY <1>1, <1>2, <2>2, <2>3, <2>4, BackedMove DEF IInv, Away
<1>5. CASE \/ ApproveRefused(t) \/ ApproveHighRisk(t) \/ ApproveLowRisk(t) \/ RedeemToken(t)
           \/ RestoreSeen(t) \/ ExcludedRead(t) \/ ExcludedPut(t)
  <2>1. ~Approving(k) /\ UNCHANGED <<approvals, issued, durable>>
    BY <1>1, <1>5 DEF ApproveRefused, ApproveHighRisk, ApproveLowRisk, RedeemToken, RestoreSeen, ExcludedRead,
       ExcludedPut, At, Approving, store, gate
  <2>2. CASE RestoreSeen(t)
    <3>1. PICK u : /\ u = [k EXCEPT !.pc = "get", !.resume = "transition", !.found = k.pkt # None]
                   /\ Becomes(t, u)
      BY <1>1, <2>2 DEF RestoreSeen
    <3>2. u.pc = "get"
      BY <3>1 DEF Task
    <3>3. QED BY <1>1, <2>1, <3>1, <3>2, QuietBacked DEF IInv, Away
  <2>3. ASSUME NEW ids, Rewrite(t, ids) PROVE BackedInv'
    <3>1. PICK u : u = [k EXCEPT !.pc = "exclPut", !.set = ids] /\ Becomes(t, u)
      BY <1>1, <2>3 DEF Rewrite
    <3>2. u.pc = "exclPut"
      BY <3>1 DEF Task
    <3>3. QED BY <1>1, <2>1, <3>1, <3>2, QuietBacked DEF IInv, Away
  <2>4. CASE Finish(t) \/ CallTransition(t, "approved")
    BY <1>1, <2>1, <2>4, MovesAway, QuietBacked DEF IInv
  <2>5. QED BY <1>5, <2>2, <2>3, <2>4
     DEF ApproveRefused, ApproveHighRisk, ApproveLowRisk, RedeemToken, ExcludedRead, ExcludedPut
<1>6. QED BY <1>3, <1>4, <1>5, RecordBacked DEF GateStep

LEMMA ExecutionBacked ==
  ASSUME IInv, MaxFaults = 0, BackedInv, NEW t \in Slots, ExecutionStep(t)
  PROVE  BackedInv'
<1>1. PICK k \in Task : k = task[t] /\ TaskInv(k)
  BY Before
<1>2. ~Approving(k) /\ UNCHANGED <<approvals, issued, durable>>
  BY <1>1 DEF ExecutionStep, ExecuteRefused, ExecuteBuild, CheckApproval, CheckState, CheckSchema, ApplyStep, Verify,
     AppendAudit, At, Approving, store, gate
<1>3. CASE ExecuteBuild(t)
  <2>1. PICK u : u = [k EXCEPT !.pc = "approval", !.version = k.pkt.version] /\ Becomes(t, u)
    BY <1>1, <1>3 DEF ExecuteBuild
  <2>2. u.pc = "approval"
    BY <2>1 DEF Task
  <2>3. QED BY <1>1, <1>2, <2>1, <2>2, QuietBacked DEF IInv, Away
<1>4. CASE ApplyStep(t)
  <2>1. PICK l : l = IF k.n + 1 = NSteps THEN "verify" ELSE "apply"
    OBVIOUS
  <2>2. PICK u : u = [k EXCEPT !.n = k.n + 1, !.pc = l] /\ Becomes(t, u)
    BY <1>1, <1>4, <2>1, NothingFails DEF ApplyStep
  <2>3. u.pc \in {"verify", "apply"}
    BY <2>1, <2>2 DEF Task
  <2>4. Becomes(t, u) /\ Away(u)
    BY <2>2, <2>3 DEF Away
  <2>5. QED BY <1>1, <1>2, <2>4, QuietBacked DEF IInv
<1>5. CASE ExecuteRefused(t) \/ CheckApproval(t) \/ CheckState(t) \/ CheckSchema(t) \/ Verify(t) \/ AppendAudit(t)
  <2>1. \E u : Becomes(t, u) /\ Away(u)
    BY <1>1, <1>5, MovesAway DEF ExecuteRefused, CheckApproval, CheckState, CheckSchema, Verify, AppendAudit, AfterAudit
  <2>2. QED BY <1>1, <1>2, <2>1, QuietBacked DEF IInv
<1>6. QED BY <1>3, <1>4, <1>5 DEF ExecutionStep

LEMMA RemovalBacked ==
  ASSUME IInv, MaxFaults = 0, BackedInv, NEW t \in Slots, RemovalStep(t)
  PROVE  BackedInv'
<1>1. PICK k \in Task : k = task[t] /\ TaskInv(k)
  BY Before
<1>2. ~Approving(k) /\ UNCHANGED <<approvals, issued, durable>>
  BY <1>1 DEF RemovalStep, ClearExcluded, ListIndex, ArchiveCopy, DeleteStored, EvictCached, Manifest, RebuildIndex,
     ArchiveRead, ClearNext, At, Approving, store, gate
<1>3. ASSUME NEW u, NEW p, NEW set, NEW pkt, NEW kept, Becomes(t, u), k.pc = "next" \/ u.pc # k.pc,
             \/ u = [k EXCEPT !.pc = "next", !.set = set]
             \/ u = [k EXCEPT !.set = set]
             \/ u = [k EXCEPT !.set = set, !.kept = kept]
             \/ u = [k EXCEPT !.pc = "copy", !.p = p, !.pkt = pkt]
             \/ u = [k EXCEPT !.pc = "delete", !.p = p]
             \/ u = [k EXCEPT !.pc = "next", !.p = p, !.pkt = pkt, !.set = set]
      PROVE  BackedInv'
  <2>1. u.pc \in {"next", "copy", "delete"}
    BY <1>3 DEF Task
  <2>2. QED BY <1>1, <1>2, <1>3, <2>1, QuietBacked DEF IInv, Away
<1>4. CASE \/ ClearExcluded(t) \/ ArchiveCopy(t) \/ DeleteStored(t) \/ Manifest(t) \/ RebuildIndex(t)
           \/ Finish(t)
  <2>1. \E u : Becomes(t, u) /\ Away(u)
    BY <1>1, <1>4, MovesAway DEF ClearExcluded, ArchiveCopy, DeleteStored, Manifest, RebuildIndex
  <2>2. QED BY <1>1, <1>2, <2>1, QuietBacked DEF IInv
<1>5. CASE ListIndex(t)
  <2>1. k.pc = "list"
    BY <1>1, <1>5 DEF ListIndex, At
  <2>2. CASE Becomes(t, [task[t] EXCEPT !.pc = "next", !.set = index])
    <3>1. PICK u : u = [k EXCEPT !.pc = "next", !.set = index] /\ Becomes(t, u)
      BY <1>1, <2>2
    <3>2. u.pc = "next"
      BY <3>1 DEF Task
    <3>3. QED BY <1>3, <2>1, <3>1, <3>2
  <2>3. QED BY <1>4, <1>5, <2>2 DEF ListIndex
<1>6. ASSUME NEW p \in Proposals, ArchiveRead(t, p) \/ ClearNext(t, p) PROVE BackedInv'
  <2>1. k.pc = "next"
    BY <1>1, <1>6 DEF ArchiveRead, ClearNext, At
  <2>2. PICK u : /\ Becomes(t, u)
                 /\ \/ u = [k EXCEPT !.set = k.set \ {p}]
                    \/ u = [k EXCEPT !.set = k.set \ {p}, !.kept = k.kept \cup {p}]
                    \/ u = [k EXCEPT !.pc = "copy", !.p = p, !.pkt = s3[p]]
                    \/ u = [k EXCEPT !.pc = "delete", !.p = p]
    BY <1>1, <1>6, NothingFails DEF ArchiveRead, ClearNext
  <2>3. QED BY <1>3, <2>1, <2>2
<1>7. CASE EvictCached(t)
  <2>1. k.pc = "evict"
    BY <1>1, <1>7 DEF EvictCached, At
  <2>2. PICK u : /\ u = [k EXCEPT !.pc = "next", !.p = None, !.pkt = None, !.set = k.set \ {k.p}]
                 /\ Becomes(t, u)
    BY <1>1, <1>7 DEF EvictCached
  <2>3. u.pc = "next"
    BY <2>2 DEF Task
  <2>4. QED BY <1>3, <2>1, <2>2, <2>3
<1>8. QED BY <1>4, <1>5, <1>6, <1>7 DEF RemovalStep

LEMMA NextBacked ==
  ASSUME IInv, MaxFaults = 0, BackedInv, [Next]_vars
  PROVE  BackedInv'
<1>1. CASE \E t \in Slots : SlotStep(t)
  BY <1>1, BeginBacked, ReadBacked, CreateBacked, TransitionBacked, GateBacked, ExecutionBacked, RemovalBacked
     DEF SlotStep
<1>2. CASE ExpireToken \/ LockSchema \/ UNCHANGED vars
  <2>1. UNCHANGED <<task, approvals, issued, durable>>
    BY <1>2 DEF ExpireToken, LockSchema, vars, store, gate
  <2>2. \A p : Backed(p)' <=> Backed(p)
    BY <2>1 DEF Backed, HasRecord, Approving
  <2>3. ASSUME NEW s \in Slots PROVE TaskBacked(task[s])'
    <3>1. PICK m : m = task'[s] /\ TaskBacked(m)
      BY <2>1 DEF BackedInv
    <3>2. QED BY <2>1, <3>1 DEF TaskBacked, Held, HasRecord
  <2>4. QED BY <2>1, <2>2, <2>3 DEF BackedInv
<1>3. ~Crash
  BY NothingFails DEF Crash
<1>4. QED BY <1>1, <1>2, <1>3 DEF Next

\* When no call is lost, a proposal that is approved, or of which a client holds an
\* approval id, has an approval record to execute it with, or the request that
\* approved it is about to write one, however many requests cross (approvals.py:
\* the record is written after the transition, the id is returned last).
THEOREM ApprovedHasRecord == Spec => [](MaxFaults = 0 => ApprovedIsExecutable)
<1>1. ASSUME Init PROVE BackedInv
  <2>1. ASSUME NEW d \in durable PROVE d.pkt.state # "approved"
    <3>1. PICK p \in Preloaded : d = [p |-> p, pkt |-> s3[p]]
      BY <1>1, <2>1 DEF Init
    <3>2. s3[p] = [state |-> "pending", version |-> schema]
      BY <1>1, ConstantsAssumption DEF Init
    <3>3. d.pkt = s3[p]
      BY <3>1
    <3>4. QED BY <3>2, <3>3
  <2>2. issued = {} /\ \A t \in Slots : task[t] = Idle
    BY <1>1 DEF Init
  <2>3. Idle.pc = "idle"
    BY DEF Idle
  <2>4. QED BY <2>1, <2>2, <2>3 DEF BackedInv, TaskBacked
<1>2. IInv /\ (MaxFaults = 0 => BackedInv) /\ [Next]_vars => (MaxFaults = 0 => BackedInv)'
  BY NextBacked
<1>3. ASSUME IInv, BackedInv PROVE ApprovedIsExecutable
  <2>1. ASSUME NEW p \in Proposals, StateOf(s3[p]) = "approved" PROVE Backed(p)
    <3>1. s3[p] # None /\ s3[p].state = "approved"
      BY <2>1 DEF StateOf
    <3>2. PICK d \in durable : d = [p |-> p, pkt |-> s3[p]]
      BY <1>3, <3>1 DEF IInv, StoreInv, Held
    <3>3. d.p = p /\ d.pkt.state = "approved"
      BY <3>1, <3>2
    <3>4. QED BY <1>3, <3>2, <3>3 DEF BackedInv
  <2>2. \A p \in Proposals : Backed(p) =>
           \/ \E r \in approvals : r.key[1] = p
           \/ \E t \in Slots : task[t].p = p /\ task[t].pc \in {"cacheState", "record"}
    BY DEF Backed, HasRecord, Approving
  <2>3. QED BY <1>3, <2>1, <2>2 DEF ApprovedIsExecutable, BackedInv
<1>4. Init => (MaxFaults = 0 => BackedInv)
  BY <1>1
<1>5. IInv /\ (MaxFaults = 0 => BackedInv) => (MaxFaults = 0 => ApprovedIsExecutable)
  BY <1>3
<1>6. QED BY Invariance, <1>2, <1>4, <1>5, PTL DEF Spec

(***************************************************************************)
(* Requests one after the other.  A handler is aside when it makes no      *)
(* exception for the stores, and plain when it makes none for the index    *)
(* either.                                                                 *)
(***************************************************************************)
Aside(k) ==
  /\ k.pc \notin {"cacheState", "evict", "cacheNew", "exclPut"}
  /\ ~Excluding(k) /\ ~Restored(k) /\ ~Busy(k) /\ Where(k) # "schema"
  /\ k.outcome # "failed"

Plain(k) ==
  /\ Aside(k)
  /\ ~Walking(k) /\ k.pc \notin {"indexRead", "indexPut", "unexclude"}
  /\ k.pc = "list" => k.kept = {}
  /\ k.op \notin Clears

StoresRest ==
  /\ \A p \in Proposals : redis[p] \in {None, s3[p]}
  /\ OneEach => \A p \in ExcludedProposals : CandidateOf[p] \in ExcludedIds
  /\ \A w \in writes : StateOf(s3[w.p]) = "executed"
  /\ AppliedOnce

Rests == StoresRest /\ index = Stored

serials == <<s3, redis, index, excluded, writes>>

LEMMA AsideRests ==
  ASSUME NEW k, Aside(k)
  PROVE  SerialAt(k) <=> StoresRest /\ Knows(k) /\ IndexSerial(k)
BY DEF Aside, SerialAt, StoresRest, CacheSerial, ExcludedSerial, AppliedSerial

LEMMA PlainIndex ==
  ASSUME NEW k, Plain(k)
  PROVE  IndexSerial(k) <=> index = Stored
BY DEF Plain, Aside, IndexSerial, Indexing, Walking

LEMMA PlainRests ==
  ASSUME NEW k, Plain(k)
  PROVE  SerialAt(k) <=> Rests /\ Knows(k)
BY AsideRests, PlainIndex DEF Plain, Rests

LEMMA PlainRestsNext ==
  ASSUME NEW k, Plain(k), Rests', Knows(k)'
  PROVE  SerialAt(k)'
BY DEF Plain, Aside, Excluding, Restored, Busy, Where, Reading, Walking, Rests, StoresRest, Stored, SerialAt,
   Knows, CacheSerial, IndexSerial, Indexing, ExcludedSerial, AppliedSerial, ExcludedProposals, ExcludedIds,
   AppliedOnce, StateOf, Clears

LEMMA OneMoves ==
  ASSUME IInv, Serial, NEW t \in Slots, NEW u, Becomes(t, u), SerialAt(u)'
  PROVE  SerialInv'
<1>1. task'[t] = u
  BY DEF Becomes, IInv, TypeOK
<1>2. \A s \in Slots : s = t
  BY DEF Serial
<1>3. ASSUME NEW s \in Slots PROVE SerialAt(task[s])'
  <2>1. PICK m : m = task'[s] /\ SerialAt(m)'
    BY <1>1, <1>2
  <2>2. QED
    BY <2>1 DEF SerialAt, Knows, CacheSerial, IndexSerial, Indexing, ExcludedSerial, AppliedSerial, Excluding,
       Restored, Busy, Where, Walking
<1>4. QED BY <1>3 DEF SerialInv

LEMMA Unmoved ==
  ASSUME NEW k, SerialAt(k), UNCHANGED serials
  PROVE  SerialAt(k)'
BY DEF serials, SerialAt, Knows, CacheSerial, IndexSerial, Indexing, ExcludedSerial, AppliedSerial, Excluding,
   Restored, Busy, Where, Reading, Walking, Stored, ExcludedProposals, ExcludedIds, AppliedOnce, StateOf

LEMMA IdlePlain == Plain(Idle) /\ Knows(Idle) /\ Knows(Idle)'
BY DEF Idle, Plain, Aside, Knows, Excluding, Restored, Busy, Where, Reading, Walking, Clears

\* Steps between two places that make no exception.
LEMMA QuietSerial ==
  ASSUME IInv, Serial, NEW t \in Slots, NEW u, Becomes(t, u), SerialAt(u), UNCHANGED serials
  PROVE  SerialInv'
BY Unmoved, OneMoves

LEMMA FinishSerial ==
  ASSUME IInv, Serial, NEW t \in Slots, Finish(t), Rests, UNCHANGED serials
  PROVE  SerialInv'
BY IdlePlain, PlainRests, QuietSerial DEF Finish

LEMMA FinishRests ==
  ASSUME IInv, Serial, NEW t \in Slots, Finish(t), Rests'
  PROVE  SerialInv'
BY IdlePlain, PlainRestsNext, OneMoves DEF Finish

\* A place a handler reaches before it has read anything.
Blank(u) ==
  /\ Plain(u)
  /\ u.pc \notin {"fill", "create", "approve", "transition", "cacheState", "exclRead",
                  "restore", "execute", "validate", "cacheNew"}

LEMMA BlankKnows == ASSUME NEW u, Blank(u) PROVE Knows(u) /\ Knows(u)' /\ Plain(u)
BY DEF Blank, Knows

LEMMA BlankSerial ==
  ASSUME IInv, Serial, NEW t \in Slots, NEW u, Becomes(t, u), Blank(u), Rests, UNCHANGED serials
  PROVE  SerialInv'
BY BlankKnows, PlainRests, QuietSerial

LEMMA BlankRests ==
  ASSUME IInv, Serial, NEW t \in Slots, NEW u, Becomes(t, u), Blank(u), Rests'
  PROVE  SerialInv'
BY BlankKnows, PlainRestsNext, OneMoves

(***************************************************************************)
(* A request begins; its handler reads.                                    *)
(***************************************************************************)
LEMMA BeginSerial ==
  ASSUME IInv, Serial, SerialInv, NEW t \in Slots, Begin(t)
  PROVE  SerialInv'
<1>1. PICK k \in Task : k = task[t] /\ TaskInv(k) /\ SerialAt(k)
  BY Before DEF SerialInv
<1>2. k.pc = "idle"
  BY <1>1 DEF Begin, At
<1>3. Rests
  <2>1. Plain(k)
    BY <1>1, <1>2 DEF Plain, Aside, Excluding, Restored, Busy, Where, Reading, Walking, SerialAt,
       AppliedSerial, IndexSerial, Indexing
  <2>2. QED BY <1>1, <2>1, PlainRests
<1>4. PICK r \in Requests : r.op \in Ops /\ \E v : Becomes(t, NewTask(r, started + 1, v))
  BY DEF Begin
<1>5. PICK u : (\E v : u = NewTask(r, started + 1, v)) /\ Becomes(t, u)
  BY <1>4
<1>6. /\ u.op = r.op /\ u.pc = Entry(r.op) /\ u.resume = FirstResume(r.op)
      /\ u.target = ReviewTarget(r.op) /\ u.outcome = "applied" /\ u.kept = {}
  BY <1>5 DEF NewTask
<1>7. u.op \notin Clears
  BY <1>4, <1>6 DEF Serial
<1>8. u.pc \in {"token", "list", "get"} /\ u.target # "executed"
  BY <1>6, <1>7 DEF Entry, ReviewTarget, Clears
<1>9. u.resume \in {"create", "transition", "approve", "restore", "execute", "idle"}
  BY <1>6 DEF FirstResume
<1>10. Blank(u)
  BY <1>6, <1>7, <1>8, <1>9 DEF Blank, Plain, Aside, Excluding, Restored, Busy, Where, Reading, Walking
<1>11. UNCHANGED serials
  BY DEF Begin, store, graph, serials
<1>12. QED BY <1>3, <1>5, <1>10, <1>11, BlankSerial

\* A handler that reads keeps its place and gets what S3 holds.
Reads(k, u) ==
  /\ u.op = k.op /\ u.p = k.p /\ u.id = k.id /\ u.target = k.target /\ u.outcome = k.outcome
  /\ Where(u) = Where(k)
  /\ u.pc \in Reading \cup Resumptions
  /\ Knows(u)

LEMMA ReadsSerial ==
  ASSUME NEW k, SerialAt(k), k.pc \in Reading, NEW u, Reads(k, u),
         UNCHANGED <<s3, index, excluded, writes>>,
         redis' = redis \/ (\A p \in Proposals : redis'[p] \in {redis[p], s3[p]})
  PROVE  SerialAt(u)'
<1>1. k.pc \notin {"cacheState", "evict", "cacheNew", "exclPut", "indexRead", "indexPut"} /\ ~Walking(k)
  BY DEF Reading, Walking
<1>2. u.pc \notin {"cacheState", "evict", "cacheNew", "exclPut", "indexRead", "indexPut", "list", "unexclude"}
      /\ ~Walking(u)
  BY DEF Reads, Reading, Resumptions, Walking
<1>3. Knows(u)'
  BY <1>2 DEF Reads, Knows
<1>4. CacheSerial(u)'
  BY <1>1 DEF SerialAt, CacheSerial
<1>5. IndexSerial(u)'
  BY <1>1, <1>2 DEF SerialAt, IndexSerial, Indexing, Stored, Reads, Walking
<1>6. Excluding(u) = Excluding(k) /\ Restored(u) = Restored(k) /\ Busy(u) = Busy(k)
  BY DEF Reads, Excluding, Restored, Busy
<1>7. (OneEach => ExcludedSerial(u))'
  <2>1. CASE OneEach
    <3>1. ExcludedSerial(k)
      BY <2>1 DEF SerialAt
    <3>2. QED
      BY <1>2, <1>6, <3>1 DEF ExcludedSerial, ExcludedProposals, ExcludedIds, StateOf, Reads, Excluding, Restored, Where
  <2>2. QED BY <2>1 DEF OneEach
<1>8. AppliedSerial(u)'
  BY <1>6 DEF SerialAt, AppliedSerial, AppliedOnce, StateOf, Reads, Busy, Where
<1>9. QED BY <1>3, <1>4, <1>5, <1>7, <1>8 DEF SerialAt

LEMMA ReadSerial ==
  ASSUME IInv, Serial, SerialInv, NEW t \in Slots, ReadStep(t)
  PROVE  SerialInv'
<1>1. PICK k \in Task : k = task[t] /\ TaskInv(k) /\ SerialAt(k)
  BY Before DEF SerialInv
<1>2. k.pc \in Reading /\ k.resume \in Resumptions /\ k.p \in Proposals
  BY <1>1, ReadingTask DEF ReadStep, GetCached, GetStored, Backfill, At, Reading
<1>3. UNCHANGED <<s3, index, excluded, writes>>
  BY DEF ReadStep, GetCached, GetStored, Backfill, store, graph
<1>4. ASSUME NEW u, NEW pkt, pkt = s3[k.p],
             \/ u = [k EXCEPT !.pc = k.resume, !.pkt = pkt]
             \/ u = [k EXCEPT !.pc = k.resume] /\ k.pkt = pkt
             \/ u = [k EXCEPT !.pc = "getS3"]
             \/ u = [k EXCEPT !.pc = "fill", !.pkt = pkt]
      PROVE  Reads(k, u)
  <2>1. /\ u.op = k.op /\ u.p = k.p /\ u.id = k.id /\ u.target = k.target /\ u.outcome = k.outcome
        /\ u.resume = k.resume /\ u.pc \in {k.resume, "getS3", "fill"}
        /\ u.pc # "getS3" => u.pkt = pkt
    BY <1>4 DEF Task
  <2>2. Where(u) = Where(k) /\ u.pc \in Reading \cup Resumptions
    BY <1>2, <2>1 DEF Where, Reading, Resumptions
  <2>3. Knows(u)
    BY <1>2, <1>4, <2>1 DEF Knows, Resumptions
  <2>4. QED BY <2>1, <2>2, <2>3 DEF Reads
<1>5. ASSUME NEW u, Becomes(t, u), Reads(k, u),
             redis' = redis \/ (\A p \in Proposals : redis'[p] \in {redis[p], s3[p]})
      PROVE  SerialInv'
  BY <1>1, <1>2, <1>3, <1>5, ReadsSerial, OneMoves
<1>6. CASE GetCached(t)
  <2>1. redis[k.p] \in {None, s3[k.p]}
    BY <1>1, <1>2 DEF SerialAt, CacheSerial, Reading
  <2>2. redis' = redis
    BY <1>6 DEF GetCached, store
  <2>3. QED BY <1>1, <1>4, <1>5, <1>6, <2>1, <2>2, Faultless DEF GetCached, Return, Goto
<1>7. CASE GetStored(t)
  <2>1. redis' = redis
    BY <1>7 DEF GetStored, store
  <2>2. QED BY <1>1, <1>4, <1>5, <1>7, <2>1, Faultless DEF GetStored, Return
<1>8. CASE Backfill(t)
  <2>1. k.pc = "fill" /\ k.pkt = s3[k.p]
    BY <1>1, <1>8 DEF Backfill, At, SerialAt, Knows
  <2>2. \A p \in Proposals : redis'[p] \in {redis[p], s3[p]}
    BY <1>1, <1>2, <1>8, <2>1, IInvParts, Faultless DEF Backfill, StorePart, StoreTypeOK
  <2>3. QED BY <1>1, <1>4, <1>5, <1>8, <2>1, <2>2 DEF Backfill, Goto
<1>9. QED BY <1>6, <1>7, <1>8 DEF ReadStep

(***************************************************************************)
(* Creating a proposal.                                                    *)
(***************************************************************************)
LEMMA CallsBlank ==
  ASSUME NEW t \in Slots, NEW k \in Task, k = task[t], k.outcome # "failed", k.op \notin Clears,
         NEW to, to # "executed", CallTransition(t, to)
  PROVE  \E u : Becomes(t, u) /\ Blank(u)
<1>1. PICK u : u = [k EXCEPT !.pc = "get", !.resume = "transition", !.target = to] /\ Becomes(t, u)
  BY DEF CallTransition
<1>2. /\ u.op = k.op /\ u.outcome = k.outcome
      /\ u.pc = "get" /\ u.resume = "transition" /\ u.target = to
  BY <1>1 DEF Task
<1>3. QED
  BY <1>1, <1>2 DEF Blank, Plain, Aside, Excluding, Restored, Busy, Where, Reading, Walking

\* After create the request is over or asks for a transition.
LEMMA AfterCreateSerial ==
  ASSUME IInv, Serial, NEW t \in Slots, NEW k \in Task, k = task[t], k.outcome # "failed",
         k.op \notin Clears, AfterCreate(t), Rests'
  PROVE  SerialInv'
BY CallsBlank, BlankRests, FinishRests DEF AfterCreate

LEMMA CreatingTask ==
  ASSUME NEW k \in Task, TaskInv(k), k.pc \in Creating
  PROVE  k.op \in {"create", "orphan"} /\ k.p \in Proposals /\ k.version \in Versions
BY DEF TaskInv, TaskShape, Placed, Removals, Where, Reading, Creating, Moving, Executing, Task, OpNames

LEMMA CreatePutSerial ==
  ASSUME IInv, Serial, SerialInv, NEW t \in Slots, CreatePut(t)
  PROVE  SerialInv'
<1>1. PICK k \in Task : k = task[t] /\ TaskInv(k) /\ SerialAt(k)
  BY Before DEF SerialInv
<1>2. k.pc = "create" /\ k.pkt = None
  BY <1>1 DEF CreatePut, At
<1>3. k.op \in {"create", "orphan"} /\ k.p \in Proposals /\ k.version \in Versions
  BY <1>1, <1>2, CreatingTask DEF Creating
<1>4. Plain(k)
  BY <1>1, <1>2, <1>3 DEF Plain, Aside, Excluding, Restored, Busy, Where, Reading, Walking, SerialAt,
     AppliedSerial, Clears
<1>5. Rests /\ s3[k.p] = None
  BY <1>1, <1>2, <1>4, PlainRests DEF Knows
<1>6. PICK pkt \in Packets : pkt = [state |-> "pending", version |-> k.version]
  BY <1>3 DEF Packets, States
<1>7. pkt # None /\ pkt.state = "pending" /\ StateOf(pkt) = "pending"
  BY <1>6, ConstantsAssumption DEF StateOf
<1>8. PICK u : u = [k EXCEPT !.pc = "cacheNew"] /\ Becomes(t, u) /\ Store(k.p, pkt)
  BY <1>1, <1>6, Faultless DEF CreatePut, Goto, NewPacket
<1>9. /\ u.pc = "cacheNew" /\ u.op = k.op /\ u.p = k.p /\ u.version = k.version
      /\ u.outcome = k.outcome
  BY <1>8 DEF Task
<1>10. s3'[k.p] = pkt /\ \A p \in Proposals : p # k.p => s3'[p] = s3[p]
  BY <1>3, <1>8, IInvParts DEF Store, StorePart, StoreTypeOK
<1>11. UNCHANGED <<redis, index, excluded, writes>>
  BY DEF CreatePut, graph
<1>12. ~Walking(u) /\ ~Excluding(u) /\ ~Restored(u) /\ ~Busy(u) /\ Where(u) # "schema" /\ u.outcome # "failed"
       /\ u.op \notin Clears
  BY <1>1, <1>3, <1>9 DEF Walking, Excluding, Restored, Busy, Where, Reading, SerialAt, AppliedSerial, Clears
<1>13. Knows(u)'
  BY <1>6, <1>9, <1>10 DEF Knows
<1>14. CacheSerial(u)'
  BY <1>5, <1>10, <1>11 DEF CacheSerial, Rests, StoresRest
<1>15. IndexSerial(u)'
  <2>1. Stored' = index \cup {u.p}
    BY <1>3, <1>5, <1>7, <1>9, <1>10 DEF Stored, Rests
  <2>2. QED BY <1>9, <1>11, <1>12, <2>1 DEF IndexSerial, Indexing, Walking
<1>16. (OneEach => ExcludedSerial(u))'
  <2>1. ExcludedProposals' \subseteq ExcludedProposals
    BY <1>7, <1>10 DEF ExcludedProposals, StateOf
  <2>2. QED BY <1>5, <1>9, <1>11, <1>12, <2>1 DEF ExcludedSerial, Rests, StoresRest, ExcludedIds, OneEach, Restored, Where
<1>17. AppliedSerial(u)'
  <2>1. \A w \in writes : w.p # k.p /\ w.p \in Proposals
    <3>1. StateOf(s3[k.p]) = "absent"
      BY <1>5 DEF StateOf
    <3>2. QED BY <1>5, <3>1 DEF Rests, StoresRest, IInv, TypeOK, GraphTypeOK
  <2>2. QED BY <1>5, <1>10, <1>11, <1>12, <2>1 DEF AppliedSerial, Rests, StoresRest, AppliedOnce, StateOf, Busy, Where
<1>18. QED BY <1>8, <1>13, <1>14, <1>15, <1>16, <1>17, OneMoves DEF SerialAt

LEMMA CreateSerial ==
  ASSUME IInv, Serial, SerialInv, NEW t \in Slots, CreateStep(t)
  PROVE  SerialInv'
<1>1. PICK k \in Task : k = task[t] /\ TaskInv(k) /\ SerialAt(k)
  BY Before DEF SerialInv
<1>2. k.pc \in Creating
  BY <1>1 DEF CreateStep, CreateExisting, CreatePut, CreateCache, IndexRead, IndexPut, At, Creating
<1>3. k.op \in {"create", "orphan"} /\ k.p \in Proposals /\ k.version \in Versions
  BY <1>1, <1>2, CreatingTask
<1>4. k.outcome # "failed" /\ k.op \notin Clears /\ ~Walking(k) /\ ~Excluding(k) /\ ~Restored(k) /\ ~Busy(k)
  BY <1>1, <1>2, <1>3 DEF SerialAt, AppliedSerial, Creating, Clears, Walking, Excluding, Restored, Busy, Where, Reading
<1>5. StoresRest
  BY <1>1, <1>2, <1>4 DEF SerialAt, StoresRest, CacheSerial, ExcludedSerial, AppliedSerial, Creating
<1>6. CASE CreateExisting(t)
  <2>1. UNCHANGED serials /\ k.pc = "create"
    BY <1>1, <1>6 DEF CreateExisting, store, graph, serials, At
  <2>2. index = Stored
    BY <1>1, <1>4, <2>1 DEF SerialAt, IndexSerial, Indexing
  <2>3. Rests'
    BY <1>5, <2>1, <2>2 DEF Rests, StoresRest, serials, Stored, ExcludedProposals, ExcludedIds, StateOf, AppliedOnce, OneEach
  <2>4. QED BY <1>1, <1>4, <1>6, <2>3, AfterCreateSerial DEF CreateExisting
<1>7. CASE CreatePut(t)
  BY <1>7, CreatePutSerial
<1>8. CASE CreateCache(t)
  <2>1. k.pc = "cacheNew" /\ UNCHANGED <<s3, index, excluded, writes>>
    BY <1>1, <1>8 DEF CreateCache, At, graph
  <2>2. s3[k.p] = [state |-> "pending", version |-> k.version]
    BY <1>1, <2>1 DEF SerialAt, Knows
  <2>3. \A p \in Proposals : redis'[p] \in {redis[p], s3[p]}
    BY <1>1, <1>3, <1>8, <2>2, IInvParts, Faultless DEF CreateCache, NewPacket, StorePart, StoreTypeOK
  <2>4. PICK u : u = [k EXCEPT !.pc = "indexRead"] /\ Becomes(t, u)
    BY <1>1, <1>8 DEF CreateCache, Goto
  <2>5. u.pc = "indexRead" /\ u.op = k.op /\ u.p = k.p /\ u.outcome = k.outcome
    BY <2>4 DEF Task
  <2>6. Aside(u) /\ Knows(u)'
    BY <1>3, <1>4, <2>5 DEF Aside, Knows, Excluding, Restored, Busy, Where, Reading
  <2>7. StoresRest'
    BY <1>5, <2>1, <2>3 DEF StoresRest, ExcludedProposals, ExcludedIds, StateOf, AppliedOnce, OneEach
  <2>8. IndexSerial(u)'
    BY <1>1, <1>4, <2>1, <2>5 DEF SerialAt, IndexSerial, Indexing, Stored, Walking
  <2>9. SerialAt(u)'
    BY <2>6, <2>7, <2>8 DEF SerialAt, Aside, StoresRest, CacheSerial, ExcludedSerial, AppliedSerial,
       Excluding, Restored, Busy, Where, OneEach
  <2>10. QED BY <2>4, <2>9, OneMoves
<1>9. CASE IndexRead(t)
  <2>1. UNCHANGED serials /\ k.pc = "indexRead"
    BY <1>1, <1>9 DEF IndexRead, store, graph, serials, At
  <2>2. Stored = index \cup {k.p}
    BY <1>1, <2>1 DEF SerialAt, IndexSerial, Indexing
  <2>3. CASE k.p \in index /\ AfterCreate(t)
    <3>1. index = Stored
      BY <2>2, <2>3
    <3>2. Rests'
      BY <1>5, <2>1, <3>1 DEF Rests, StoresRest, serials, Stored, ExcludedProposals, ExcludedIds, StateOf, AppliedOnce, OneEach
    <3>3. QED BY <1>1, <1>4, <2>3, <3>2, AfterCreateSerial
  <2>4. CASE Becomes(t, [task[t] EXCEPT !.pc = "indexPut", !.set = index])
    <3>1. PICK u : u = [k EXCEPT !.pc = "indexPut", !.set = index] /\ Becomes(t, u)
      BY <1>1, <2>4
    <3>2. u.pc = "indexPut" /\ u.op = k.op /\ u.p = k.p /\ u.outcome = k.outcome /\ u.set = index
      BY <3>1 DEF Task
    <3>3. Aside(u) /\ Knows(u)
      BY <1>3, <1>4, <3>2 DEF Aside, Knows, Excluding, Restored, Busy, Where, Reading
    <3>4. IndexSerial(u)
      BY <1>4, <2>2, <3>2 DEF IndexSerial, Indexing, Walking
    <3>5. QED BY <1>5, <2>1, <3>1, <3>3, <3>4, AsideRests, QuietSerial
  <2>5. QED BY <1>1, <1>9, <2>3, <2>4, Faultless DEF IndexRead
<1>10. CASE IndexPut(t)
  <2>1. UNCHANGED <<s3, redis, excluded, writes>> /\ k.pc = "indexPut"
    BY <1>1, <1>10 DEF IndexPut, graph, At
  <2>2. index' = index \cup {k.p}
    BY <1>1, <1>10, <2>1, Faultless DEF IndexPut, IndexExtended, SerialAt, IndexSerial
  <2>3. Stored = index \cup {k.p}
    BY <1>1, <2>1 DEF SerialAt, IndexSerial, Indexing
  <2>4. Rests'
    BY <1>5, <2>1, <2>2, <2>3 DEF Rests, StoresRest, Stored, ExcludedProposals, ExcludedIds, StateOf, AppliedOnce, OneEach
  <2>5. QED BY <1>1, <1>4, <1>10, <2>4, AfterCreateSerial DEF IndexPut
<1>11. QED BY <1>6, <1>7, <1>8, <1>9, <1>10 DEF CreateStep

(***************************************************************************)
(* A transition: S3, then the cache, then what its caller does.            *)
(***************************************************************************)
LEMMA MovingTask ==
  ASSUME NEW k \in Task, TaskInv(k), k.pc \in Moving
  PROVE  /\ k.op \in {"orphan", "approve", "confirm", "reject", "defer", "exclude", "restore", "execute"}
         /\ k.p \in Proposals /\ k.target \in States
         /\ k.target = "excluded" <=> k.op = "exclude"
         /\ k.op = "restore" => k.target = "pending"
         /\ k.target = "pending" => k.op = "restore"
BY DEF TaskInv, TaskShape, Placed, Targeted, Removals, Where, Reading, Creating, Moving, Executing, Task, OpNames

\* A permitted move leaves neither "absent" nor "executed".
LEMMA PermittedMove ==
  ASSUME NEW t \in Slots, Permitted(t)
  PROVE  task[t].pkt # None /\ StateOf(task[t].pkt) \notin {"absent", "executed"}
BY DEF Permitted, CanTransition, Transitions, StateOf

LEMMA TransitionPutSerial ==
  ASSUME IInv, Serial, SerialInv, NEW t \in Slots, TransitionPut(t)
  PROVE  SerialInv'
<1>1. PICK k \in Task : k = task[t] /\ TaskInv(k) /\ SerialAt(k)
  BY Before DEF SerialInv
<1>2. k.pc = "transition" /\ Permitted(t)
  BY <1>1 DEF TransitionPut, At
<1>3. /\ k.op \in {"orphan", "approve", "confirm", "reject", "defer", "exclude", "restore", "execute"}
      /\ k.p \in Proposals /\ k.target \in States
      /\ k.target = "excluded" <=> k.op = "exclude"
      /\ k.op = "restore" => k.target = "pending"
  BY <1>1, <1>2, MovingTask DEF Moving
<1>4. k.pkt = s3[k.p] /\ s3[k.p] # None /\ StateOf(s3[k.p]) \notin {"absent", "executed"}
  BY <1>1, <1>2, PermittedMove DEF SerialAt, Knows
<1>5. k.pkt \in Packets
  BY <1>3, <1>4, IInvParts DEF StorePart, StoreTypeOK
<1>6. PICK pkt \in Packets : pkt = [state |-> k.target, version |-> k.pkt.version]
  BY <1>3, <1>5 DEF Packets
<1>7. pkt # None /\ StateOf(pkt) = k.target
  BY <1>6, ConstantsAssumption DEF StateOf
<1>8. /\ Store(k.p, pkt)
      /\ Becomes(t, [k EXCEPT !.pc = "cacheState", !.pkt = pkt])
  BY <1>1, <1>6, Faultless DEF TransitionPut, MovedPacket
<1>9. PICK u : u = [k EXCEPT !.pc = "cacheState", !.pkt = pkt] /\ Becomes(t, u)
  BY <1>8
<1>10. /\ u.pc = "cacheState" /\ u.op = k.op /\ u.p = k.p /\ u.pkt = pkt
       /\ u.outcome = k.outcome /\ u.target = k.target
  BY <1>9 DEF Task
<1>11. s3'[k.p] = pkt /\ \A p \in Proposals : p # k.p => s3'[p] = s3[p]
  BY <1>3, <1>8, IInvParts DEF Store, StorePart, StoreTypeOK
<1>12. UNCHANGED <<redis, index, excluded, writes>>
  BY DEF TransitionPut, graph
<1>13. Knows(u)'
  BY <1>10, <1>11 DEF Knows
<1>14. CacheSerial(u)'
  BY <1>1, <1>2, <1>10, <1>11, <1>12 DEF SerialAt, CacheSerial
<1>15. IndexSerial(u)'
  <2>1. index = Stored
    BY <1>1, <1>2 DEF SerialAt, IndexSerial, Indexing, Walking
  <2>2. Stored' = Stored
    BY <1>3, <1>4, <1>7, <1>11 DEF Stored
  <2>3. u.op \notin Clears
    BY <1>3, <1>10 DEF Clears
  <2>4. QED BY <1>10, <1>12, <2>1, <2>2, <2>3 DEF IndexSerial, Indexing, Walking
<1>16. (OneEach => ExcludedSerial(u))'
  <2>1. ASSUME OneEach PROVE ExcludedSerial(k)
    BY <1>1, <2>1 DEF SerialAt
  <2>2. ~Excluding(k)
    BY <1>2 DEF Excluding, Where, Reading
  <2>3. \A p \in ExcludedProposals' : p \in ExcludedProposals \/ (p = k.p /\ k.target = "excluded")
    BY <1>7, <1>11 DEF ExcludedProposals, StateOf
  <2>4. Excluding(u) <=> k.target = "excluded"
    BY <1>3, <1>10 DEF Excluding, Where, Reading
  <2>5. Restored(u) => k.target = "pending"
    BY <1>3, <1>10 DEF Restored
  <2>6. StateOf(s3'[u.p]) = k.target
    BY <1>7, <1>10, <1>11
  <2>7. excluded' = excluded
    BY <1>12
  <2>8. QED
    BY <1>10, <2>1, <2>2, <2>3, <2>4, <2>5, <2>6, <2>7
       DEF ExcludedSerial, ExcludedIds, OneEach, Restored, Excluding, Where, StateOf
<1>17. AppliedSerial(u)'
  <2>1. ~Busy(u) /\ Where(u) # "schema"
    BY <1>10 DEF Busy, Where, Reading
  <2>2. Busy(k) => k.target = "executed"
    BY <1>2 DEF Busy, Where, Reading
  <2>3. \A w \in writes : w.p \in Proposals
    BY DEF IInv, TypeOK, GraphTypeOK
  <2>4. ASSUME NEW w \in writes PROVE StateOf(s3'[w.p]) = "executed"
    <3>1. StateOf(s3[w.p]) = "executed" \/ (w.p = k.p /\ k.target = "executed")
      BY <1>1, <2>2 DEF SerialAt, AppliedSerial
    <3>2. QED BY <1>4, <1>7, <1>11, <2>3, <3>1
  <2>5. u.outcome # "failed" /\ AppliedOnce'
    BY <1>1, <1>10, <1>12 DEF SerialAt, AppliedSerial, AppliedOnce
  <2>6. QED BY <1>12, <2>1, <2>4, <2>5 DEF AppliedSerial, StateOf, Busy, Where
<1>18. QED BY <1>9, <1>13, <1>14, <1>15, <1>16, <1>17, OneMoves DEF SerialAt

LEMMA TransitionCacheSerial ==
  ASSUME IInv, Serial, SerialInv, NEW t \in Slots, TransitionCache(t)
  PROVE  SerialInv'
<1>1. PICK k \in Task : k = task[t] /\ TaskInv(k) /\ SerialAt(k)
  BY Before DEF SerialInv
<1>2. k.pc = "cacheState" /\ UNCHANGED <<s3, index, excluded, writes>>
  BY <1>1 DEF TransitionCache, At, graph
<1>3. /\ k.op \in {"orphan", "approve", "confirm", "reject", "defer", "exclude", "restore", "execute"}
      /\ k.p \in Proposals
      /\ k.target = "excluded" <=> k.op = "exclude"
      /\ k.op = "restore" => k.target = "pending"
      /\ k.target = "pending" => k.op = "restore"
  BY <1>1, <1>2, MovingTask DEF Moving
<1>4. k.pkt = s3[k.p]
  BY <1>1, <1>2 DEF SerialAt, Knows
<1>5. \A p \in Proposals : redis'[p] \in {None, s3[p]}
  <2>1. redis' = [redis EXCEPT ![k.p] = k.pkt]
    BY <1>1, Faultless DEF TransitionCache
  <2>2. redis' \in [Proposals -> Packets \cup {None}] /\ redis \in [Proposals -> Packets \cup {None}]
    BY <1>3, <1>4, <2>1, IInvParts DEF StorePart, StoreTypeOK
  <2>3. redis'[k.p] = s3[k.p] /\ \A p \in Proposals : p # k.p => redis'[p] = redis[p]
    BY <1>3, <1>4, <2>1, <2>2
  <2>4. QED BY <1>1, <2>3 DEF SerialAt, CacheSerial
<1>6. k.op \notin Clears /\ k.outcome # "failed" /\ index = Stored /\ ~Busy(k)
  BY <1>1, <1>2 DEF SerialAt, IndexSerial, Indexing, Walking, AppliedSerial, Busy, Where, Reading
<1>7. ASSUME k.op # "exclude" PROVE Rests'
  <2>1. ~Excluding(k)
    BY <1>7 DEF Excluding
  <2>2. OneEach => \A p \in ExcludedProposals : CandidateOf[p] \in ExcludedIds
    BY <1>1, <2>1 DEF SerialAt, ExcludedSerial
  <2>3. (\A w \in writes : StateOf(s3[w.p]) = "executed") /\ AppliedOnce
    BY <1>1, <1>6 DEF SerialAt, AppliedSerial
  <2>4. QED
    BY <1>2, <1>5, <1>6, <2>2, <2>3
       DEF Rests, StoresRest, Stored, ExcludedProposals, ExcludedIds, StateOf, AppliedOnce, OneEach
<1>8. CASE Finish(t) /\ k.op # "exclude"
  BY <1>7, <1>8, FinishRests
<1>9. CASE k.target = "approved" /\ Goto(t, "record")
  <2>1. PICK u : u = [k EXCEPT !.pc = "record"] /\ Becomes(t, u)
    BY <1>1, <1>9 DEF Goto
  <2>2. u.pc = "record" /\ u.op = k.op /\ u.outcome = k.outcome
    BY <2>1 DEF Task
  <2>3. Blank(u)
    BY <1>6, <2>2 DEF Blank, Plain, Aside, Excluding, Restored, Busy, Where, Reading, Walking
  <2>4. k.op # "exclude"
    BY <1>3, <1>9
  <2>5. QED BY <1>7, <2>1, <2>3, <2>4, BlankRests
<1>10. CASE \/ k.target = "excluded" /\ Fetch(t, "exclRead")
            \/ k.target = "pending" /\ Goto(t, "exclRead")
  <2>1. PICK u : /\ u = [k EXCEPT !.pc = "get", !.resume = "exclRead"] \/ u = [k EXCEPT !.pc = "exclRead"]
                 /\ Becomes(t, u)
    BY <1>1, <1>10 DEF Fetch, Goto
  <2>2. /\ u.op = k.op /\ u.p = k.p /\ u.outcome = k.outcome /\ u.pkt = k.pkt
        /\ u.pc = "exclRead" \/ (u.pc = "get" /\ u.resume = "exclRead")
    BY <2>1 DEF Task
  <2>3. Where(u) = "exclRead" /\ Where(k) = "cacheState"
    BY <1>2, <2>2 DEF Where, Reading
  <2>4. Excluding(u) = Excluding(k) /\ Restored(u) = Restored(k) /\ ~Busy(u)
    BY <2>2, <2>3 DEF Excluding, Restored, Busy
  <2>5. Knows(u)' /\ CacheSerial(u)'
    BY <1>2, <1>4, <1>5, <2>2 DEF Knows, CacheSerial
  <2>6. IndexSerial(u)'
    BY <1>2, <1>6, <2>2 DEF IndexSerial, Indexing, Walking, Stored
  <2>7. (OneEach => ExcludedSerial(u))'
    <3>1. OneEach => ExcludedSerial(k)
      BY <1>1 DEF SerialAt
    <3>2. QED
      BY <1>2, <2>2, <2>4, <3>1 DEF ExcludedSerial, OneEach, ExcludedProposals, ExcludedIds, StateOf,
         Excluding, Restored, Where
  <2>8. AppliedSerial(u)'
    BY <1>1, <1>2, <1>6, <2>2, <2>3, <2>4 DEF SerialAt, AppliedSerial, AppliedOnce, StateOf, Busy, Where
  <2>9. QED BY <2>1, <2>5, <2>6, <2>7, <2>8, OneMoves DEF SerialAt
<1>11. AfterTransition(t)
  BY DEF TransitionCache
<1>12. QED BY <1>1, <1>3, <1>8, <1>9, <1>10, <1>11 DEF AfterTransition

LEMMA TransitionSerial ==
  ASSUME IInv, Serial, SerialInv, NEW t \in Slots, TransitionStep(t)
  PROVE  SerialInv'
<1>1. CASE TransitionRefused(t)
  <2>1. PICK k \in Task : k = task[t] /\ TaskInv(k) /\ SerialAt(k)
    BY Before DEF SerialInv
  <2>2. k.pc = "transition" /\ ~Permitted(t) /\ k.pkt = s3[k.p]
    BY <1>1, <2>1 DEF TransitionRefused, At, SerialAt, Knows
  <2>3. ~Busy(k)
    <3>1. SUFFICES ASSUME Busy(k) PROVE Permitted(t)
      BY <2>2
    <3>2. k.target = "executed" /\ StateOf(k.pkt) = "approved"
      BY <2>1, <2>2, <3>1 DEF Busy, Where, Reading, SerialAt, AppliedSerial
    <3>3. QED BY <2>1, <3>2 DEF Permitted, CanTransition, Transitions
  <2>4. Plain(k)
    BY <2>1, <2>2, <2>3 DEF Plain, Aside, Excluding, Restored, Where, Reading, Walking, SerialAt, AppliedSerial, IndexSerial
  <2>5. Rests /\ Finish(t) /\ UNCHANGED serials
    BY <1>1, <2>1, <2>4, PlainRests DEF TransitionRefused, store, graph, serials
  <2>6. QED BY <2>5, FinishSerial
<1>2. QED BY <1>1, TransitionPutSerial, TransitionCacheSerial DEF TransitionStep

(***************************************************************************)
(* The gate, exclude and restore.                                          *)
(***************************************************************************)
\* A handler goes to a place where it has read nothing.
LEMMA GoesBlank ==
  ASSUME NEW t \in Slots, NEW k \in Task, k = task[t], k.outcome # "failed", k.op \notin Clears,
         NEW l, Goto(t, l), l \in {"record", "dropToken", "approval"}
  PROVE  \E u : Becomes(t, u) /\ Blank(u)
<1>1. PICK u : u = [k EXCEPT !.pc = l] /\ Becomes(t, u)
  BY DEF Goto
<1>2. u.op = k.op /\ u.outcome = k.outcome /\ u.pc = l /\ u.resume = k.resume /\ u.target = k.target
  BY <1>1 DEF Task
<1>3. QED
  BY <1>1, <1>2 DEF Blank, Plain, Aside, Excluding, Restored, Busy, Where, Reading, Walking

LEMMA GatePlain ==
  ASSUME IInv, SerialInv, NEW t \in Slots,
         task[t].pc \in {"approve", "token", "record", "dropToken", "restore", "execute", "approval",
                         "validate"}
  PROVE  Plain(task[t]) /\ Rests
<1>1. PICK k \in Task : k = task[t] /\ TaskInv(k) /\ SerialAt(k)
  BY Before DEF SerialInv
<1>2. Plain(k)
  BY <1>1 DEF Plain, Aside, Excluding, Restored, Busy, Where, Reading, Walking, SerialAt, AppliedSerial, IndexSerial
<1>3. QED BY <1>1, <1>2, PlainRests

LEMMA ApprovalSerial ==
  ASSUME IInv, Serial, SerialInv, NEW t \in Slots,
         \/ ApproveAgain(t) \/ ApproveRefused(t) \/ ApproveHighRisk(t) \/ ApproveLowRisk(t)
         \/ RedeemToken(t) \/ RecordApproval(t) \/ DropToken(t) \/ RestoreSeen(t)
  PROVE  SerialInv'
<1>1. PICK k \in Task : k = task[t] /\ TaskInv(k) /\ SerialAt(k)
  BY Before DEF SerialInv
<1>2. k.pc \in {"approve", "token", "record", "dropToken", "restore"}
  BY <1>1 DEF ApproveAgain, ApproveRefused, ApproveHighRisk, ApproveLowRisk, RedeemToken, RecordApproval,
     DropToken, RestoreSeen, At
<1>3. UNCHANGED serials
  BY DEF ApproveAgain, ApproveRefused, ApproveHighRisk, ApproveLowRisk, RedeemToken, RecordApproval,
     DropToken, RestoreSeen, store, graph, serials
<1>4. Rests /\ k.outcome # "failed" /\ k.op \notin Clears
  BY <1>1, <1>2, GatePlain DEF Plain, Aside
<1>5. Finish(t) \/ \E u : Becomes(t, u) /\ Blank(u)
  <2>1. CASE ApproveAgain(t) \/ ApproveRefused(t) \/ ApproveHighRisk(t) \/ DropToken(t)
    BY <2>1 DEF ApproveAgain, ApproveRefused, ApproveHighRisk, DropToken
  <2>2. CASE ApproveLowRisk(t) \/ RedeemToken(t)
    BY <1>1, <1>4, <2>2, CallsBlank DEF ApproveLowRisk, RedeemToken
  <2>3. CASE RecordApproval(t)
    <3>1. CASE Becomes(t, [task[t] EXCEPT !.pc = "approval", !.cred = Key(t)])
      <4>1. PICK u : u = [k EXCEPT !.pc = "approval", !.cred = Key(t)] /\ Becomes(t, u)
        BY <1>1, <3>1
      <4>2. u.op = k.op /\ u.outcome = k.outcome /\ u.pc = "approval"
        BY <4>1 DEF Task
      <4>3. QED
        BY <1>4, <4>1, <4>2 DEF Blank, Plain, Aside, Excluding, Restored, Busy, Where, Reading, Walking
    <3>2. CASE Goto(t, "dropToken")
      BY <1>1, <1>4, <3>2, GoesBlank
    <3>3. QED BY <2>3, <3>1, <3>2 DEF RecordApproval
  <2>4. CASE RestoreSeen(t)
    <3>1. k.target = "pending"
      BY <1>1, <2>4 DEF RestoreSeen, At, TaskInv, TaskShape, Placed, Targeted, Where, Reading, Moving,
         Executing, Creating, Removals, Task, OpNames
    <3>2. PICK u : u = [k EXCEPT !.pc = "get", !.resume = "transition", !.found = k.pkt # None]
                   /\ Becomes(t, u)
      BY <1>1, <2>4 DEF RestoreSeen
    <3>3. u.op = k.op /\ u.outcome = k.outcome /\ u.pc = "get" /\ u.resume = "transition" /\ u.target = "pending"
      BY <3>1, <3>2 DEF Task
    <3>4. QED
      BY <1>4, <3>2, <3>3 DEF Blank, Plain, Aside, Excluding, Restored, Busy, Where, Reading, Walking
  <2>5. QED BY <2>1, <2>2, <2>3, <2>4
<1>6. QED BY <1>3, <1>4, <1>5, FinishSerial, BlankSerial

LEMMA ExcludingTask ==
  ASSUME NEW k \in Task, TaskInv(k), k.pc \in {"exclRead", "exclPut"}
  PROVE  k.op \in {"exclude", "restore"} /\ k.p \in Proposals
BY DEF TaskInv, TaskShape, Placed, Targeted, Removals, Where, Reading, Creating, Moving, Executing, Task, OpNames

LEMMA ExcludedReadSerial ==
  ASSUME IInv, Serial, SerialInv, NEW t \in Slots, ExcludedRead(t)
  PROVE  SerialInv'
<1>1. PICK k \in Task : k = task[t] /\ TaskInv(k) /\ SerialAt(k)
  BY Before DEF SerialInv
<1>2. k.pc = "exclRead" /\ UNCHANGED serials
  BY <1>1 DEF ExcludedRead, At, store, graph, serials
<1>3. k.op \in {"exclude", "restore"} /\ k.p \in Proposals /\ k.pkt = s3[k.p]
  BY <1>1, <1>2, ExcludingTask DEF SerialAt, Knows
<1>4. k.op \notin Clears /\ k.outcome # "failed" /\ index = Stored /\ ~Busy(k) /\ Where(k) = "exclRead"
  BY <1>1, <1>2 DEF SerialAt, IndexSerial, Indexing, Walking, AppliedSerial, Busy, Where, Reading
<1>5. CASE Finish(t) /\ (s3[k.p] = None \/ k.op = "restore")
  <2>1. \A p \in ExcludedProposals : ~(p = k.p /\ Excluding(k))
    BY <1>5 DEF ExcludedProposals, Excluding, StateOf
  <2>2. Rests
    BY <1>1, <1>2, <1>4, <2>1 DEF SerialAt, CacheSerial, ExcludedSerial, AppliedSerial, Rests, StoresRest, OneEach
  <2>3. QED BY <1>2, <1>5, <2>2, FinishSerial
<1>6. CASE Rewrite(t, ExcludedIds)
  <2>1. PICK u : u = [k EXCEPT !.pc = "exclPut", !.set = ExcludedIds] /\ Becomes(t, u)
    BY <1>1, <1>6 DEF Rewrite
  <2>2. u.op = k.op /\ u.p = k.p /\ u.outcome = k.outcome /\ u.pc = "exclPut" /\ u.set = ExcludedIds
    BY <2>1 DEF Task
  <2>3. Where(u) = "exclPut"
    BY <2>2 DEF Where, Reading
  <2>4. Excluding(u) = Excluding(k) /\ Restored(u) = Restored(k) /\ ~Busy(u)
    BY <1>4, <2>2, <2>3 DEF Excluding, Restored, Busy
  <2>5. Knows(u) /\ CacheSerial(u) /\ IndexSerial(u)
    BY <1>1, <1>2, <1>4, <2>2 DEF Knows, SerialAt, CacheSerial, IndexSerial, Indexing, Walking
  <2>6. OneEach => ExcludedSerial(u)
    BY <1>1, <2>2, <2>4 DEF SerialAt, ExcludedSerial, OneEach
  <2>7. AppliedSerial(u)
    BY <1>1, <1>4, <2>2, <2>3, <2>4 DEF SerialAt, AppliedSerial
  <2>8. SerialAt(u)
    BY <2>5, <2>6, <2>7 DEF SerialAt
  <2>9. QED BY <1>2, <2>1, <2>8, QuietSerial
<1>7. QED BY <1>1, <1>3, <1>5, <1>6, Faultless DEF ExcludedRead, ExcludedIds

LEMMA ExcludedPutSerial ==
  ASSUME IInv, Serial, SerialInv, NEW t \in Slots, ExcludedPut(t)
  PROVE  SerialInv'
<1>1. PICK k \in Task : k = task[t] /\ TaskInv(k) /\ SerialAt(k)
  BY Before DEF SerialInv
<1>2. k.pc = "exclPut" /\ UNCHANGED <<s3, redis, index, writes>>
  BY <1>1 DEF ExcludedPut, At, store, graph
<1>3. k.op \in {"exclude", "restore"} /\ k.p \in Proposals
  BY <1>1, <1>2, ExcludingTask
<1>4. index = Stored /\ ~Busy(k) /\ Where(k) = "exclPut"
  BY <1>1, <1>2 DEF SerialAt, IndexSerial, Indexing, Walking, Busy, Where, Reading
<1>5. /\ excluded' = IF k.op = "exclude" THEN k.set \cup {CandidateOf[k.p]} ELSE k.set \ {CandidateOf[k.p]}
      /\ excluded' \in SUBSET Candidates
  <2>1. excluded' = IF k.op = "exclude" THEN k.set \cup {CandidateOf[k.p]} ELSE k.set \ {CandidateOf[k.p]}
    BY <1>1, Faultless DEF ExcludedPut, ExcludedUpdated
  <2>2. k.set \subseteq Candidates /\ CandidateOf[k.p] \in Candidates
    BY <1>1, <1>2, <1>3, ConstantsAssumption DEF TaskInv, TaskShape
  <2>3. QED BY <2>1, <2>2
<1>6. ExcludedIds' = excluded'
  BY <1>5, ConstantsAssumption DEF ExcludedIds
<1>7. ASSUME OneEach, NEW p \in ExcludedProposals PROVE CandidateOf[p] \in excluded'
  <2>1. /\ CandidateOf[p] \in k.set \/ (p = k.p /\ k.op = "exclude")
        /\ k.op = "restore" => StateOf(s3[k.p]) = "pending"
    BY <1>1, <1>2, <1>3, <1>4, <1>7 DEF SerialAt, ExcludedSerial, Excluding, Restored
  <2>2. StateOf(s3[p]) = "excluded" /\ p \in Proposals
    BY DEF ExcludedProposals
  <2>3. k.op = "restore" => CandidateOf[p] # CandidateOf[k.p]
    BY <1>3, <1>7, <2>1, <2>2 DEF OneEach
  <2>4. QED BY <1>3, <1>5, <2>1, <2>3
<1>8. ExcludedProposals' = ExcludedProposals
  BY <1>2 DEF ExcludedProposals, StateOf
<1>9. (OneEach => \A p \in ExcludedProposals : CandidateOf[p] \in ExcludedIds)'
  BY <1>6, <1>7, <1>8 DEF OneEach
<1>10. Rests'
  BY <1>1, <1>2, <1>4, <1>9 DEF SerialAt, CacheSerial, AppliedSerial, Rests, StoresRest, Stored, StateOf, AppliedOnce
<1>11. QED BY <1>10, FinishRests DEF ExcludedPut

LEMMA GateSerial ==
  ASSUME IInv, Serial, SerialInv, NEW t \in Slots, GateStep(t)
  PROVE  SerialInv'
BY ApprovalSerial, ExcludedReadSerial, ExcludedPutSerial DEF GateStep

(***************************************************************************)
(* The attempt.                                                            *)
(***************************************************************************)
\* An attempt that is rejected, or goes on to validate, has committed nothing.
LEMMA ValidationSerial ==
  ASSUME IInv, Serial, SerialInv, NEW t \in Slots,
         ExecuteRefused(t) \/ ExecuteBuild(t) \/ CheckApproval(t) \/ CheckState(t) \/ CheckSchema(t)
  PROVE  SerialInv'
<1>1. PICK k \in Task : k = task[t] /\ TaskInv(k) /\ SerialAt(k)
  BY Before DEF SerialInv
<1>2. k.pc \in {"execute", "approval", "validate", "schema"} /\ UNCHANGED serials
  BY <1>1 DEF ExecuteRefused, ExecuteBuild, CheckApproval, CheckState, CheckSchema, At, store, graph, serials
<1>3. k.op \notin Clears /\ k.outcome # "failed" /\ ~Busy(k)
  BY <1>1, <1>2 DEF SerialAt, IndexSerial, AppliedSerial, Busy, Where, Reading
<1>4. Rests
  BY <1>1, <1>2, <1>3 DEF SerialAt, CacheSerial, IndexSerial, Indexing, Walking, ExcludedSerial, AppliedSerial,
     Rests, StoresRest, Excluding, Where, Reading, OneEach
<1>5. CASE Finish(t)
  BY <1>2, <1>4, <1>5, FinishSerial
<1>6. CASE Conclude(t, "rejected")
  <2>1. PICK u : u = [k EXCEPT !.pc = "audit", !.outcome = "rejected"] /\ Becomes(t, u)
    BY <1>1, <1>6 DEF Conclude
  <2>2. u.op = k.op /\ u.pc = "audit" /\ u.outcome = "rejected"
    BY <2>1 DEF Task
  <2>3. Blank(u)
    BY <1>3, <2>2 DEF Blank, Plain, Aside, Excluding, Restored, Busy, Where, Reading, Walking
  <2>4. QED BY <1>2, <1>4, <2>1, <2>3, BlankSerial
<1>7. CASE ExecuteBuild(t)
  <2>1. PICK u : u = [k EXCEPT !.pc = "approval", !.version = k.pkt.version] /\ Becomes(t, u)
    BY <1>1, <1>7 DEF ExecuteBuild
  <2>2. u.op = k.op /\ u.pc = "approval" /\ u.outcome = k.outcome
    BY <2>1 DEF Task
  <2>3. Blank(u)
    BY <1>3, <2>2 DEF Blank, Plain, Aside, Excluding, Restored, Busy, Where, Reading, Walking
  <2>4. QED BY <1>2, <1>4, <2>1, <2>3, BlankSerial
<1>8. CASE Fetch(t, "validate")
  <2>1. PICK u : u = [k EXCEPT !.pc = "get", !.resume = "validate"] /\ Becomes(t, u)
    BY <1>1, <1>8 DEF Fetch
  <2>2. u.op = k.op /\ u.pc = "get" /\ u.resume = "validate" /\ u.outcome = k.outcome
    BY <2>1 DEF Task
  <2>3. Blank(u)
    BY <1>3, <2>2 DEF Blank, Plain, Aside, Excluding, Restored, Busy, Where, Reading, Walking
  <2>4. QED BY <1>2, <1>4, <2>1, <2>3, BlankSerial
\* Before the first step the proposal is approved in S3.
<1>9. ASSUME NEW u, Becomes(t, u), StateOf(s3[k.p]) = "approved",
             \/ u = [k EXCEPT !.pc = "schema"] \/ u = [k EXCEPT !.pc = "apply"]
             \/ u = [k EXCEPT !.pc = "audit", !.outcome = "applied"]
      PROVE  SerialInv'
  <2>1. u.op = k.op /\ u.p = k.p /\ u.pc \in {"schema", "apply", "audit"} /\ u.outcome # "failed"
    BY <1>3, <1>9 DEF Task
  <2>2. Knows(u) /\ CacheSerial(u) /\ IndexSerial(u)
    BY <1>3, <1>4, <2>1 DEF Knows, CacheSerial, IndexSerial, Indexing, Walking, Rests, StoresRest
  <2>3. ~Excluding(u) /\ ~Restored(u)
    BY <2>1 DEF Excluding, Restored, Where, Reading
  <2>4. OneEach => ExcludedSerial(u)
    BY <1>4, <2>1, <2>3 DEF ExcludedSerial, Rests, StoresRest, OneEach
  <2>5. AppliedSerial(u)
    BY <1>4, <1>9, <2>1 DEF AppliedSerial, Rests, StoresRest
  <2>6. QED BY <1>2, <1>9, <2>2, <2>4, <2>5, QuietSerial DEF SerialAt
<1>10. CASE CheckState(t)
  <2>1. k.pkt = s3[k.p]
    BY <1>1, <1>10 DEF CheckState, At, SerialAt, Knows
  <2>2. QED BY <1>1, <1>6, <1>9, <1>10, <2>1 DEF CheckState, Goto
<1>11. CASE CheckSchema(t)
  <2>1. StateOf(s3[k.p]) = "approved"
    BY <1>1, <1>11 DEF CheckSchema, At, SerialAt, AppliedSerial, Where, Reading
  <2>2. QED BY <1>1, <1>6, <1>9, <1>11, <2>1, Faultless DEF CheckSchema, Goto, Conclude
<1>12. QED
  BY <1>1, <1>5, <1>6, <1>7, <1>8, <1>10, <1>11, Faultless DEF ExecuteRefused, CheckApproval

\* An attempt past validation goes on under its id.
LEMMA AttemptSerial ==
  ASSUME IInv, Serial, NEW t \in Slots, NEW k, SerialAt(k), Busy(k),
         k.pc \in {"apply", "verify", "audit"}, NEW u, Becomes(t, u),
         u.op = k.op, u.p = k.p, u.id = k.id, u.outcome # "failed", Busy(u),
         u.pc \in {"apply", "verify", "audit"} \/ (u.pc = "get" /\ u.resume = "transition"),
         UNCHANGED <<s3, redis, index, excluded>>,
         \A w \in writes' : w \in writes \/ (w.p = k.p /\ w.id = k.id)
  PROVE  SerialInv'
<1>1. StateOf(s3[k.p]) = "approved"
  BY DEF SerialAt, AppliedSerial
<1>2. Knows(u)' /\ CacheSerial(u)' /\ IndexSerial(u)'
  BY DEF SerialAt, Knows, CacheSerial, IndexSerial, Indexing, Walking, Stored
<1>3. ~Excluding(k) /\ ~Excluding(u) /\ ~Restored(u) /\ Where(u) # "schema"
  BY DEF Excluding, Restored, Where, Reading
<1>4. (OneEach => ExcludedSerial(u))'
  BY <1>3 DEF SerialAt, ExcludedSerial, OneEach, ExcludedProposals, ExcludedIds, StateOf, Excluding, Restored, Where
<1>5. AppliedSerial(u)'
  <2>1. \A w \in writes' : StateOf(s3[w.p]) = "executed" \/ (w.p = k.p /\ w.id = k.id)
    BY DEF SerialAt, AppliedSerial
  <2>2. ASSUME NEW v \in writes', NEW w \in writes', v.p = w.p PROVE v.id = w.id
    <3>1. CASE v \in writes /\ w \in writes
      BY <2>2, <3>1 DEF SerialAt, AppliedSerial, AppliedOnce
    <3>2. CASE v.p = k.p
      BY <1>1, <2>1, <2>2, <3>2
    <3>3. QED BY <2>2, <3>1, <3>2
  <2>3. QED
    BY <1>1, <1>3, <2>1, <2>2 DEF AppliedSerial, AppliedOnce, StateOf, Busy, Where
<1>6. QED BY <1>2, <1>4, <1>5, OneMoves DEF SerialAt

LEMMA ApplySerial ==
  ASSUME IInv, Serial, SerialInv, NEW t \in Slots, ApplyStep(t) \/ Verify(t) \/ AppendAudit(t)
  PROVE  SerialInv'
<1>1. PICK k \in Task : k = task[t] /\ TaskInv(k) /\ SerialAt(k)
  BY Before DEF SerialInv
<1>2. k.pc \in {"apply", "verify", "audit"} /\ UNCHANGED <<s3, redis, index, excluded>>
  BY <1>1 DEF ApplyStep, Verify, AppendAudit, At, store
<1>3. CASE ApplyStep(t)
  <2>1. k.pc = "apply"
    BY <1>1, <1>3 DEF ApplyStep, At
  <2>2. PICK l : l = IF k.n + 1 = NSteps THEN "verify" ELSE "apply"
    OBVIOUS
  <2>3. PICK u : u = [k EXCEPT !.n = k.n + 1, !.pc = l] /\ Becomes(t, u)
    BY <1>1, <1>3, <2>2, Faultless DEF ApplyStep
  <2>4. u.op = k.op /\ u.p = k.p /\ u.id = k.id /\ u.outcome = k.outcome /\ u.pc \in {"apply", "verify"}
    BY <2>2, <2>3 DEF Task
  <2>5. Busy(k) /\ Busy(u) /\ u.outcome # "failed"
    BY <1>1, <2>1, <2>4 DEF Busy, Where, Reading, SerialAt, AppliedSerial
  <2>6. \A w \in writes' : w \in writes \/ (w.p = k.p /\ w.id = k.id)
    <3>1. PICK new : new = [id |-> k.id, p |-> k.p, step |-> k.n + 1]
      OBVIOUS
    <3>2. writes' = writes \cup {new}
      BY <1>1, <1>3, <3>1, Faultless DEF ApplyStep
    <3>3. QED BY <3>1, <3>2
  <2>7. u.pc \in {"apply", "verify", "audit"}
    BY <2>4
  <2>8. Becomes(t, u) /\ SerialAt(k) /\ UNCHANGED <<s3, redis, index, excluded>>
    BY <1>1, <1>2, <2>3
  <2>9. QED BY <1>2, <2>4, <2>5, <2>6, <2>7, <2>8, AttemptSerial
<1>4. CASE Verify(t)
  <2>1. k.pc = "verify"
    BY <1>1, <1>4 DEF Verify, At
  <2>2. PICK u : u = [k EXCEPT !.pc = "audit", !.outcome = "applied"] /\ Becomes(t, u)
    BY <1>1, <1>4, Faultless DEF Verify, Conclude
  <2>3. u.op = k.op /\ u.p = k.p /\ u.id = k.id /\ u.outcome = "applied" /\ u.pc = "audit"
    BY <2>2 DEF Task
  <2>4. Busy(k) /\ Busy(u)
    BY <2>1, <2>3 DEF Busy, Where, Reading
  <2>5. writes' = writes
    BY <1>4 DEF Verify, graph
  <2>6. QED BY <1>1, <1>2, <2>2, <2>3, <2>4, <2>5, AttemptSerial
<1>5. CASE AppendAudit(t)
  <2>1. k.pc = "audit" /\ writes' = writes
    BY <1>1, <1>5 DEF AppendAudit, At
  <2>2. CASE k.outcome = "applied"
    <3>1. PICK u : /\ u = [k EXCEPT !.pc = "get", !.resume = "transition", !.target = "executed"]
                   /\ Becomes(t, u)
      BY <1>1, <1>5, <2>2, Faultless DEF AppendAudit, AfterAudit, CallTransition
    <3>2. /\ u.op = k.op /\ u.p = k.p /\ u.id = k.id /\ u.outcome = k.outcome
          /\ u.pc = "get" /\ u.resume = "transition" /\ u.target = "executed"
      BY <3>1 DEF Task
    <3>3. Busy(k) /\ Busy(u)
      BY <2>1, <2>2, <3>2 DEF Busy, Where, Reading
    <3>4. QED BY <1>1, <1>2, <2>1, <2>2, <3>1, <3>2, <3>3, AttemptSerial
  <2>3. CASE k.outcome # "applied"
    <3>1. ~Busy(k) /\ Finish(t)
      BY <1>1, <1>5, <2>1, <2>3, Faultless DEF Busy, Where, Reading, AppendAudit, AfterAudit
    <3>2. Rests
      BY <1>1, <2>1, <3>1 DEF SerialAt, CacheSerial, IndexSerial, Indexing, Walking, ExcludedSerial,
         AppliedSerial, Rests, StoresRest, Excluding, Where, Reading, OneEach
    <3>3. QED BY <1>2, <2>1, <3>1, <3>2, FinishSerial DEF serials
  <2>4. QED BY <2>2, <2>3
<1>6. QED BY <1>3, <1>4, <1>5

(***************************************************************************)
(* An archive walks the index.                                             *)
(***************************************************************************)
\* A handler that archives changes nothing but its place: the stores rest.
LEMMA WalkSerial ==
  ASSUME IInv, Serial, NEW t \in Slots, NEW k, SerialAt(k), Aside(k), NEW u, Becomes(t, u),
         u.op = k.op, u.outcome = k.outcome, u.pc \in {"next", "copy", "delete", "reindex"},
         IndexSerial(u), UNCHANGED serials
  PROVE  SerialInv'
<1>1. Aside(u) /\ Knows(u)
  BY DEF Aside, Knows, Excluding, Restored, Busy, Where, Reading
<1>2. QED BY <1>1, AsideRests, QuietSerial

LEMMA WalkingTask ==
  ASSUME NEW k \in Task, TaskInv(k), SerialAt(k), k.pc \in {"list"} \/ Walking(k)
  PROVE  /\ k.op = "archive" /\ ~Busy(k) /\ ~Excluding(k) /\ ~Restored(k) /\ Where(k) # "schema"
         /\ k.outcome # "failed"
         /\ k.pc # "evict" => Aside(k)
<1>1. k.op = "archive"
  BY DEF TaskInv, TaskShape, Placed, Removals, Where, Reading, Creating, Moving, Executing, Task, OpNames,
     Walking, SerialAt, IndexSerial, Clears
<1>2. QED
  BY <1>1 DEF Walking, Busy, Excluding, Restored, Where, Reading, SerialAt, AppliedSerial, Aside

LEMMA ListSerial ==
  ASSUME IInv, Serial, SerialInv, NEW t \in Slots, ListIndex(t)
  PROVE  SerialInv'
<1>1. PICK k \in Task : k = task[t] /\ TaskInv(k) /\ SerialAt(k)
  BY Before DEF SerialInv
<1>2. k.pc = "list" /\ UNCHANGED serials
  BY <1>1 DEF ListIndex, At, store, graph, serials
<1>3. k.op = "archive" /\ Aside(k)
  BY <1>1, <1>2, WalkingTask
<1>4. index = Stored /\ k.kept = {}
  BY <1>1, <1>2 DEF SerialAt, IndexSerial, Indexing, Walking
<1>5. CASE Finish(t)
  BY <1>1, <1>2, <1>3, <1>4, <1>5, AsideRests, FinishSerial DEF Rests
<1>6. CASE Becomes(t, [task[t] EXCEPT !.pc = "next", !.set = index])
  <2>1. PICK u : u = [k EXCEPT !.pc = "next", !.set = index] /\ Becomes(t, u)
    BY <1>1, <1>6
  <2>2. u.op = k.op /\ u.outcome = k.outcome /\ u.pc = "next" /\ u.set = index /\ u.kept = {}
    BY <1>4, <2>1 DEF Task
  <2>3. IndexSerial(u)
    BY <1>3, <1>4, <2>2 DEF IndexSerial, Indexing, Walking, Clears
  <2>4. QED BY <1>1, <1>2, <1>3, <2>1, <2>2, <2>3, WalkSerial
<1>7. QED BY <1>5, <1>6 DEF ListIndex

LEMMA ArchiveReadSerial ==
  ASSUME IInv, Serial, SerialInv, NEW t \in Slots, NEW p \in Proposals, ArchiveRead(t, p)
  PROVE  SerialInv'
<1>1. PICK k \in Task : k = task[t] /\ TaskInv(k) /\ SerialAt(k)
  BY Before DEF SerialInv
<1>2. k.pc = "next" /\ UNCHANGED serials
  BY <1>1 DEF ArchiveRead, At, store, graph, serials
<1>3. k.op = "archive" /\ Aside(k)
  BY <1>1, <1>2, WalkingTask DEF Walking
<1>4. Stored \subseteq k.kept \cup k.set /\ \A q \in k.kept : StateOf(s3[q]) = "executed"
  BY <1>1, <1>2 DEF SerialAt, IndexSerial, Walking
<1>5. CASE s3[p] = None /\ Becomes(t, [task[t] EXCEPT !.set = task[t].set \ {p}])
  <2>1. PICK u : u = [k EXCEPT !.set = k.set \ {p}] /\ Becomes(t, u)
    BY <1>1, <1>5
  <2>2. u.op = k.op /\ u.outcome = k.outcome /\ u.pc = "next" /\ u.set = k.set \ {p} /\ u.kept = k.kept
    BY <1>2, <2>1 DEF Task
  <2>3. Stored \subseteq u.kept \cup u.set
    BY <1>4, <1>5, <2>2 DEF Stored
  <2>4. IndexSerial(u)
    BY <1>3, <1>4, <2>2, <2>3 DEF IndexSerial, Indexing, Walking, Clears
  <2>5. QED BY <1>1, <1>2, <1>3, <2>1, <2>2, <2>4, WalkSerial
<1>6. CASE /\ StateOf(s3[p]) = "executed"
           /\ Becomes(t, [task[t] EXCEPT !.set = task[t].set \ {p}, !.kept = task[t].kept \cup {p}])
  <2>1. PICK u : u = [k EXCEPT !.set = k.set \ {p}, !.kept = k.kept \cup {p}] /\ Becomes(t, u)
    BY <1>1, <1>6
  <2>2. /\ u.op = k.op /\ u.outcome = k.outcome /\ u.pc = "next"
        /\ u.set = k.set \ {p} /\ u.kept = k.kept \cup {p}
    BY <1>2, <2>1 DEF Task
  <2>3. IndexSerial(u)
    BY <1>3, <1>4, <1>6, <2>2 DEF IndexSerial, Indexing, Walking, Clears
  <2>4. QED BY <1>1, <1>2, <1>3, <2>1, <2>2, <2>3, WalkSerial
<1>7. CASE /\ StateOf(s3[p]) \notin {"absent", "executed"}
           /\ Becomes(t, [task[t] EXCEPT !.pc = "copy", !.p = p, !.pkt = s3[p]])
  <2>1. PICK u : u = [k EXCEPT !.pc = "copy", !.p = p, !.pkt = s3[p]] /\ Becomes(t, u)
    BY <1>1, <1>7
  <2>2. /\ u.op = k.op /\ u.outcome = k.outcome /\ u.pc = "copy" /\ u.p = p
        /\ u.set = k.set /\ u.kept = k.kept
    BY <2>1 DEF Task
  <2>3. IndexSerial(u)
    BY <1>3, <1>4, <1>7, <2>2 DEF IndexSerial, Indexing, Walking, Clears
  <2>4. QED BY <1>1, <1>2, <1>3, <2>1, <2>2, <2>3, WalkSerial
<1>8. QED BY <1>1, <1>5, <1>6, <1>7, Faultless DEF ArchiveRead

LEMMA CopySerial ==
  ASSUME IInv, Serial, SerialInv, NEW t \in Slots, ArchiveCopy(t) \/ Manifest(t)
  PROVE  SerialInv'
<1>1. PICK k \in Task : k = task[t] /\ TaskInv(k) /\ SerialAt(k)
  BY Before DEF SerialInv
<1>2. UNCHANGED serials /\ k.pc \in {"copy", "next"}
  BY <1>1 DEF ArchiveCopy, Manifest, At, store, graph, serials
<1>3. k.op = "archive" /\ Aside(k)
  BY <1>1, <1>2, WalkingTask DEF Walking
<1>4. Stored \subseteq k.kept \cup k.set /\ \A q \in k.kept : StateOf(s3[q]) = "executed"
  BY <1>1, <1>2 DEF SerialAt, IndexSerial, Walking
<1>5. PICK l \in {"delete", "reindex"} :
        /\ Goto(t, l)
        /\ l = "delete" => k.pc = "copy"
        /\ l = "reindex" => k.set = {}
  BY <1>1, Faultless DEF ArchiveCopy, Manifest, At
<1>6. PICK u : u = [k EXCEPT !.pc = l] /\ Becomes(t, u)
  BY <1>1, <1>5 DEF Goto
<1>7. u.op = k.op /\ u.outcome = k.outcome /\ u.pc = l /\ u.p = k.p /\ u.set = k.set /\ u.kept = k.kept
  BY <1>6 DEF Task
<1>8. l = "delete" => StateOf(s3[u.p]) \notin {"absent", "executed"}
  BY <1>1, <1>5, <1>7 DEF SerialAt, IndexSerial
<1>9. IndexSerial(u)
  BY <1>3, <1>4, <1>5, <1>7, <1>8 DEF IndexSerial, Indexing, Walking, Clears
<1>10. QED BY <1>1, <1>2, <1>3, <1>5, <1>6, <1>7, <1>9, WalkSerial

LEMMA DeleteSerial ==
  ASSUME IInv, Serial, SerialInv, NEW t \in Slots, DeleteStored(t)
  PROVE  SerialInv'
<1>1. PICK k \in Task : k = task[t] /\ TaskInv(k) /\ SerialAt(k)
  BY Before DEF SerialInv
<1>2. k.pc = "delete" /\ UNCHANGED <<redis, index, excluded, writes>>
  BY <1>1 DEF DeleteStored, At, graph
<1>3. k.op = "archive" /\ Aside(k) /\ k.outcome # "failed" /\ k.p \in Proposals /\ k.kept \subseteq Proposals
  BY <1>1, <1>2, WalkingTask, RemovingTask DEF Walking, Task
<1>4. StoresRest /\ IndexSerial(k)
  BY <1>1, <1>3, AsideRests
<1>5. s3'[k.p] = None /\ \A p \in Proposals : p # k.p => s3'[p] = s3[p]
  BY <1>1, <1>3, IInvParts, Faultless DEF DeleteStored, StorePart, StoreTypeOK
<1>6. StateOf(s3[k.p]) # "executed"
  BY <1>2, <1>4 DEF IndexSerial
<1>7. PICK u : u = [k EXCEPT !.pc = "evict"] /\ Becomes(t, u)
  BY <1>1 DEF DeleteStored, Goto
<1>8. u.op = k.op /\ u.outcome = k.outcome /\ u.pc = "evict" /\ u.p = k.p /\ u.set = k.set /\ u.kept = k.kept
  BY <1>7 DEF Task
<1>9. ~Busy(u) /\ ~Excluding(u) /\ ~Restored(u) /\ Where(u) # "schema"
  BY <1>3, <1>8 DEF Busy, Excluding, Restored, Where, Reading
<1>10. Knows(u)' /\ CacheSerial(u)'
  BY <1>2, <1>4, <1>5, <1>8 DEF Knows, CacheSerial, StoresRest
<1>11. IndexSerial(u)'
  <2>1. Stored' \subseteq Stored
    BY <1>5 DEF Stored
  <2>2. Stored \subseteq k.kept \cup k.set /\ \A q \in k.kept : StateOf(s3[q]) = "executed"
    BY <1>2, <1>4 DEF IndexSerial, Walking
  <2>3. \A q \in u.kept : StateOf(s3'[q]) = "executed"
    BY <1>3, <1>5, <1>6, <1>8, <2>2
  <2>4. QED BY <1>3, <1>5, <1>8, <2>1, <2>2, <2>3 DEF IndexSerial, Indexing, Walking, Clears, StateOf
<1>12. (OneEach => ExcludedSerial(u))'
  <2>1. ExcludedProposals' \subseteq ExcludedProposals
    BY <1>5 DEF ExcludedProposals, StateOf
  <2>2. QED BY <1>2, <1>4, <1>8, <1>9, <2>1 DEF StoresRest, ExcludedSerial, ExcludedIds, OneEach, Restored, Where
<1>13. AppliedSerial(u)'
  <2>1. \A w \in writes : w.p # k.p /\ w.p \in Proposals /\ StateOf(s3[w.p]) = "executed"
    BY <1>4, <1>6 DEF StoresRest, IInv, TypeOK, GraphTypeOK
  <2>2. \A w \in writes : StateOf(s3'[w.p]) = "executed"
    BY <1>5, <2>1
  <2>3. AppliedOnce'
    BY <1>2, <1>4 DEF StoresRest, AppliedOnce
  <2>4. QED BY <1>2, <1>3, <1>8, <1>9, <2>2, <2>3 DEF AppliedSerial, StateOf, Busy, Where
<1>14. QED BY <1>7, <1>10, <1>11, <1>12, <1>13, OneMoves DEF SerialAt

LEMMA EvictSerial ==
  ASSUME IInv, Serial, SerialInv, NEW t \in Slots, EvictCached(t)
  PROVE  SerialInv'
<1>1. PICK k \in Task : k = task[t] /\ TaskInv(k) /\ SerialAt(k)
  BY Before DEF SerialInv
<1>2. k.pc = "evict" /\ UNCHANGED <<s3, index, excluded, writes>>
  BY <1>1 DEF EvictCached, At, graph
<1>3. k.op = "archive" /\ k.outcome # "failed" /\ k.p \in Proposals /\ ~Busy(k) /\ ~Excluding(k)
  BY <1>1, <1>2, WalkingTask, RemovingTask DEF Walking
<1>4. redis'[k.p] = None /\ \A p \in Proposals : p # k.p => redis'[p] = redis[p]
  BY <1>1, <1>3, IInvParts, Faultless DEF EvictCached, StorePart, StoreTypeOK
<1>5. StoresRest'
  BY <1>1, <1>2, <1>3, <1>4 DEF SerialAt, CacheSerial, ExcludedSerial, AppliedSerial, StoresRest,
     ExcludedProposals, ExcludedIds, StateOf, AppliedOnce, OneEach
<1>6. PICK u : u = [k EXCEPT !.pc = "next", !.p = None, !.pkt = None, !.set = k.set \ {k.p}] /\ Becomes(t, u)
  BY <1>1 DEF EvictCached
<1>7. u.op = k.op /\ u.outcome = k.outcome /\ u.pc = "next" /\ u.set = k.set \ {k.p} /\ u.kept = k.kept
  BY <1>6 DEF Task
<1>8. Aside(u) /\ Knows(u)'
  BY <1>3, <1>7 DEF Aside, Knows, Excluding, Restored, Busy, Where, Reading
<1>9. IndexSerial(u)'
  <2>1. Stored \subseteq k.kept \cup k.set /\ k.p \notin Stored /\ \A q \in k.kept : StateOf(s3[q]) = "executed"
    BY <1>1, <1>2 DEF SerialAt, IndexSerial, Walking, Stored
  <2>2. QED BY <1>2, <1>3, <1>7, <2>1 DEF IndexSerial, Indexing, Walking, Clears, Stored, StateOf
<1>10. SerialAt(u)'
  BY <1>5, <1>8, <1>9 DEF SerialAt, Aside, StoresRest, CacheSerial, ExcludedSerial, AppliedSerial,
     Excluding, Restored, Busy, Where, OneEach
<1>11. QED BY <1>6, <1>10, OneMoves

LEMMA RebuildSerial ==
  ASSUME IInv, Serial, SerialInv, NEW t \in Slots, RebuildIndex(t)
  PROVE  SerialInv'
<1>1. PICK k \in Task : k = task[t] /\ TaskInv(k) /\ SerialAt(k)
  BY Before DEF SerialInv
<1>2. k.pc \in {"reindex", "next"} /\ UNCHANGED <<s3, redis, excluded, writes>>
  BY <1>1 DEF RebuildIndex, At, graph
<1>3. k.op = "archive" /\ Aside(k)
  BY <1>1, <1>2, WalkingTask DEF Walking
<1>4. k.pc = "reindex"
  BY <1>1, <1>3 DEF RebuildIndex, At
<1>5. k.kept = Stored
  <2>1. Stored \subseteq k.kept /\ \A q \in k.kept : StateOf(s3[q]) = "executed"
    BY <1>1, <1>4 DEF SerialAt, IndexSerial, Walking
  <2>2. QED BY <2>1 DEF Stored, StateOf, Task
<1>6. index' = Stored
  BY <1>1, <1>5, Faultless DEF RebuildIndex
<1>7. StoresRest
  BY <1>1, <1>3, AsideRests
<1>8. Rests'
  BY <1>2, <1>6, <1>7 DEF Rests, StoresRest, Stored, ExcludedProposals, ExcludedIds, StateOf, AppliedOnce, OneEach
<1>9. QED BY <1>8, FinishRests DEF RebuildIndex

LEMMA RemovalSerial ==
  ASSUME IInv, Serial, SerialInv, NEW t \in Slots, RemovalStep(t)
  PROVE  SerialInv'
<1>1. ~ClearExcluded(t)
  BY DEF ClearExcluded, At, SerialInv, SerialAt, IndexSerial
<1>2. ASSUME NEW p \in Proposals PROVE ~ClearNext(t, p)
  BY DEF ClearNext, SerialInv, SerialAt, IndexSerial, Clears
<1>3. QED
  BY <1>1, <1>2, ListSerial, ArchiveReadSerial, CopySerial, DeleteSerial, EvictSerial, RebuildSerial
     DEF RemovalStep
(***************************************************************************)
(* The invariant, and what it says between requests.                       *)
(***************************************************************************)
LEMMA InitSerial == ASSUME Init PROVE SerialInv
<1>1. Rests
  <2>1. \A p \in Proposals : redis[p] = s3[p] /\ StateOf(s3[p]) \in {"absent", "pending"}
    BY DEF Init, StateOf
  <2>2. \A p \in Preloaded : [state |-> "pending", version |-> schema] \in Packets
    BY DEF Init, Packets, States
  <2>3. index = Stored
    BY <2>2, ConstantsAssumption DEF Init, Stored
  <2>4. ExcludedProposals = {} /\ writes = {}
    BY <2>1 DEF Init, ExcludedProposals
  <2>5. QED BY <2>1, <2>3, <2>4 DEF Rests, StoresRest, AppliedOnce, OneEach
<1>2. SerialAt(Idle)
  BY <1>1, IdlePlain, PlainRests
<1>3. QED BY <1>2 DEF Init, SerialInv

\* Every step keeps the invariant: one case per part of a handler.
LEMMA NextSerial == ASSUME IInv, Serial, SerialInv, [Next]_vars PROVE SerialInv'
<1>1. ASSUME NEW t \in Slots, ExecutionStep(t) PROVE SerialInv'
  BY <1>1, ValidationSerial, ApplySerial DEF ExecutionStep
<1>2. CASE \E t \in Slots : SlotStep(t)
  BY <1>1, <1>2, BeginSerial, ReadSerial, CreateSerial, TransitionSerial, GateSerial, RemovalSerial
     DEF SlotStep
<1>3. ASSUME UNCHANGED <<task, serials>> PROVE SerialInv'
  <2>1. ASSUME NEW t \in Slots PROVE SerialAt(task[t])'
    <3>1. PICK k : k = task[t] /\ k = task'[t] /\ SerialAt(k)'
      BY <1>3, Unmoved DEF SerialInv
    <3>2. QED
      BY <3>1 DEF SerialAt, Knows, CacheSerial, IndexSerial, Indexing, ExcludedSerial, AppliedSerial, Excluding,
         Restored, Busy, Where, Walking
  <2>2. QED BY <2>1 DEF SerialInv
<1>4. CASE ExpireToken \/ LockSchema \/ UNCHANGED vars
  BY <1>3, <1>4 DEF ExpireToken, LockSchema, vars, store, gate, graph, serials
<1>5. ~Crash
  BY Faultless DEF Crash
<1>6. QED BY <1>2, <1>4, <1>5 DEF Next

LEMMA RestsAtRest == ASSUME IInv, Serial, SerialInv, AtRest PROVE Rests
<1>1. PICK t \in Slots : SerialAt(task[t]) /\ task[t].pc = "idle"
  BY DEF Serial, SerialInv, AtRest, At
<1>2. PICK k \in Task : k = task[t] /\ TaskInv(k)
  BY Before
<1>3. Plain(k)
  BY <1>1, <1>2 DEF Plain, Aside, Excluding, Restored, Busy, Where, Reading, Walking, SerialAt,
     AppliedSerial, IndexSerial, Indexing
<1>4. QED BY <1>1, <1>2, <1>3, PlainRests

\* When the requests of a run come one after the other, no call is lost and nobody
\* clears the run, every handler finds and leaves the stores as SerialAt says.
THEOREM SerialInvariance == Spec => [](Serial => SerialInv)
<1>1. Init => (Serial => SerialInv)
  BY InitSerial
<1>2. IInv /\ (Serial => SerialInv) /\ [Next]_vars => (Serial => SerialInv)'
  BY NextSerial DEF Serial
<1>3. QED BY Invariance, <1>1, <1>2, PTL DEF Spec
\* Between the requests of such a run Redis serves what S3 holds, or nothing
\* (service.py writes the cache after every PUT and evicts after every DELETE).
THEOREM CacheAgrees == Spec => [](Serial => CacheAgreesAtRest)
<1>1. IInv /\ (Serial => SerialInv) => (Serial => CacheAgreesAtRest)
  BY RestsAtRest DEF CacheAgreesAtRest, Rests, StoresRest
<1>2. QED BY Invariance, SerialInvariance, <1>1, PTL

\* Between the requests of such a run the index lists exactly the proposals S3
\* holds: a create has appended its own, an archive has kept those it left
\* (service.py, _add_to_index and archive_for_run).
THEOREM IndexComplete == Spec => [](Serial => IndexCompleteAtRest)
<1>1. IInv /\ (Serial => SerialInv) => (Serial => IndexCompleteAtRest)
  BY RestsAtRest DEF IndexCompleteAtRest, Rests, Stored
<1>2. QED BY Invariance, SerialInvariance, <1>1, PTL

\* When no two proposals are about the same candidate, the candidate of an
\* excluded proposal is among the excluded ids between the requests of such a run,
\* whatever was excluded and restored before.
THEOREM ExclusionFilters == Spec => [](Serial /\ OneEach => ExcludedIsFiltered)
<1>1. IInv /\ (Serial => SerialInv) => (Serial /\ OneEach => ExcludedIsFiltered)
  BY RestsAtRest DEF ExcludedIsFiltered, Rests, StoresRest, OneEach
<1>2. QED BY Invariance, SerialInvariance, <1>1, PTL

\* In such a run one attempt at most applies steps of the diff of a proposal: the
\* proposal is marked executed before another request can read it.
THEOREM AppliedByOne == Spec => [](Serial => AppliedOnce)
<1>1. (Serial => SerialInv) => (Serial => AppliedOnce)
  BY DEF Serial, SerialInv, SerialAt, AppliedSerial
<1>2. QED BY SerialInvariance, <1>1, PTL

(***************************************************************************)
(* The refinement.  A step that writes S3 or the graph is a step of        *)
(* ProposalLifecycle, except that only the first step of a diff is Apply;  *)
(* every other step is a stutter.                                          *)
(***************************************************************************)
LEMMA PutMoves ==
  ASSUME IInv, NEW p \in Proposals, NEW pkt, s3' = [s3 EXCEPT ![p] = pkt]
  PROVE  Lifecycle!Move(p, StateOf(s3[p]), StateOf(pkt))
<1>1. s3 \in [Proposals -> Packets \cup {None}]
  BY DEF IInv, TypeOK, StoreTypeOK
<1>2. s3'[p] = pkt /\ \A q \in Proposals : q # p => s3'[q] = s3[q]
  BY <1>1
<1>3. StateOf(s3'[p]) = StateOf(pkt) /\ \A q \in Proposals : q # p => StateOf(s3'[q]) = StateOf(s3[q])
  BY <1>2
<1>4. [q \in Proposals |-> StateOf(s3'[q])]
        = [[q \in Proposals |-> StateOf(s3[q])] EXCEPT ![p] = StateOf(pkt)]
  BY <1>3, Zenon
<1>5. QED BY <1>4 DEF Lifecycle!Move, StateOf

LEMMA CreateMaps ==
  ASSUME IInv, Serial, SerialInv, NEW t \in Slots, CreatePut(t)
  PROVE  Lifecycle!Next
<1>1. PICK k \in Task : k = task[t] /\ TaskInv(k) /\ SerialAt(k)
  BY Before DEF SerialInv
<1>2. k.pc = "create" /\ s3[k.p] = None
  BY <1>1 DEF CreatePut, At, SerialAt, Knows
<1>3. k.p \in Proposals /\ k.version \in Versions
  BY <1>1, <1>2, CreatingTask DEF Creating
<1>4. PICK pkt \in Packets : pkt = [state |-> "pending", version |-> k.version]
  BY <1>3 DEF Packets, States
<1>5. StateOf(pkt) = "pending" /\ StateOf(s3[k.p]) = "absent"
  BY <1>2, <1>4, ConstantsAssumption DEF StateOf
<1>6. s3' = [s3 EXCEPT ![k.p] = pkt] /\ writes' = writes
  BY <1>1, <1>4, Faultless DEF CreatePut, Store, NewPacket, graph
<1>7. Lifecycle!Create(k.p)
  BY <1>3, <1>5, <1>6, PutMoves DEF Lifecycle!Create
<1>8. QED BY <1>3, <1>7 DEF Lifecycle!Next

LEMMA TransitionMaps ==
  ASSUME IInv, HistoryInv, Serial, ~DryRun, SerialInv, NEW t \in Slots, TransitionPut(t)
  PROVE  Lifecycle!Next
<1>1. PICK k \in Task : k = task[t] /\ TaskInv(k) /\ SerialAt(k) /\ AttemptInv(k)
  BY Before DEF SerialInv, HistoryInv
<1>2. k.pc = "transition" /\ k.pkt = s3[k.p] /\ CanTransition(StateOf(s3[k.p]), k.target)
  BY <1>1 DEF TransitionPut, At, Permitted, SerialAt, Knows
<1>3. k.p \in Proposals /\ k.target \in States
  BY <1>1, <1>2, MovingTask DEF Task, Moving
<1>4. s3[k.p] \in Packets
  BY <1>2, <1>3 DEF CanTransition, Transitions, StateOf, IInv, TypeOK, StoreTypeOK
<1>5. PICK pkt \in Packets : pkt = [state |-> k.target, version |-> k.pkt.version]
  BY <1>2, <1>3, <1>4 DEF Packets
<1>6. StateOf(pkt) = k.target
  BY <1>5, ConstantsAssumption DEF StateOf
<1>7. s3' = [s3 EXCEPT ![k.p] = pkt] /\ writes' = writes
  BY <1>1, <1>5, Faultless DEF TransitionPut, Store, MovedPacket, graph
<1>8. Lifecycle!Move(k.p, StateOf(s3[k.p]), k.target)
  BY <1>3, <1>6, <1>7, PutMoves
<1>9. CASE k.target # "executed"
  <2>1. Lifecycle!Review(k.p, k.target)
    <3>1. [q \in Proposals |-> StateOf(s3[q])][k.p] = StateOf(s3[k.p])
      BY <1>3
    <3>2. UNCHANGED {w.p : w \in writes}
      BY <1>7
    <3>3. Lifecycle!CanTransition(StateOf(s3[k.p]), k.target)
      BY <1>2 DEF CanTransition, Transitions, Lifecycle!CanTransition, Lifecycle!Transitions
    <3>4. QED BY <1>8, <1>9, <3>1, <3>2, <3>3, Zenon DEF Lifecycle!Review
  <2>2. k.target \in Lifecycle!States
    BY <1>3 DEF States, Lifecycle!States
  <2>3. QED BY <1>3, <2>1, <2>2, Zenon DEF Lifecycle!Next
<1>10. CASE k.target = "executed"
  <2>1. StateOf(s3[k.p]) = "approved"
    BY <1>2, <1>10 DEF CanTransition, Transitions
  <2>2. PICK r \in audit : r.p = k.p /\ r.outcome = "applied"
    BY <1>1, <1>2, <1>10 DEF AttemptInv, Marking, Where, Reading, Moving
  <2>3. Committed(r.id, k.p, NSteps)
    BY <2>2 DEF HistoryInv, LogInv, Accounted, Whole
  <2>4. [id |-> r.id, p |-> k.p, step |-> 1] \in writes
    BY <2>3, ConstantsAssumption DEF Committed
  <2>5. k.p \in {w.p : w \in writes}
    BY <2>4
  <2>6. Lifecycle!MarkExecuted(k.p)
    BY <1>7, <1>8, <1>10, <2>1, <2>5 DEF Lifecycle!MarkExecuted
  <2>7. QED BY <1>3, <2>6 DEF Lifecycle!Next
<1>11. QED BY <1>9, <1>10

LEMMA ApplyMaps ==
  ASSUME IInv, HistoryInv, Serial, SerialInv, NEW t \in Slots, ApplyStep(t)
  PROVE  Lifecycle!Next \/ UNCHANGED Lifecycle!vars
<1>1. PICK k \in Task : k = task[t] /\ TaskInv(k) /\ SerialAt(k) /\ AttemptInv(k)
  BY Before DEF SerialInv, HistoryInv
<1>2. k.pc = "apply" /\ s3' = s3
  BY <1>1 DEF ApplyStep, At, store
<1>3. k.p \in Proposals
  BY <1>1, <1>2 DEF TaskInv, TaskShape, Placed, Removals, Where, Reading, Creating, Moving, Executing, Task, OpNames
<1>4. Busy(k) /\ StateOf(s3[k.p]) = "approved"
  BY <1>1, <1>2 DEF Busy, Where, Reading, SerialAt, AppliedSerial
<1>5. PICK new : new = [id |-> k.id, p |-> k.p, step |-> k.n + 1]
  OBVIOUS
<1>6. new.p = k.p /\ writes' = writes \cup {new}
  BY <1>1, <1>5, Faultless DEF ApplyStep
<1>7. {w.p : w \in writes'} = {w.p : w \in writes} \cup {k.p}
  BY <1>6
<1>8. CASE k.n = 0
  <2>1. \A w \in writes : w.id # k.id
    BY <1>1, <1>8 DEF AttemptInv, Committed, IInv, TypeOK, GraphTypeOK
  <2>2. \A w \in writes : w.p # k.p
    BY <1>1, <1>4, <2>1 DEF SerialAt, AppliedSerial
  <2>3. Lifecycle!Apply(k.p)
    BY <1>2, <1>3, <1>4, <1>7, <2>2 DEF Lifecycle!Apply, StateOf
  <2>4. QED BY <1>3, <2>3 DEF Lifecycle!Next
<1>9. CASE k.n # 0
  <2>1. k.n \in Nat \ {0}
    BY <1>9, ConstantsAssumption DEF Task
  <2>2. [id |-> k.id, p |-> k.p, step |-> 1] \in writes
    BY <1>1, <2>1 DEF AttemptInv, Committed
  <2>3. {w.p : w \in writes'} = {w.p : w \in writes}
    BY <1>7, <2>2
  <2>4. QED BY <1>2, <2>3 DEF Lifecycle!vars, StateOf
<1>10. QED BY <1>8, <1>9

LEMMA DeleteMaps ==
  ASSUME IInv, Serial, SerialInv, NEW t \in Slots, DeleteStored(t)
  PROVE  Lifecycle!Next
<1>1. PICK k \in Task : k = task[t] /\ TaskInv(k) /\ SerialAt(k)
  BY Before DEF SerialInv
<1>2. k.pc = "delete" /\ StateOf(s3[k.p]) \notin {"absent", "executed"}
  BY <1>1 DEF DeleteStored, At, SerialAt, IndexSerial
<1>3. k.p \in Proposals /\ ~Busy(k)
  BY <1>1, <1>2, WalkingTask DEF Walking, TaskInv, TaskShape
<1>4. s3' = [s3 EXCEPT ![k.p] = None] /\ writes' = writes
  BY <1>1, Faultless DEF DeleteStored, graph
<1>5. k.p \notin {w.p : w \in writes}
  BY <1>1, <1>2, <1>3 DEF SerialAt, AppliedSerial
<1>6. Lifecycle!Move(k.p, StateOf(s3[k.p]), "absent")
  BY <1>3, <1>4, PutMoves DEF StateOf
<1>7. Lifecycle!Archive(k.p)
  BY <1>2, <1>3, <1>4, <1>5, <1>6 DEF Lifecycle!Archive, Lifecycle!Move
<1>8. QED BY <1>3, <1>7 DEF Lifecycle!Next

LEMMA RestStutters ==
  ASSUME [Next]_vars
  PROVE  \/ UNCHANGED <<s3, writes>>
         \/ \E t \in Slots : CreatePut(t) \/ TransitionPut(t) \/ ApplyStep(t) \/ DeleteStored(t)
<1>1. CASE \E t \in Slots : Begin(t) \/ ReadStep(t) \/ CreateStep(t) \/ TransitionStep(t)
  BY <1>1 DEF Begin, ReadStep, GetCached, GetStored, Backfill, CreateStep, CreateExisting, CreateCache,
     IndexRead, IndexPut, TransitionStep, TransitionRefused, TransitionCache, store, graph
<1>2. CASE \E t \in Slots : GateStep(t)
  BY <1>2 DEF GateStep, ApproveAgain, ApproveRefused, ApproveHighRisk, ApproveLowRisk, RedeemToken,
     RecordApproval, DropToken, RestoreSeen, ExcludedRead, ExcludedPut, store, graph
<1>3. CASE \E t \in Slots : ExecutionStep(t)
  BY <1>3 DEF ExecutionStep, ExecuteRefused, ExecuteBuild, CheckApproval, CheckState, CheckSchema, Verify,
     AppendAudit, store, graph
<1>4. CASE \E t \in Slots : RemovalStep(t)
  BY <1>4 DEF RemovalStep, ClearExcluded, ListIndex, ArchiveCopy, EvictCached, Manifest, RebuildIndex,
     ArchiveRead, ClearNext, store, graph
<1>5. CASE ExpireToken \/ LockSchema \/ Crash \/ UNCHANGED vars
  BY <1>5 DEF ExpireToken, LockSchema, Crash, vars, store, graph
<1>6. QED BY <1>1, <1>2, <1>3, <1>4, <1>5 DEF Next, SlotStep

LEMMA InitMaps == ASSUME Init PROVE Lifecycle!Init
<1>1. \A p \in Proposals : StateOf(s3[p]) \in {"absent", "pending"}
  BY DEF Init, StateOf
<1>2. writes = {}
  BY DEF Init
<1>3. QED BY <1>1, <1>2 DEF Lifecycle!Init

LEMMA NextMaps ==
  ASSUME IInv, HistoryInv, Serial, ~DryRun, SerialInv, [Next]_vars
  PROVE  [Lifecycle!Next]_Lifecycle!vars
<1>1. CASE UNCHANGED <<s3, writes>>
  BY <1>1 DEF Lifecycle!vars, StateOf
<1>2. QED BY <1>1, RestStutters, CreateMaps, TransitionMaps, ApplyMaps, DeleteMaps

\* Such a run, seen through S3 and the graph, is a behaviour of ProposalLifecycle:
\* a diff reaches the graph once and only while its proposal is approved, executed
\* means applied, and an archive takes no proposal that reached the graph.
THEOREM LifecycleImplemented ==
  ASSUME Serial, ~DryRun
  PROVE  Spec => ImplementsLifecycle
<1>1. Init => Lifecycle!Init
  BY InitMaps
<1>2. IInv /\ HistoryInv /\ (Serial => SerialInv) /\ [Next]_vars => [Lifecycle!Next]_Lifecycle!vars
  BY NextMaps
<1>3. QED
  BY Invariance, HistoryInvariance, SerialInvariance, <1>1, <1>2, PTL
     DEF Spec, ImplementsLifecycle, Lifecycle!Spec
=============================================================================
