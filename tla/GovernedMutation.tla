-------------------------- MODULE GovernedMutation --------------------------
(* The governed mutation pipeline of one run: proposal store, approval gate  *)
(* and Agent-C.                                                              *)
(*                                                                           *)
(* A request is handled by a coroutine of the API process.  Every await on   *)
(* Redis, S3 or Neo4j lets the other requests in, so a request is a slot     *)
(* with a program counter and one action per await.  S3 is the durable store *)
(* of proposals, Redis the cache that is read first, and the only home of    *)
(* the index, the approvals, the confirmation tokens, the excluded ids and   *)
(* the locked schema.                                                        *)
(*                                                                           *)
(* A Redis call that fails is swallowed by CacheClient: a read answers       *)
(* "missing", a write or delete is lost.  A failed S3 or Neo4j call raises.  *)
(* Both are counted against MaxFaults.                                       *)
EXTENDS ProposalStates, Naturals, FiniteSets

CONSTANTS
    Proposals,      \* proposal ids of the run
    Actors,         \* human operators
    Slots,          \* requests the API process handles at the same time
    HighRisk,       \* proposals of class merge or delete
    Candidates,     \* curation candidates of the run
    CandidateOf,    \* the candidate a proposal is about
    Preloaded,      \* proposals already created by the agent pipeline
    Versions,       \* schema version hashes
    NSteps,         \* DiffSteps in the DiffPlan of a proposal
    DryRun,         \* the DRY_RUN setting
    Ops,            \* what happens: the request kinds clients send, and "crash"
    MaxRequests,    \* bound: requests sent
    MaxFaults,      \* bound: failed I/O calls, crashes and lost schema locks
    None            \* a missing value

Packets == [state : States, version : Versions]

ASSUME ConstantsAssumption ==
    /\ HighRisk \subseteq Proposals
    /\ Preloaded \subseteq Proposals
    /\ CandidateOf \in [Proposals -> Candidates]
    /\ Versions # {}
    /\ None \notin Versions \cup Proposals \cup Actors
    /\ \A v \in Packets \cup SUBSET Candidates : v # None
    /\ NSteps \in Nat \ {0}
    /\ DryRun \in BOOLEAN
    /\ MaxRequests \in Nat
    /\ MaxFaults \in Nat

VARIABLES
    s3,         \* durable packet of each proposal
    redis,      \* cached packet of each proposal
    index,      \* per-run proposal index (Redis only)
    approvals,  \* approval records (Redis only)
    tokens,     \* live confirmation tokens (Redis only)
    excluded,   \* excluded candidate ids (Redis only); None: no such key
    archive,    \* packets copied to an archive prefix
    schema,     \* version hash of the locked schema; None: not locked
    writes,     \* diff steps Neo4j has committed
    audit,      \* audit records in S3
    task,       \* what each slot is doing
    started,    \* requests sent so far
    faults,     \* faults so far
    challenged, \* history: proposals a confirmation token was stored for
    issued,     \* history: approval ids handed to a client
    durable     \* history: packets S3 has held under a proposal's own key

store == <<s3, redis, index, archive, durable>>
gate  == <<approvals, tokens, challenged, issued>>
graph == <<writes, audit>>
vars  == <<store, gate, graph, excluded, schema, task, started, faults>>

\* The lifecycle state of a packet that may be missing.
StateOf(pkt) == IF pkt = None THEN "absent" ELSE pkt.state

Credentials == Proposals \X Actors

\* The requests that remove proposals.
Removals == {"archive", "clear", "clear_candidates"}

(***************************************************************************)
(* Requests.  A confirmation token and an approval id are hashes of a      *)
(* proposal and an actor, so <<p, a>> stands for either.                   *)
(***************************************************************************)
Requests ==
    [op : {"create", "reject", "defer", "exclude", "restore"},
     p : Proposals, a : {None}, cred : {None}]
    \cup [op : {"approve"}, p : Proposals, a : Actors, cred : {None}]
    \cup [op : {"orphan"}, p : HighRisk, a : Actors, cred : {None}]
    \cup [op : {"confirm"}, p : Proposals, a : Actors, cred : Credentials]
    \cup [op : {"execute"}, p : Proposals, a : {None}, cred : Credentials]
    \cup [op : Removals, p : {None}, a : {None}, cred : {None}]

OpNames == {"create", "orphan", "approve", "confirm", "reject", "defer", "exclude",
            "restore", "execute"} \cup Removals

\* The first await of a handler, by request kind.
Entry(op) ==
    IF op = "confirm" THEN "token"
    ELSE IF op = "clear_candidates" THEN "unexclude"
    ELSE IF op \in {"archive", "clear"} THEN "list" ELSE "get"

\* Where the handler resumes once its first get_for_run has returned.
FirstResume(op) ==
    IF op \in {"create", "orphan"} THEN "create"
    ELSE IF op \in {"reject", "defer", "exclude"} THEN "transition"
    ELSE IF op \in {"approve", "restore", "execute"} THEN op ELSE "idle"

\* The target of the transition a review request asks for.
ReviewTarget(op) ==
    IF op = "reject" THEN "rejected"
    ELSE IF op = "defer" THEN "deferred"
    ELSE IF op = "exclude" THEN "excluded" ELSE "pending"

Labels == {"idle", "get", "getS3", "fill", "create", "cacheNew", "indexRead",
           "indexPut", "approve", "token", "transition", "cacheState",
           "record", "dropToken", "restore", "exclRead", "exclPut", "execute",
           "approval", "validate", "schema", "apply", "verify", "audit",
           "unexclude", "list", "next", "copy", "delete", "evict", "reindex"}

Outcomes == {"applied", "failed", "rejected"}

Idle ==
    [op |-> "none", p |-> None, a |-> None, cred |-> None, id |-> 0,
     pc |-> "idle", resume |-> "idle", target |-> "pending", pkt |-> None,
     version |-> None, found |-> FALSE, set |-> {}, kept |-> {},
     n |-> 0, outcome |-> "applied"]

NewTask(r, id, v) ==
    [op |-> r.op, p |-> r.p, a |-> r.a, cred |-> r.cred, id |-> id,
     pc |-> Entry(r.op), resume |-> FirstResume(r.op),
     target |-> ReviewTarget(r.op), pkt |-> None,
     version |-> v, found |-> FALSE, set |-> {}, kept |-> {},
     n |-> 0, outcome |-> "applied"]

(***************************************************************************)
(* Moving a slot along its handler.                                        *)
(***************************************************************************)
At(t, label) == task[t].pc = label
Becomes(t, k) == task' = [task EXCEPT ![t] = k]
Goto(t, label) == Becomes(t, [task[t] EXCEPT !.pc = label])
Finish(t) == Becomes(t, Idle)

\* Call get_for_run and resume at label.
Fetch(t, label) ==
    Becomes(t, [task[t] EXCEPT !.pc = "get", !.resume = label])

\* get_for_run returns pkt.
Return(t, pkt) ==
    Becomes(t, [task[t] EXCEPT !.pc = task[t].resume, !.pkt = pkt])

\* Call ProposalService.transition, which starts by reading the proposal.
CallTransition(t, target) ==
    Becomes(t, [task[t] EXCEPT !.pc = "get", !.resume = "transition",
                         !.target = target])

\* PUT a packet under the proposal's S3 key.
Store(p, pkt) ==
    /\ s3' = [s3 EXCEPT ![p] = pkt]
    /\ durable' = durable \cup {[p |-> p, pkt |-> pkt]}

Works == faults' = faults
Fails == faults < MaxFaults /\ faults' = faults + 1

(***************************************************************************)
(* A request arrives.  propose and delete-all read the locked schema first *)
(* and refuse without one; the packet they build carries its version.      *)
(***************************************************************************)
Begin(t) ==
    /\ At(t, "idle")
    /\ started < MaxRequests
    /\ \E r \in Requests :
        /\ r.op \in Ops
        /\ r.op \in {"create", "orphan"} => schema # None
        /\ Becomes(t, NewTask(r, started + 1,
                      IF r.op \in {"create", "orphan"} THEN schema ELSE None))
    /\ started' = started + 1
    /\ UNCHANGED <<store, gate, graph, excluded, schema, faults>>

(***************************************************************************)
(* ProposalService.get_for_run: Redis first, then S3, then backfill Redis. *)
(***************************************************************************)
GetCached(t) ==
    /\ At(t, "get")
    /\ \/ /\ redis[task[t].p] # None
          /\ Works
          /\ Return(t, redis[task[t].p])
       \/ /\ redis[task[t].p] = None
          /\ Works
          /\ Goto(t, "getS3")
       \/ Fails /\ Goto(t, "getS3")
    /\ UNCHANGED <<store, gate, graph, excluded, schema, started>>

\* A failed S3 read raises.  Only restore's first read catches it; in every
\* other place it ends the request (or is ignored by its last step).
GetStored(t) ==
    /\ At(t, "getS3")
    /\ \/ /\ s3[task[t].p] = None
          /\ Works
          /\ Return(t, None)
       \/ /\ s3[task[t].p] # None
          /\ Works
          /\ Becomes(t, [task[t] EXCEPT !.pc = "fill", !.pkt = s3[task[t].p]])
       \/ /\ Fails
          /\ IF task[t].resume = "restore" THEN Return(t, None) ELSE Finish(t)
    /\ UNCHANGED <<store, gate, graph, excluded, schema, started>>

Backfill(t) ==
    /\ At(t, "fill")
    /\ \/ Works /\ redis' = [redis EXCEPT ![task[t].p] = task[t].pkt]
       \/ Fails /\ redis' = redis
    /\ Goto(t, task[t].resume)
    /\ UNCHANGED <<s3, index, archive, durable, gate, graph, excluded, schema, started>>

(***************************************************************************)
(* ProposalService.create: an existing proposal is returned as it is;      *)
(* otherwise S3, Redis and the index are written in that order.            *)
(***************************************************************************)
\* What follows create: the bulk orphan deletion approves the proposal.
AfterCreate(t) ==
    IF task[t].op = "orphan" THEN CallTransition(t, "approved") ELSE Finish(t)

CreateExisting(t) ==
    /\ At(t, "create")
    /\ task[t].pkt # None
    /\ AfterCreate(t)
    /\ UNCHANGED <<store, gate, graph, excluded, schema, started, faults>>

NewPacket(t) == [state |-> "pending", version |-> task[t].version]

CreatePut(t) ==
    /\ At(t, "create")
    /\ task[t].pkt = None
    /\ \/ /\ Works
          /\ Store(task[t].p, NewPacket(t))
          /\ Goto(t, "cacheNew")
       \/ Fails /\ UNCHANGED <<s3, durable>> /\ Finish(t)
    /\ UNCHANGED <<redis, index, archive, gate, graph, excluded, schema, started>>

CreateCache(t) ==
    /\ At(t, "cacheNew")
    /\ \/ Works /\ redis' = [redis EXCEPT ![task[t].p] = NewPacket(t)]
       \/ Fails /\ redis' = redis
    /\ Goto(t, "indexRead")
    /\ UNCHANGED <<s3, index, archive, durable, gate, graph, excluded, schema, started>>

\* _add_to_index reads the index ...
IndexRead(t) ==
    /\ At(t, "indexRead")
    /\ \/ Works /\ task[t].p \in index /\ AfterCreate(t)
       \/ /\ Works
          /\ task[t].p \notin index
          /\ Becomes(t, [task[t] EXCEPT !.pc = "indexPut", !.set = index])
       \/ /\ Fails
          /\ Becomes(t, [task[t] EXCEPT !.pc = "indexPut", !.set = {}])
    /\ UNCHANGED <<store, gate, graph, excluded, schema, started>>

\* ... and writes back what it read with the new id appended.
IndexStartedOver(t) == {task[t].p}
IndexExtended(t) == task[t].set \cup {task[t].p}

IndexPut(t) ==
    /\ At(t, "indexPut")
    /\ \/ Works /\ index' = IndexExtended(t)
       \/ Fails /\ index' = index
    /\ AfterCreate(t)
    /\ UNCHANGED <<s3, redis, archive, durable, gate, graph, excluded, schema, started>>

(***************************************************************************)
(* ProposalService.transition: check the packet that was read, overwrite   *)
(* the S3 object, then the cache.                                          *)
(***************************************************************************)
AnyTransition(t) == task[t].pkt # None
Permitted(t) == CanTransition(StateOf(task[t].pkt), task[t].target)

TransitionRefused(t) ==
    /\ At(t, "transition")
    /\ ~Permitted(t)
    /\ Finish(t)
    /\ UNCHANGED <<store, gate, graph, excluded, schema, started, faults>>

PacketRebuilt(t) == [state |-> task[t].target, version |-> task[t].version]
MovedPacket(t) == [state |-> task[t].target, version |-> task[t].pkt.version]

\* A failed PUT raises before the cache is touched.
PutFailureIgnored(t) ==
    Becomes(t, [task[t] EXCEPT !.pc = "cacheState", !.pkt = MovedPacket(t)])
PutFailureRaised(t) == Finish(t)

TransitionPut(t) ==
    /\ At(t, "transition")
    /\ Permitted(t)
    /\ \/ /\ Works
          /\ Store(task[t].p, MovedPacket(t))
          /\ Becomes(t, [task[t] EXCEPT !.pc = "cacheState", !.pkt = MovedPacket(t)])
       \/ Fails /\ UNCHANGED <<s3, durable>> /\ PutFailureRaised(t)
    /\ UNCHANGED <<redis, index, archive, gate, graph, excluded, schema, started>>

\* What a handler does once its transition has returned.
AfterTransition(t) ==
    \/ task[t].target = "approved" /\ Goto(t, "record")
    \/ task[t].target = "excluded" /\ Fetch(t, "exclRead")
    \/ task[t].target = "pending" /\ task[t].found /\ Goto(t, "exclRead")
    \/ task[t].target = "pending" /\ ~task[t].found /\ Finish(t)
    \/ task[t].target \in {"rejected", "deferred", "executed"} /\ Finish(t)

TransitionCache(t) ==
    /\ At(t, "cacheState")
    /\ \/ Works /\ redis' = [redis EXCEPT ![task[t].p] = task[t].pkt]
       \/ Fails /\ redis' = redis
    /\ AfterTransition(t)
    /\ UNCHANGED <<s3, index, archive, durable, gate, graph, excluded, schema, started>>

(***************************************************************************)
(* The approval gate.  Phase 1 approves a low-risk proposal, and answers a *)
(* high-risk one with a confirmation token; phase 2 redeems the token.     *)
(***************************************************************************)
Key(t) == <<task[t].p, task[t].a>>
Approvable(t) == CanTransition(StateOf(task[t].pkt), "approved")

\* An approved proposal: the derived approval id is returned, nothing is written.
ApproveAgain(t) ==
    /\ At(t, "approve")
    /\ StateOf(task[t].pkt) = "approved"
    /\ issued' = issued \cup {Key(t)}
    /\ Finish(t)
    /\ UNCHANGED <<store, approvals, tokens, challenged, graph, excluded,
                   schema, started, faults>>

ApproveRefused(t) ==
    /\ At(t, "approve")
    /\ StateOf(task[t].pkt) # "approved"
    /\ ~Approvable(t)
    /\ Finish(t)
    /\ UNCHANGED <<store, gate, graph, excluded, schema, started, faults>>

ApproveHighRisk(t) ==
    /\ At(t, "approve")
    /\ Approvable(t)
    /\ task[t].p \in HighRisk
    /\ \/ /\ Works
          /\ tokens' = tokens \cup {Key(t)}
          /\ challenged' = challenged \cup {task[t].p}
       \/ Fails /\ UNCHANGED <<tokens, challenged>>
    /\ Finish(t)
    /\ UNCHANGED <<store, approvals, issued, graph, excluded, schema, started>>

ApproveLowRisk(t) ==
    /\ At(t, "approve")
    /\ Approvable(t)
    /\ task[t].p \notin HighRisk
    /\ CallTransition(t, "approved")
    /\ UNCHANGED <<store, gate, graph, excluded, schema, started, faults>>

\* Phase 2.  The token must be live and must have been issued for this proposal;
\* the actor who presents it need not be the one it was issued to.
AnyToken(t) == task[t].cred \in tokens
TokenAccepted(t) == task[t].cred \in tokens /\ task[t].cred[1] = task[t].p

RedeemToken(t) ==
    /\ At(t, "token")
    /\ \/ Works /\ TokenAccepted(t) /\ CallTransition(t, "approved")
       \/ Works /\ ~TokenAccepted(t) /\ Finish(t)
       \/ Fails /\ Finish(t)
    /\ UNCHANGED <<store, gate, graph, excluded, schema, started>>

\* The ApprovalRecord, one per key: a later write replaces an earlier one.
OnlyApproval(key, confirmed) == {[key |-> key, confirmed |-> confirmed]}
ApprovalsWith(key, confirmed) ==
    {r \in approvals : r.key # key} \cup {[key |-> key, confirmed |-> confirmed]}

RecordApproval(t) ==
    /\ At(t, "record")
    /\ \/ Works /\ approvals' = ApprovalsWith(Key(t), task[t].op # "approve")
       \/ Fails /\ approvals' = approvals
    /\ \/ /\ task[t].op = "approve"
          /\ issued' = issued \cup {Key(t)}
          /\ Finish(t)
       \/ task[t].op = "confirm" /\ issued' = issued /\ Goto(t, "dropToken")
       \/ /\ task[t].op = "orphan"
          /\ issued' = issued
          /\ Becomes(t, [task[t] EXCEPT !.pc = "approval", !.cred = Key(t)])
    /\ UNCHANGED <<store, tokens, challenged, graph, excluded, schema, started>>

DropToken(t) ==
    /\ At(t, "dropToken")
    /\ \/ Works /\ tokens' = tokens \ {task[t].cred}
       \/ Fails /\ tokens' = tokens
    /\ issued' = issued \cup {Key(t)}
    /\ Finish(t)
    /\ UNCHANGED <<store, approvals, challenged, graph, excluded, schema, started>>

\* Tokens live for an hour.
ExpireToken ==
    /\ \E key \in tokens : tokens' = tokens \ {key}
    /\ UNCHANGED <<store, approvals, challenged, issued, graph, excluded, schema,
                   task, started, faults>>

(***************************************************************************)
(* Exclude and restore: after the transition the candidate id is added to  *)
(* or removed from the excluded ids, by reading and rewriting the list.    *)
(***************************************************************************)
\* restore reads the proposal once before the transition, to learn the
\* candidate id it will remove.
RestoreSeen(t) ==
    /\ At(t, "restore")
    /\ Becomes(t, [task[t] EXCEPT !.pc = "get", !.resume = "transition",
                            !.found = task[t].pkt # None])
    /\ UNCHANGED <<store, gate, graph, excluded, schema, started, faults>>

Rewrite(t, ids) == Becomes(t, [task[t] EXCEPT !.pc = "exclPut", !.set = ids])

ExcludedRead(t) ==
    /\ At(t, "exclRead")
    /\ \/ Works /\ task[t].pkt = None /\ Finish(t)
       \/ Works /\ task[t].pkt # None /\ excluded # None /\ Rewrite(t, excluded)
       \/ /\ task[t].pkt # None
          /\ (excluded = None /\ Works) \/ Fails
          /\ IF task[t].op = "restore" THEN Finish(t) ELSE Rewrite(t, {})
    /\ UNCHANGED <<store, gate, graph, excluded, schema, started>>

ExcludedReplaced(t) ==
    IF task[t].op = "exclude" THEN {CandidateOf[task[t].p]}
                              ELSE task[t].set \ {CandidateOf[task[t].p]}
ExcludedUpdated(t) ==
    IF task[t].op = "exclude" THEN task[t].set \cup {CandidateOf[task[t].p]}
                              ELSE task[t].set \ {CandidateOf[task[t].p]}

ExcludedPut(t) ==
    /\ At(t, "exclPut")
    /\ \/ Works /\ excluded' = ExcludedUpdated(t)
       \/ Fails /\ excluded' = excluded
    /\ Finish(t)
    /\ UNCHANGED <<store, gate, graph, schema, started>>

(***************************************************************************)
(* Execution.  The router refuses a proposal it did not read as approved   *)
(* and builds the diff from the packet it read; Agent-C then validates,    *)
(* applies the steps one transaction each, verifies and writes the audit.  *)
(***************************************************************************)
ExecuteRefused(t) ==
    /\ At(t, "execute")
    /\ StateOf(task[t].pkt) # "approved"
    /\ Finish(t)
    /\ UNCHANGED <<store, gate, graph, excluded, schema, started, faults>>

ExecuteBuild(t) ==
    /\ At(t, "execute")
    /\ StateOf(task[t].pkt) = "approved"
    /\ Becomes(t, [task[t] EXCEPT !.pc = "approval",
                            !.version = task[t].pkt.version])
    /\ UNCHANGED <<store, gate, graph, excluded, schema, started, faults>>

\* End the attempt with this outcome: only the audit record is left to write.
Conclude(t, outcome) ==
    Becomes(t, [task[t] EXCEPT !.pc = "audit", !.outcome = outcome])

ApprovalUnchecked(t) == task[t].cred[1] = task[t].p
ApprovalValid(t) ==
    /\ task[t].cred \in {r.key : r \in approvals}
    /\ task[t].cred[1] = task[t].p

CheckApproval(t) ==
    /\ At(t, "approval")
    /\ \/ Works /\ ApprovalValid(t) /\ Fetch(t, "validate")
       \/ Works /\ ~ApprovalValid(t) /\ Conclude(t, "rejected")
       \/ Fails /\ Conclude(t, "rejected")
    /\ UNCHANGED <<store, gate, graph, excluded, schema, started>>

CheckState(t) ==
    /\ At(t, "validate")
    /\ IF StateOf(task[t].pkt) = "approved"
       THEN Goto(t, "schema") ELSE Conclude(t, "rejected")
    /\ UNCHANGED <<store, gate, graph, excluded, schema, started, faults>>

\* Under DRY_RUN the attempt ends here, recorded as applied with no step.
CheckSchema(t) ==
    /\ At(t, "schema")
    /\ \/ /\ Works
          /\ schema = task[t].version
          /\ IF DryRun THEN Conclude(t, "applied") ELSE Goto(t, "apply")
       \/ Works /\ schema # task[t].version /\ Conclude(t, "rejected")
       \/ Fails /\ Conclude(t, "rejected")
    /\ UNCHANGED <<store, gate, graph, excluded, schema, started>>

\* The next step commits, or fails and ends the loop.
ApplyStep(t) ==
    /\ At(t, "apply")
    /\ task[t].n < NSteps
    /\ \/ /\ Works
          /\ writes' = writes \cup
                {[id |-> task[t].id, p |-> task[t].p, step |-> task[t].n + 1]}
          /\ Becomes(t, [task[t] EXCEPT !.n = task[t].n + 1,
                !.pc = IF task[t].n + 1 = NSteps THEN "verify" ELSE "apply"])
       \/ Fails /\ writes' = writes /\ Conclude(t, "failed")
    /\ UNCHANGED <<store, gate, audit, excluded, schema, started>>

\* The post-apply invariants hold, are found violated, or cannot be read: a
\* failed read is not caught and the attempt ends without an audit record.
VerifyUnrecorded(t) ==
    /\ At(t, "verify")
    /\ \/ Works /\ CallTransition(t, "executed")
       \/ Fails /\ Conclude(t, "failed")
       \/ Fails /\ Finish(t)
    /\ UNCHANGED <<store, gate, graph, excluded, schema, started>>
Verify(t) ==
    /\ At(t, "verify")
    /\ \/ Works /\ Conclude(t, "applied")
       \/ Fails /\ Conclude(t, "failed")
       \/ Fails /\ Finish(t)
    /\ UNCHANGED <<store, gate, graph, excluded, schema, started>>

RecordFailureAsUntouched(t) ==
    [id |-> task[t].id, p |-> task[t].p, cred |-> task[t].cred,
     outcome |-> task[t].outcome,
     steps |-> IF task[t].outcome = "failed" THEN 0 ELSE task[t].n]
Record(t) ==
    [id |-> task[t].id, p |-> task[t].p, cred |-> task[t].cred,
     outcome |-> task[t].outcome, steps |-> task[t].n]

\* After an applied attempt the router marks the proposal executed.
NeverMarkExecuted(t) == Finish(t)
MarkFailedToo(t) ==
    IF task[t].outcome # "rejected" THEN CallTransition(t, "executed") ELSE Finish(t)
AfterAudit(t) ==
    IF task[t].outcome = "applied" THEN CallTransition(t, "executed") ELSE Finish(t)

\* AuditWriter.append raises when S3 fails.
AppendAudit(t) ==
    /\ At(t, "audit")
    /\ \/ /\ Works
          /\ audit' = audit \cup {Record(t)}
          /\ AfterAudit(t)
       \/ Fails /\ audit' = audit /\ Finish(t)
    /\ UNCHANGED <<store, gate, writes, excluded, schema, started>>

(***************************************************************************)
(* archive_for_run (before a pipeline rerun) and clear_for_run: walk the   *)
(* ids the index held when the request read it.                            *)
(***************************************************************************)
\* DELETE /candidates removes the excluded ids before it clears the proposals.
ClearExcluded(t) ==
    /\ At(t, "unexclude")
    /\ \/ Works /\ excluded' = None
       \/ Fails /\ excluded' = excluded
    /\ Goto(t, "list")
    /\ UNCHANGED <<store, gate, graph, schema, started>>

ListIndex(t) ==
    /\ At(t, "list")
    /\ \/ /\ Works
          /\ index # {}
          /\ Becomes(t, [task[t] EXCEPT !.pc = "next", !.set = index])
       \/ Works /\ index = {} /\ Finish(t)
       \/ Fails /\ Finish(t)
    /\ UNCHANGED <<store, gate, graph, excluded, schema, started>>

\* archive: read the next original.  A missing one is skipped, an executed one
\* is retained.
ArchiveRead(t, p) ==
    /\ At(t, "next")
    /\ task[t].op = "archive"
    /\ p \in task[t].set
    /\ \/ /\ Works
          /\ s3[p] = None
          /\ Becomes(t, [task[t] EXCEPT !.set = task[t].set \ {p}])
       \/ /\ Works
          /\ StateOf(s3[p]) = "executed"
          /\ Becomes(t, [task[t] EXCEPT !.set = task[t].set \ {p},
                                  !.kept = task[t].kept \cup {p}])
       \/ /\ Works
          /\ StateOf(s3[p]) \notin {"absent", "executed"}
          /\ Becomes(t, [task[t] EXCEPT !.pc = "copy", !.p = p, !.pkt = s3[p]])
       \/ Fails /\ Finish(t)
    /\ UNCHANGED <<store, gate, graph, excluded, schema, started>>

ArchiveCopy(t) ==
    /\ At(t, "copy")
    /\ \/ /\ Works
          /\ archive' = archive \cup {[p |-> task[t].p, pkt |-> task[t].pkt]}
          /\ Goto(t, "delete")
       \/ Fails /\ archive' = archive /\ Finish(t)
    /\ UNCHANGED <<s3, redis, index, durable, gate, graph, excluded, schema, started>>

\* clear deletes without a look at the packet.
ClearNext(t, p) ==
    /\ At(t, "next")
    /\ task[t].op \in {"clear", "clear_candidates"}
    /\ p \in task[t].set
    /\ Becomes(t, [task[t] EXCEPT !.pc = "delete", !.p = p])
    /\ UNCHANGED <<store, gate, graph, excluded, schema, started, faults>>

DeleteKeepingCache(t) ==
    /\ At(t, "delete")
    /\ Works
    /\ s3' = [s3 EXCEPT ![task[t].p] = None]
    /\ Becomes(t, [task[t] EXCEPT !.pc = "next", !.p = None, !.pkt = None,
                            !.set = task[t].set \ {task[t].p}])
    /\ UNCHANGED <<redis, index, archive, durable, gate, graph, excluded, schema, started>>

\* Both swallow a failed S3 delete ...
DeleteStored(t) ==
    /\ At(t, "delete")
    /\ \/ Works /\ s3' = [s3 EXCEPT ![task[t].p] = None]
       \/ Fails /\ s3' = s3
    /\ Goto(t, "evict")
    /\ UNCHANGED <<redis, index, archive, durable, gate, graph, excluded, schema, started>>

\* ... and a failed Redis delete.
EvictCached(t) ==
    /\ At(t, "evict")
    /\ \/ Works /\ redis' = [redis EXCEPT ![task[t].p] = None]
       \/ Fails /\ redis' = redis
    /\ Becomes(t, [task[t] EXCEPT !.pc = "next", !.p = None, !.pkt = None,
                            !.set = task[t].set \ {task[t].p}])
    /\ UNCHANGED <<s3, index, archive, durable, gate, graph, excluded, schema, started>>

\* The manifest of the archive, whose S3 failure ends the request.
Manifest(t) ==
    /\ At(t, "next")
    /\ task[t].op = "archive"
    /\ task[t].set = {}
    /\ \/ Works /\ Goto(t, "reindex")
       \/ Fails /\ Finish(t)
    /\ UNCHANGED <<store, gate, graph, excluded, schema, started>>

\* archive leaves the retained ids in the index, clear removes it.
RebuildIndex(t) ==
    /\ \/ At(t, "reindex")
       \/ /\ At(t, "next")
          /\ task[t].op \in {"clear", "clear_candidates"}
          /\ task[t].set = {}
    /\ \/ Works /\ index' = task[t].kept
       \/ Fails /\ index' = index
    /\ Finish(t)
    /\ UNCHANGED <<s3, redis, archive, durable, gate, graph, excluded, schema, started>>

(***************************************************************************)
(* The rest of the run.                                                    *)
(***************************************************************************)
\* SchemaService.approve refuses a locked run; a failed read of the lock
\* answers "not locked" and the lock is overwritten.
LockSchema ==
    /\ \/ schema = None /\ Works
       \/ schema # None /\ Fails
    /\ \E v \in Versions : schema' = v
    /\ UNCHANGED <<store, gate, graph, excluded, task, started>>

\* The API process dies: the requests in flight are gone, the stores remain.
Crash ==
    /\ "crash" \in Ops
    /\ Fails
    /\ \E t \in Slots : ~At(t, "idle")
    /\ task' = [t \in Slots |-> Idle]
    /\ UNCHANGED <<store, gate, graph, excluded, schema, started>>

\* The agent pipeline proposes only under a locked schema.
Init ==
    /\ schema \in Versions \cup {None}
    /\ schema = None => Preloaded = {}
    /\ s3 = [p \in Proposals |-> IF p \in Preloaded
                THEN [state |-> "pending", version |-> schema] ELSE None]
    /\ redis = s3
    /\ index = Preloaded
    /\ durable = {[p |-> p, pkt |-> s3[p]] : p \in Preloaded}
    /\ archive = {}
    /\ approvals = {} /\ tokens = {} /\ challenged = {} /\ issued = {}
    /\ writes = {} /\ audit = {}
    /\ excluded = None
    /\ task = [t \in Slots |-> Idle]
    /\ started = 0
    /\ faults = 0

ReadStep(t) == GetCached(t) \/ GetStored(t) \/ Backfill(t)

CreateStep(t) ==
    CreateExisting(t) \/ CreatePut(t) \/ CreateCache(t) \/ IndexRead(t) \/ IndexPut(t)

TransitionStep(t) == TransitionRefused(t) \/ TransitionPut(t) \/ TransitionCache(t)

GateStep(t) ==
    \/ ApproveAgain(t) \/ ApproveRefused(t) \/ ApproveHighRisk(t) \/ ApproveLowRisk(t)
    \/ RedeemToken(t) \/ RecordApproval(t) \/ DropToken(t)
    \/ RestoreSeen(t) \/ ExcludedRead(t) \/ ExcludedPut(t)

ExecutionStep(t) ==
    \/ ExecuteRefused(t) \/ ExecuteBuild(t) \/ CheckApproval(t) \/ CheckState(t)
    \/ CheckSchema(t) \/ ApplyStep(t) \/ Verify(t) \/ AppendAudit(t)

RemovalStep(t) ==
    \/ ClearExcluded(t) \/ ListIndex(t) \/ ArchiveCopy(t) \/ DeleteStored(t) \/ EvictCached(t)
    \/ Manifest(t) \/ RebuildIndex(t)
    \/ \E p \in Proposals : ArchiveRead(t, p) \/ ClearNext(t, p)

SlotStep(t) ==
    \/ Begin(t) \/ ReadStep(t) \/ CreateStep(t) \/ TransitionStep(t)
    \/ GateStep(t) \/ ExecutionStep(t) \/ RemovalStep(t)

Next ==
    \/ \E t \in Slots : SlotStep(t)
    \/ ExpireToken \/ LockSchema \/ Crash

Spec == Init /\ [][Next]_vars

(***************************************************************************)
(* Properties.                                                             *)
(***************************************************************************)
Task ==
    [op : OpNames \cup {"none"}, p : Proposals \cup {None},
     a : Actors \cup {None}, cred : Credentials \cup {None}, id : Nat,
     pc : Labels, resume : Labels, target : States, pkt : Packets \cup {None},
     version : Versions \cup {None}, found : BOOLEAN,
     set : SUBSET (Proposals \cup Candidates), kept : SUBSET Proposals,
     n : 0..NSteps, outcome : Outcomes]

StoreTypeOK ==
    /\ s3 \in [Proposals -> Packets \cup {None}]
    /\ redis \in [Proposals -> Packets \cup {None}]
    /\ index \subseteq Proposals
    /\ archive \subseteq [p : Proposals, pkt : Packets]
    /\ durable \subseteq [p : Proposals, pkt : Packets]

GateTypeOK ==
    /\ approvals \subseteq [key : Credentials, confirmed : BOOLEAN]
    /\ tokens \subseteq Credentials
    /\ challenged \subseteq Proposals
    /\ issued \subseteq Credentials

GraphTypeOK ==
    /\ writes \subseteq [id : Nat, p : Proposals, step : 1..NSteps]
    /\ audit \subseteq [id : Nat, p : Proposals, cred : Credentials,
                        outcome : Outcomes, steps : 0..NSteps]

\* Every variable holds a value of its type: the shape of the stores, of the
\* gate's records and of a handler's local state.
TypeOK ==
    /\ StoreTypeOK
    /\ GateTypeOK
    /\ GraphTypeOK
    /\ excluded \in (SUBSET Candidates) \cup {None}
    /\ schema \in Versions \cup {None}
    /\ task \in [Slots -> Task]
    /\ started \in 0..MaxRequests
    /\ faults \in 0..MaxFaults

\* Nothing reaches the graph without an approval record for its proposal, and
\* nothing of class merge or delete without one marked confirmed, whatever the
\* interleaving of requests, the Redis and S3 failures and the crashes.
MutationAuthorised ==
    \A w \in writes : \E r \in approvals :
        r.key[1] = w.p /\ (w.p \in HighRisk => r.confirmed)

\* A merge or delete reaches the graph only after a confirmation token was
\* stored for that very proposal: phase 1 came before phase 2.
TwoPhase == \A w \in writes : w.p \in HighRisk => w.p \in challenged

\* Redis and the archive hold only packets that S3 held first under the
\* proposal's own key: the cache is never ahead of the source of truth, even
\* when writes are lost or reads backfill late.
CacheNeverAhead ==
    /\ \A p \in Proposals : redis[p] # None => [p |-> p, pkt |-> redis[p]] \in durable
    /\ archive \subseteq durable

\* An audit record tells what its attempt did to the graph: it committed the
\* first `steps` steps and no other, all of them if applied, none if rejected;
\* and an attempt that was not rejected presented an approval of its proposal.
AuditTruthful ==
    \A r \in audit :
        /\ {w \in writes : w.id = r.id} =
              {[id |-> r.id, p |-> r.p, step |-> i] : i \in 1..r.steps}
        /\ r.outcome = "applied" => r.steps = IF DryRun THEN 0 ELSE NSteps
        /\ r.outcome = "rejected" => r.steps = 0
        /\ r.outcome # "rejected" => r.cred[1] = r.p

\* A proposal that S3 holds as executed has had all its steps committed by one
\* attempt that the audit log records as applied.
ExecutedMeansApplied ==
    \A p \in Proposals :
        StateOf(s3[p]) = "executed" =>
            \E r \in audit :
                /\ r.p = p
                /\ r.outcome = "applied"
                /\ \A i \in 1..NSteps : [id |-> r.id, p |-> p, step |-> i] \in writes

\* Every committed step belongs to an attempt that is still running or that the
\* audit log records.
EveryWriteAccounted ==
    \A w \in writes : \/ \E t \in Slots : task[t].id = w.id
                      \/ \E r \in audit : r.id = w.id

\* A proposal that is approved, or of which a client holds an approval id, has an
\* approval record to execute it with, or the request that approved it is about to
\* write one: nothing gets stuck.
ApprovedIsExecutable ==
    \A p \in Proposals :
        StateOf(s3[p]) = "approved" \/ (\E key \in issued : key[1] = p) =>
            \/ \E r \in approvals : r.key[1] = p
            \/ \E t \in Slots : task[t].p = p /\ task[t].pc \in {"cacheState", "record"}

AtRest == \A t \in Slots : At(t, "idle")

\* Between requests Redis serves what S3 holds, or nothing.
CacheAgreesAtRest ==
    AtRest => \A p \in Proposals : redis[p] \in {None, s3[p]}

\* Between requests the index lists the proposals S3 holds: neither the list
\* endpoint nor an archive misses one.
IndexCompleteAtRest ==
    AtRest => index = {p \in Proposals : s3[p] # None}

ExcludedIds == IF excluded = None THEN {} ELSE excluded
ExcludedProposals == {p \in Proposals : StateOf(s3[p]) = "excluded"}

\* Between requests the candidate of every excluded proposal is among the
\* excluded ids, so that candidate listings leave it out.
ExcludedIsFiltered ==
    AtRest => \A p \in ExcludedProposals : CandidateOf[p] \in ExcludedIds

\* The diff of a proposal is applied by one attempt only.
AppliedOnce == \A v, w \in writes : v.p = w.p => v.id = w.id

\* The state machine seen through S3 is the one of ProposalLifecycle.
Lifecycle == INSTANCE ProposalLifecycle WITH
    state <- [p \in Proposals |-> StateOf(s3[p])],
    applied <- {w.p : w \in writes}

\* The stores, requests and caches implement the abstract lifecycle.
ImplementsLifecycle == Lifecycle!Spec

(***************************************************************************)
(* The inductive invariant behind TypeOK, MutationAuthorised and           *)
(* CacheNeverAhead: which handler can be where, and what it knows there.   *)
(***************************************************************************)
Reading == {"get", "getS3", "fill"}

\* Where a handler is, or where it resumes when get_for_run returns.
Where(k) == IF k.pc \in Reading THEN k.resume ELSE k.pc

Resumptions == {"create", "approve", "transition", "exclRead", "restore",
                "execute", "validate"}
Creating    == {"create", "cacheNew", "indexRead", "indexPut"}
Moving      == {"transition", "cacheState"}
Executing   == {"approval", "validate", "schema", "apply", "verify", "audit"}

\* The places each kind of request can be at.
Placed(k) ==
    /\ k.op = "none" => Where(k) = "idle"
    /\ k.op = "create" => Where(k) \in Creating
    /\ k.op = "orphan" => Where(k) \in Creating \cup Moving \cup {"record"} \cup Executing
    /\ k.op = "approve" => Where(k) \in {"approve", "record"} \cup Moving
    /\ k.op = "confirm" => Where(k) \in {"token", "record", "dropToken"} \cup Moving
    /\ k.op \in {"reject", "defer"} => Where(k) \in Moving
    /\ k.op = "exclude" => Where(k) \in Moving \cup {"exclRead", "exclPut"}
    /\ k.op = "restore" => Where(k) \in Moving \cup {"restore", "exclRead", "exclPut"}
    /\ k.op = "execute" => Where(k) \in {"execute"} \cup Executing \cup Moving
    /\ k.op \in Removals =>
          Where(k) \in {"unexclude", "list", "next", "copy", "delete", "evict", "reindex"}

\* The transition a handler asks for.
Targeted(k) ==
    /\ k.op \in {"approve", "confirm"} => k.target = "approved"
    /\ k.op = "orphan" => k.target \in {"approved", "executed"}
    /\ k.op = "execute" => k.target = "executed"
    /\ k.op = "reject" => k.target = "rejected"
    /\ k.op = "defer" => k.target = "deferred"
    /\ k.op = "exclude" => k.target = "excluded"
    /\ k.op = "restore" => k.target = "pending"

TaskShape(k) ==
    /\ Placed(k)
    /\ k.pc \in Reading => k.resume \in Resumptions
    /\ k.op \notin {"none"} \cup Removals => k.p \in Proposals
    /\ k.pc \in {"copy", "delete", "evict"} => k.p \in Proposals
    /\ k.op \in {"approve", "confirm", "orphan"} => k.a \in Actors
    /\ k.op \in {"create", "orphan"} => k.version \in Versions
    /\ k.op \in {"confirm", "execute"} => k.cred \in Credentials
    /\ Where(k) \in Executing => k.cred \in Credentials
    /\ k.pc \in {"fill", "cacheState", "copy"} => k.pkt \in Packets
    /\ Where(k) \in Moving \cup {"record", "restore"} => Targeted(k)
    /\ k.pc = "record" => k.target = "approved"
    /\ k.pc \in {"indexPut", "next", "copy", "delete", "evict"} => k.set \subseteq Proposals
    /\ k.pc = "exclPut" => k.set \subseteq Candidates

\* The record that Agent-C found for the attempt is still there.
Authorised(k) == k.cred[1] = k.p /\ k.cred \in {r.key : r \in approvals}

\* What a handler knows about the gate.
TaskGate(k) ==
    /\ k.op = "approve" /\ Where(k) \in Moving \cup {"record"} => k.p \notin HighRisk
    /\ Where(k) \in {"validate", "schema", "apply", "verify"} => Authorised(k)
    /\ k.pc = "audit" /\ k.outcome # "rejected" => Authorised(k)

\* What a handler knows about the durable store.
Held(p, pkt) == [p |-> p, pkt |-> pkt] \in durable
TaskStore(k) ==
    /\ k.pc \in {"fill", "cacheState", "copy"} => Held(k.p, k.pkt)
    /\ k.pc = "cacheNew" => Held(k.p, [state |-> "pending", version |-> k.version])

TaskInv(k) == TaskShape(k) /\ TaskGate(k) /\ TaskStore(k)

GateInv == \A r \in approvals : r.key[1] \in HighRisk => r.confirmed
StoreInv == \A p \in Proposals : s3[p] # None => Held(p, s3[p])

IInv ==
    /\ TypeOK
    /\ GateInv
    /\ StoreInv
    /\ MutationAuthorised
    /\ CacheNeverAhead
    /\ \A t \in Slots : TaskInv(task[t])

(***************************************************************************)
(* The inductive invariant behind AuditTruthful and ExecutedMeansApplied:  *)
(* an attempt has an id of its own, and the steps it has committed and the *)
(* record it has written follow from where its handler is.                 *)
(***************************************************************************)
\* Attempt i has committed the first n steps of p and no other.
Committed(i, p, n) ==
    /\ \A w \in writes : w.id = i => w.p = p /\ w.step <= n
    /\ \A j \in 1..n : [id |-> i, p |-> p, step |-> j] \in writes

Whole == IF DryRun THEN 0 ELSE NSteps

\* The steps an attempt with this outcome may have committed.
Accounted(outcome, n) ==
    /\ outcome = "applied" => n = Whole
    /\ outcome = "rejected" => n = 0

\* The handler has written its audit record and marks the proposal executed.
Marking(k) == Where(k) \in Moving /\ k.target = "executed"

AttemptInv(k) ==
    /\ k.id <= started
    /\ k.op # "none" => k.id > 0
    /\ Committed(k.id, k.p, k.n)
    /\ k.n > 0 => Where(k) \in {"apply", "verify", "audit"} \/ Marking(k)
    /\ Where(k) \in {"apply", "verify"} => ~DryRun
    /\ Where(k) = "verify" => k.n = NSteps
    /\ Where(k) = "audit" => Accounted(k.outcome, k.n)
    /\ \A r \in audit : r.id = k.id => Marking(k)
    /\ Marking(k) => \E r \in audit : r.p = k.p /\ r.outcome = "applied"

OwnIds == \A s, t \in Slots : s # t /\ task[s].id = task[t].id => task[s].id = 0

LogInv ==
    /\ \A w \in writes : w.id \in 1..started
    /\ \A r \in audit :
        /\ r.id \in 1..started
        /\ Committed(r.id, r.p, r.steps)
        /\ Accounted(r.outcome, r.steps)
        /\ r.outcome # "rejected" => r.cred[1] = r.p

\* What S3 holds as executed, the audit log records as applied.
ExecutedIsRecorded ==
    \A p \in Proposals : StateOf(s3[p]) = "executed" =>
        \E r \in audit : r.p = p /\ r.outcome = "applied"

HistoryInv ==
    /\ OwnIds
    /\ LogInv
    /\ ExecutedIsRecorded
    /\ \A t \in Slots : AttemptInv(task[t])

(***************************************************************************)
(* The inductive invariant behind TwoPhase, for a run in which nobody      *)
(* deletes the orphans in bulk: that request approves and confirms on its  *)
(* own.                                                                    *)
(***************************************************************************)
PhaseInv ==
    /\ \A t \in Slots : task[t].op # "orphan"
    /\ \A key \in tokens : key[1] \in challenged
    /\ \A t \in Slots :
          task[t].op = "confirm" /\ task[t].pc # "token" => task[t].p \in challenged
    /\ \A r \in approvals : r.confirmed => r.key[1] \in challenged

(***************************************************************************)
(* The inductive invariant behind the properties at rest, AppliedOnce and  *)
(* ImplementsLifecycle, for requests that come one after the other, lose   *)
(* no call, and do not clear the run.                                      *)
(***************************************************************************)
Clears == {"clear", "clear_candidates"}

Serial ==
    /\ \E t \in Slots : Slots = {t}
    /\ MaxFaults = 0
    /\ Ops \cap Clears = {}

OneEach == \A p, q \in Proposals : CandidateOf[p] = CandidateOf[q] => p = q

Stored == {p \in Proposals : s3[p] # None}

\* What a handler has read is what S3 holds.
Knows(k) ==
    /\ k.pc \in {"fill", "create", "approve", "transition", "cacheState", "exclRead",
                 "restore", "execute", "validate"} => k.pkt = s3[k.p]
    /\ k.pc = "cacheNew" => s3[k.p] = [state |-> "pending", version |-> k.version]

\* The cache differs from S3 only between the two writes of the handler.
CacheSerial(k) ==
    \A p \in Proposals :
        redis[p] \in {None, s3[p]} \/ (p = k.p /\ k.pc \in {"cacheState", "evict"})

\* The index lacks at most the proposal that is being created, and an archive has
\* yet to go through, or has kept, all that S3 holds.
Indexing == {"cacheNew", "indexRead", "indexPut"}
Walking(k) == k.pc \in {"next", "copy", "delete", "evict", "reindex"}

IndexSerial(k) ==
    /\ k.pc \in Indexing => Stored = index \cup {k.p}
    /\ k.pc \notin Indexing /\ ~Walking(k) => index = Stored
    /\ k.pc = "indexPut" => k.set = index
    /\ Walking(k) =>
          /\ Stored \subseteq k.kept \cup k.set
          /\ \A p \in k.kept : StateOf(s3[p]) = "executed"
    /\ k.pc = "list" => k.kept = {}
    /\ k.pc \in {"copy", "delete"} => StateOf(s3[k.p]) \notin {"absent", "executed"}
    /\ k.pc = "evict" => s3[k.p] = None
    /\ k.pc = "reindex" => k.set = {}
    /\ k.op \notin Clears /\ k.pc # "unexclude"

\* Only the proposal that a handler is excluding lacks its candidate.
Excluding(k) == k.op = "exclude" /\ Where(k) \in {"cacheState", "exclRead", "exclPut"}
Restored(k) == k.op = "restore" /\ Where(k) \in {"cacheState", "exclRead", "exclPut"}

ExcludedSerial(k) ==
    /\ \A p \in ExcludedProposals :
          CandidateOf[p] \in ExcludedIds \/ (p = k.p /\ Excluding(k))
    /\ k.pc = "exclPut" => k.set = ExcludedIds
    /\ Restored(k) => StateOf(s3[k.p]) = "pending"

\* The attempt may have committed steps, and its proposal is not marked yet.
Busy(k) ==
    \/ Where(k) \in {"apply", "verify"}
    \/ Where(k) = "audit" /\ k.outcome = "applied"
    \/ Where(k) = "transition" /\ k.target = "executed"

AppliedSerial(k) ==
    /\ Busy(k) \/ Where(k) = "schema" => StateOf(s3[k.p]) = "approved"
    /\ \A w \in writes :
          StateOf(s3[w.p]) = "executed" \/ (Busy(k) /\ w.p = k.p /\ w.id = k.id)
    /\ k.outcome # "failed"
    /\ AppliedOnce

SerialAt(k) ==
    /\ Knows(k)
    /\ CacheSerial(k)
    /\ IndexSerial(k)
    /\ OneEach => ExcludedSerial(k)
    /\ AppliedSerial(k)

SerialInv == \A t \in Slots : SerialAt(task[t])

(***************************************************************************)
(* The inductive invariants behind EveryWriteAccounted and                 *)
(* ApprovedIsExecutable, for requests that may cross but lose no call: a   *)
(* proposal is marked executed under an attempt the log has a record of,   *)
(* and whatever shows a proposal as approved, the handler that approved it *)
(* has written its record or is about to.                                  *)
(***************************************************************************)
AccountInv ==
    /\ EveryWriteAccounted
    /\ \A t \in Slots : Marking(task[t]) => \E r \in audit : r.id = task[t].id

Approving(k) == k.pc = "record" \/ (k.pc = "cacheState" /\ k.target = "approved")
HasRecord(p) == \E r \in approvals : r.key[1] = p
Backed(p) == HasRecord(p) \/ \E t \in Slots : task[t].p = p /\ Approving(task[t])

TaskBacked(k) ==
    /\ k.pc = "approve" /\ k.pkt # None => Held(k.p, k.pkt)
    /\ k.pc = "dropToken" => HasRecord(k.p)

BackedInv ==
    /\ \A d \in durable : d.pkt.state = "approved" => Backed(d.p)
    /\ \A key \in issued : Backed(key[1])
    /\ \A t \in Slots : TaskBacked(task[t])
=============================================================================
