--------------------------- MODULE CandidateCache ---------------------------
(* What a run keeps in Redis between the graph and the curator: the query      *)
(* results of GraphReader, the candidate lists, the cooldown marker, the locked *)
(* schema and its amendments.  Generation, scoped detection, the graph          *)
(* explorer, executions, extractions, schema approvals and amendments fill and  *)
(* invalidate them, one action per await.  Graph and lists are versions here;   *)
(* what is in them is the matter of CurationGraph.                            *)
(*                                                                           *)
(* Neo4j is external: reads are spread over the leader and replicas that lag    *)
(* behind it, for less than the cooldown.                                     *)
EXTENDS Naturals, Sequences, FiniteSets

CONSTANTS
    Slots,          \* handlers at a time
    Queries,        \* the reads a detection makes
    Stages,         \* stages asked for; 0: all detectors
    Versions,       \* schemas that may be approved
    Edges,          \* edge types an amendment may name
    Base,           \* the edge types of each schema
    Scenarios,      \* bounds, one record of them for each behaviour: the kinds of
                    \* request, how many of them, and how many faults
    None            \* a missing value

Ops == {"generate", "scoped", "explore", "execute", "orphans", "extract", "clear",
        "exclude", "approve", "amend"}

ASSUME CacheAssumption ==
    /\ IsFiniteSet(Queries) /\ Queries # {}
    /\ Stages \subseteq 0 .. 3
    /\ Base \in [Versions -> SUBSET Edges]
    /\ None \notin Versions \cup Edges \cup Queries \cup Nat
    /\ Scenarios \subseteq [ops : SUBSET Ops, requests : Nat, faults : Nat,
                             schema : Versions \cup {None}]

VARIABLES
    graph,      \* how often the graph was changed
    replica,    \* the change the slowest replica has seen
    reads,      \* gq:{run_id}:*, the change each cached query result saw
    lists,      \* candidates:{run_id}:*, by schema and stage
    affected,   \* merge_affected: what Agent-C found after its last merge
    cooldown,   \* exec_cooldown, with the change the graph was at
    schema,     \* schema:{run_id}
    amendments, \* schema_amendments:{run_id}
    task,       \* what each handler is doing
    crossed,    \* history: two requests have crossed that nothing keeps apart
    executed,   \* history: the change the last applied execution made
    honoured,   \* history: amendments whose request is done
    left        \* what is left of the bounds

caches == <<reads, lists, affected, cooldown>>
registry == <<schema, amendments>>
history == <<executed, honoured>>
vars == <<graph, replica, caches, registry, task, crossed, history, left>>

Idle == [op |-> None, pc |-> "idle", stage |-> None, edge |-> None, schema |-> None,
         todo |-> {}, stages |-> {}, basis |-> {}, query |-> None, saw |-> 0,
         got |-> [q \in Queries |-> None], amended |-> {}, plan |-> <<>>, change |-> 0]

Becomes(t, k) == task' = [task EXCEPT ![t] = k]
Goes(t, pc) == Becomes(t, [task[t] EXCEPT !.pc = pc])
Replies(t) == Becomes(t, Idle)

At(t, pc) == task[t].pc = pc

\* CacheClient: the call arrives, or it fails and only the log is told.
Works == UNCHANGED <<left, crossed>>
Fails == left.faults > 0 /\ left' = [left EXCEPT !.faults = @ - 1] /\ crossed' = TRUE

(***************************************************************************)
(* Requests                                                                *)
(***************************************************************************)
Readers == {"generate", "scoped", "explore"}
Mutators == {"execute", "orphans"}

\* No lock keeps these apart: a read that is cached after the invalidation it
\* should have fallen to, a list computed without the amendment, two updates of
\* the registry from the same state.
Crosses(a, b) ==
    \/ a \in Mutators /\ b \in Readers \cup Mutators
    \/ a = "amend" /\ b \in {"generate", "amend"}
    \/ a = "approve" /\ b = "approve"

Entry(op) ==
    CASE op \in {"generate", "scoped"} -> "cooldown"
      [] op = "explore" -> "lookup"
      [] op \in {"execute", "extract"} -> "commit"
      [] op \in {"clear", "exclude"} -> "invalidate"
      [] op \in {"approve", "amend", "orphans"} -> "schema"

\* wrong: the results of the queries stay.
PlanWithoutReads(op) ==
    CASE op \in {"execute", "orphans"} -> <<"lists", "cooldown">>
      [] op \in {"exclude", "amend", "clear"} -> <<"lists">>
      [] OTHER -> <<>>

\* What the bulk deletion of orphans invalidates after its executions, whatever
\* came of them.
AfterOrphans == <<"lists", "reads">>

\* What a request invalidates, in order; a bulk deletion ends with AfterOrphans.
Plan(op) ==
    CASE op = "execute" -> <<"reads", "lists", "cooldown">>
      [] op = "orphans" -> <<"reads", "lists", "cooldown", "lists", "reads">>
      [] op = "clear" -> <<"lists", "reads">>
      [] op \in {"exclude", "amend"} -> <<"lists">>
      [] OTHER -> <<>>

\* A page of the graph explorer counts nodes or edges, or lists them, or needs the
\* nodes and their degrees; a detection looks at everything.
Asked(op) == IF op = "explore" THEN (SUBSET Queries) \ {{}} ELSE {Queries}

\* Bound: no request follows a crossing, as nothing is promised after it.
Begin(t) ==
    /\ At(t, "idle")
    /\ left.requests > 0
    /\ ~ crossed
    /\ left' = [left EXCEPT !.requests = @ - 1]
    /\ \E op \in left.ops, stage \in Stages, edge \in Edges, version \in Versions :
          /\ op # "generate" => stage = CHOOSE s \in Stages : TRUE
          /\ op # "amend" => edge = CHOOSE e \in Edges : TRUE
          /\ op # "approve" => version = CHOOSE v \in Versions : TRUE
          /\ \E asked \in Asked(op) :
                Becomes(t, [Idle EXCEPT !.op = op, !.pc = Entry(op), !.stage = stage, !.edge = edge,
                                        !.schema = version, !.plan = Plan(op), !.todo = asked,
                                        !.stages = Stages])
          /\ crossed' = \/ crossed
                        \/ \E u \in Slots \ {t} : /\ ~ At(u, "idle")
                                                  /\ \/ Crosses(op, task[u].op)
                                                     \/ Crosses(task[u].op, op)
                        \/ op = "explore" /\ cooldown # None
    /\ UNCHANGED <<graph, replica, caches, registry, history>>

\* _check_execution_cooldown: 429 while the marker is there.
CheckCooldown(t) ==
    /\ At(t, "cooldown")
    /\ \/ Works /\ cooldown # None /\ Replies(t)
       \/ Works /\ cooldown = None /\ Goes(t, "schema")
       \/ Fails /\ Goes(t, "schema")
    /\ UNCHANGED <<graph, replica, caches, registry, history>>

\* A detection goes on with a schema, an approval without one, an amendment with
\* one that does not have the edge already.
GoesOn(t, found) ==
    LET k == task[t]
    IN  CASE k.op = "approve" -> found = None
          [] k.op = "amend" -> found # None /\ k.edge \notin Base[found]
          [] OTHER -> found # None

AfterSchema(op) ==
    CASE op = "generate" -> "list"
      [] op = "execute" -> "lookup"
      [] op = "approve" -> "lock"
      [] op = "orphans" -> "find"
      [] OTHER -> "amendments"

\* SchemaService.get_current: a failed read answers that there is none.
ReadSchema(t) ==
    LET k == task[t]
        answer(found) ==
            IF ~ GoesOn(t, found) THEN Replies(t)
            ELSE Becomes(t, [k EXCEPT !.pc = AfterSchema(k.op),
                                      !.schema = IF k.op = "approve" THEN @ ELSE found])
    IN  /\ At(t, "schema")
        /\ \/ Works /\ answer(schema)
           \/ Fails /\ answer(None)
        /\ UNCHANGED <<graph, replica, caches, registry, history>>

\* A cached list of this schema and stage is the answer.
LookUpList(t) ==
    LET k == task[t]
    IN  /\ At(t, "list")
        /\ \/ /\ Works
              /\ IF lists[<<k.schema, k.stage>>] # None THEN Replies(t) ELSE Goes(t, "lookup")
           \/ Fails /\ Goes(t, "lookup")
        /\ UNCHANGED <<graph, replica, caches, registry, history>>

\* The lists of all stages, one after the other; which nodes they call orphans is
\* left open, and one execution stands for those of all orphans.
FindOrphans(t) ==
    LET k == task[t]
        stage == CHOOSE s \in k.stages : TRUE
        rest == k.stages \ {stage}
        found(basis) ==
            IF rest = {} /\ basis = {} THEN Replies(t)
            ELSE Becomes(t, [k EXCEPT !.stages = rest, !.basis = basis,
                                      !.pc = IF rest = {} THEN "commit" ELSE "find"])
    IN  /\ At(t, "find")
        /\ \/ Works /\ lists[<<k.schema, stage>>] # None /\ found(k.basis \cup {lists[<<k.schema, stage>>].saw})
           \/ Works /\ found(k.basis)
           \/ Fails /\ found(k.basis)
        /\ UNCHANGED <<graph, replica, caches, registry, history>>

(***************************************************************************)
(* GraphReader                                                             *)
(***************************************************************************)
\* After the last query; the detectors run in between.
AfterReads(k) ==
    CASE k.op = "generate" /\ k.stage \in {0, 2} -> "amendments"
      [] k.op = "generate" /\ k.stage \notin {0, 2} -> "store"
      [] k.op = "execute" -> "store"
      [] OTHER -> "idle"

\* wrong: one query more is looked up than there are.
HasAlways(k, q, change) ==
    [k EXCEPT !.got[q] = change, !.todo = @ \ {q}, !.pc = "lookup"]

\* The result of a query is there.
Has(k, q, change) ==
    LET rest == k.todo \ {q}
    IN  IF rest # {} THEN [k EXCEPT !.got[q] = change, !.todo = rest, !.pc = "lookup"]
        ELSE IF AfterReads(k) = "idle" THEN Idle
        ELSE [k EXCEPT !.got[q] = change, !.todo = rest, !.pc = AfterReads(k)]

\* The queries in a fixed order.
NextQuery(k) == CHOOSE q \in k.todo : TRUE

LookUpRead(t) ==
    LET k == task[t]
        q == NextQuery(k)
        ask == Becomes(t, [k EXCEPT !.pc = "query", !.query = q])
    IN  /\ At(t, "lookup")
        /\ \/ /\ Works
              /\ IF reads[q] # None THEN Becomes(t, Has(k, q, reads[q])) ELSE ask
           \/ Fails /\ ask
        /\ UNCHANGED <<graph, replica, caches, registry, history>>

\* The leader or any replica answers; an error is 503, or no scoped result.
QueryGraph(t) ==
    /\ At(t, "query")
    /\ \/ \E v \in replica .. graph :
             Becomes(t, [task[t] EXCEPT !.pc = "fill", !.saw = v])
       \/ Replies(t)
    /\ Works
    /\ UNCHANGED <<graph, replica, caches, registry, history>>

FillRead(t) ==
    LET k == task[t]
    IN  /\ At(t, "fill")
        /\ \/ Works /\ reads' = [reads EXCEPT ![k.query] = k.saw]
           \/ Fails /\ reads' = reads
        /\ Becomes(t, Has(k, k.query, k.saw))
        /\ UNCHANGED <<graph, replica, lists, affected, cooldown, registry, history>>

(***************************************************************************)
(* Results                                                                 *)
(***************************************************************************)
\* An amendment made already is returned as it is.
AfterAmendments(k) ==
    CASE k.op = "generate" -> "store"
      [] k.op = "scoped" -> "lookup"
      [] k.op = "amend" -> IF k.edge \in k.amended THEN "idle" ELSE "append"

ReadAmendments(t) ==
    LET answer(found) ==
            LET k == [task[t] EXCEPT !.amended = found]
            IN  IF AfterAmendments(k) = "idle" THEN Replies(t)
                ELSE Becomes(t, [k EXCEPT !.pc = AfterAmendments(k)])
    IN  /\ At(t, "amendments")
        /\ \/ Works /\ answer(amendments)
           \/ Fails /\ answer({})
        /\ UNCHANGED <<graph, replica, caches, registry, history>>

\* The candidates of a generation, or those Agent-C found after a merge.
Store(t) ==
    LET k == task[t]
        result == [saw |-> k.got, amended |-> k.amended, since |-> k.change]
    IN  /\ At(t, "store")
        /\ \/ /\ Works
              /\ \/ /\ k.op = "generate"
                    /\ lists' = [lists EXCEPT ![<<k.schema, k.stage>>] = result]
                    /\ UNCHANGED affected
                 \/ k.op = "execute" /\ affected' = result /\ UNCHANGED lists
           \/ Fails /\ UNCHANGED <<lists, affected>>
        /\ Replies(t)
        /\ UNCHANGED <<graph, replica, reads, cooldown, registry, history>>

(***************************************************************************)
(* Schema                                                                  *)
(***************************************************************************)
LockSchema(t) ==
    /\ At(t, "lock")
    /\ \/ Works /\ schema' = task[t].schema
       \/ Fails /\ UNCHANGED schema
    /\ Replies(t)
    /\ UNCHANGED <<graph, replica, caches, amendments, history>>

\* wrong: the registry is started over.
RegistryOfOne(k) == {k.edge}

\* The registry as it was read, and the new amendment.
Registry(k) == k.amended \cup {k.edge}

AppendAmendment(t) ==
    /\ At(t, "append")
    /\ \/ Works /\ amendments' = Registry(task[t])
       \/ Fails /\ UNCHANGED amendments
    /\ Goes(t, "invalidate")
    /\ UNCHANGED <<graph, replica, caches, schema, history>>

(***************************************************************************)
(* Changes of the graph and invalidation                                   *)
(***************************************************************************)
\* The steps of a diff, or of an extraction, which invalidates nothing.  After an
\* error only the bulk deletion still invalidates.
Commit(t) ==
    LET k == task[t]
    IN  /\ At(t, "commit")
        /\ \/ /\ graph' = graph + 1
              /\ IF k.op = "extract" THEN Replies(t)
                 ELSE Becomes(t, [k EXCEPT !.pc = "verify", !.change = graph + 1])
           \/ /\ graph' \in {graph, graph + 1}
              /\ IF k.op = "orphans"
                 THEN Becomes(t, [k EXCEPT !.pc = "invalidate", !.plan = AfterOrphans])
                 ELSE Replies(t)
        /\ Works
        /\ UNCHANGED <<replica, caches, registry, history>>

\* The invariant checks hold, or the outcome is failed.
Verify(t) ==
    LET k == task[t]
    IN  /\ At(t, "verify")
        /\ \/ Goes(t, "invalidate")
           \/ k.op = "orphans" /\ Becomes(t, [k EXCEPT !.pc = "invalidate", !.plan = AfterOrphans])
           \/ k.op = "execute" /\ Replies(t)
        /\ Works
        /\ UNCHANGED <<graph, replica, caches, registry, history>>

\* After a merge Agent-C goes on to look at what it brought about.
Done(t) ==
    LET k == task[t]
    IN  \/ Replies(t)
        \/ k.op = "execute" /\ Becomes(t, [k EXCEPT !.pc = "sleep", !.plan = <<>>])

Invalidate(t) ==
    LET k == task[t]
        what == Head(k.plan)
        last == Len(k.plan) = 1
    IN  /\ At(t, "invalidate")
        /\ \/ /\ Works
              /\ reads' = IF what = "reads" THEN [q \in Queries |-> None] ELSE reads
              /\ lists' = IF what = "lists"
                          THEN [l \in Versions \X Stages |-> None] ELSE lists
              /\ cooldown' = IF what = "cooldown" THEN graph ELSE cooldown
           \/ Fails /\ UNCHANGED <<reads, lists, cooldown>>
        /\ executed' = IF what = "cooldown" THEN k.change ELSE executed
        /\ honoured' = IF k.op = "amend" THEN honoured \cup {k.edge} ELSE honoured
        /\ IF last THEN Done(t) ELSE Becomes(t, [k EXCEPT !.plan = Tail(@)])
        /\ UNCHANGED <<graph, replica, affected, registry>>

\* asyncio.sleep(cooldown_seconds)
WakeUp(t) ==
    /\ At(t, "sleep")
    /\ replica >= task[t].change
    /\ Goes(t, "schema")
    /\ Works
    /\ UNCHANGED <<graph, replica, caches, registry, history>>

(***************************************************************************)
(* The environment                                                         *)
(***************************************************************************)
Propagate ==
    /\ replica < graph
    /\ replica' = graph
    /\ UNCHANGED <<graph, caches, registry, task, crossed, history, left>>

\* The cooldown is set longer than a replica lags.
CooldownEnds ==
    /\ cooldown # None
    /\ replica >= cooldown
    /\ cooldown' = None
    /\ UNCHANGED <<graph, replica, reads, lists, affected, registry, task, crossed, history, left>>

\* Five minutes for a query result, a day for a list.
Expire ==
    /\ \/ /\ \E q \in Queries : reads[q] # None /\ reads' = [reads EXCEPT ![q] = None]
          /\ UNCHANGED lists
       \/ /\ \E l \in Versions \X Stages : lists[l] # None /\ lists' = [lists EXCEPT ![l] = None]
          /\ UNCHANGED reads
    /\ UNCHANGED <<graph, replica, affected, cooldown, registry, task, crossed, history, left>>

\* The API process dies; Redis and Neo4j stay.
Crash ==
    /\ left.faults > 0
    /\ left' = [left EXCEPT !.faults = @ - 1]
    /\ \E t \in Slots : ~ At(t, "idle")
    /\ task' = [t \in Slots |-> Idle]
    /\ UNCHANGED <<graph, replica, caches, registry, crossed, history>>

(***************************************************************************)
(* Specification                                                           *)
(***************************************************************************)
Init ==
    /\ graph = 0
    /\ replica = 0
    /\ reads = [q \in Queries |-> None]
    /\ lists = [l \in Versions \X Stages |-> None]
    /\ affected = None
    /\ cooldown = None
    /\ \E s \in Scenarios : left = s /\ schema = s.schema
    /\ amendments = {}
    /\ task = [t \in Slots |-> Idle]
    /\ crossed = FALSE
    /\ executed = 0
    /\ honoured = {}

Step(t) ==
    \/ Begin(t) \/ CheckCooldown(t) \/ ReadSchema(t) \/ LookUpList(t)
    \/ LookUpRead(t) \/ QueryGraph(t) \/ FillRead(t)
    \/ FindOrphans(t) \/ ReadAmendments(t) \/ Store(t) \/ LockSchema(t) \/ AppendAmendment(t)
    \/ Commit(t) \/ Verify(t) \/ Invalidate(t) \/ WakeUp(t)

Next == (\E t \in Slots : Step(t)) \/ Propagate \/ CooldownEnds \/ Expire \/ Crash

Spec == Init /\ [][Next]_vars

(***************************************************************************)
(* Properties                                                              *)
(***************************************************************************)
Known(change) == change = None \/ change \in 0 .. graph

\* Every variable has its type; nothing was seen that was not there, and a
\* handler looks up queries only as long as there are some.
TypeOK ==
    /\ replica \in 0 .. graph
    /\ \A q \in Queries : Known(reads[q])
    /\ \A l \in Versions \X Stages : lists[l] # None =>
          (\A q \in Queries : lists[l].saw[q] \in 0 .. graph) /\ lists[l].amended \subseteq Edges
    /\ affected # None => \A q \in Queries : affected.saw[q] \in 0 .. graph
    /\ Known(cooldown)
    /\ schema \in Versions \cup {None}
    /\ amendments \subseteq Edges
    /\ executed \in 0 .. graph
    /\ \A t \in Slots :
          /\ At(t, "lookup") => task[t].todo # {}
          /\ At(t, "invalidate") => task[t].plan # <<>>
          /\ \A q \in Queries : Known(task[t].got[q])

\* "Explicit invalidation after graph mutations handles staleness": a cached list
\* was computed from reads that saw the last applied execution, all of them, and
\* with every amendment made; what Agent-C finds after a merge comes from reads
\* that saw the merge, and the orphans deleted in bulk are those of such lists.
\* True as long as no Redis call was lost and no request has crossed one it is not
\* kept apart from; crashes, expiry, failed executions, lagging replicas and
\* extractions do no harm.
ListsAreCurrent ==
    ~ crossed =>
        /\ \A l \in Versions \X Stages : lists[l] # None =>
              /\ \A q \in Queries : lists[l].saw[q] >= executed
              /\ l[2] \in {0, 2} => honoured \subseteq lists[l].amended
        /\ affected # None => \A q \in Queries : affected.saw[q] >= affected.since
        /\ \A t \in Slots : At(t, "commit") =>
              \A saw \in task[t].basis, q \in Queries : saw[q] >= executed

\* "No modifications are permitted after approval", and amendments are additive:
\* the schema stays, none of the amendments is lost, and none repeats what the
\* schema has.  With the same proviso.
RegistryGrows ==
    [][~ crossed' =>
          /\ schema # None => schema' = schema
          /\ amendments \subseteq amendments'
          /\ amendments' # {} => schema' # None /\ amendments' \cap Base[schema'] = {}]_vars

(***************************************************************************)
(* The inductive invariant behind them: what handlers know of the caches,  *)
(* the registry and each other.                                            *)
(***************************************************************************)
\* Where a request may be, and what it has left to invalidate there.
Places(op) ==
    CASE op = "generate" -> {"cooldown", "schema", "list", "lookup", "query", "fill",
                             "amendments", "store"}
      [] op = "scoped" -> {"cooldown", "schema", "amendments", "lookup", "query", "fill"}
      [] op = "explore" -> {"lookup", "query", "fill"}
      [] op = "execute" -> {"commit", "verify", "invalidate", "sleep", "schema", "lookup",
                            "query", "fill", "store"}
      [] op = "orphans" -> {"schema", "find", "commit", "verify", "invalidate"}
      [] op = "extract" -> {"commit"}
      [] op = "approve" -> {"schema", "lock"}
      [] op = "amend" -> {"schema", "amendments", "append", "invalidate"}
      [] OTHER -> {"invalidate"}

Rests(op) ==
    CASE op = "execute" -> {<<"reads", "lists", "cooldown">>, <<"lists", "cooldown">>,
                            <<"cooldown">>}
      [] op = "orphans" -> {<<"reads", "lists", "cooldown", "lists", "reads">>,
                            <<"lists", "cooldown", "lists", "reads">>,
                            <<"cooldown", "lists", "reads">>,
                            <<"lists", "reads">>, <<"reads">>}
      [] op = "clear" -> {<<"lists", "reads">>, <<"reads">>}
      [] OTHER -> {<<"lists">>}

Pcs == {"idle", "cooldown", "schema", "list", "lookup", "query", "fill", "amendments", "store",
        "commit", "verify", "invalidate", "sleep", "find", "lock", "append"}
Changes == 0 .. graph
Requests ==
    [op : Ops \cup {None}, pc : Pcs, stage : Stages \cup {None},
     edge : Edges \cup {None}, schema : Versions \cup {None}, todo : SUBSET Queries,
     stages : SUBSET Stages, basis : SUBSET [Queries -> Changes],
     query : Queries \cup {None}, saw : Changes, got : [Queries -> Changes \cup {None}],
     amended : SUBSET Edges, plan : Seq({"reads", "lists", "cooldown"}), change : Changes]

Results == [saw : [Queries -> Changes], amended : SUBSET Edges, since : Changes]

\* Before its first query a request has all of them to make.
Unread == {"cooldown", "schema", "list", "commit", "verify", "invalidate", "sleep"}
Detecting == {"generate", "scoped", "execute"}

\* A request is where it may be, with what it needs to go on.
Proper(k) ==
    k.pc # "idle" =>
        /\ k.op \in Ops /\ k.pc \in Places(k.op)
        /\ k.stage \in Stages /\ k.edge \in Edges /\ k.schema \in Versions
        /\ k.op = "orphans" /\ k.pc \in {"schema", "find"} => k.stages # {} /\ k.plan = Plan(k.op)
        /\ k.op # "orphans" \/ k.pc = "schema" => k.basis = {}
        /\ k.pc \in {"query", "fill"} => k.query \in k.todo
        /\ k.pc = "lookup" => k.todo # {}
        /\ k.op \in Detecting =>
              /\ k.pc \in Unread => k.todo = Queries
              /\ k.pc = "amendments" /\ k.op = "scoped" => k.todo = Queries
              /\ \A q \in Queries \ k.todo : k.got[q] \in Changes
              /\ k.pc = "store" \/ (k.pc = "amendments" /\ k.op = "generate") => k.todo = {}
        /\ k.pc \in {"commit", "verify"} \/ k.op = "amend" => k.plan = Plan(k.op)
        /\ k.pc = "invalidate" => k.plan \in Rests(k.op)

CacheTypes ==
    /\ graph \in Nat /\ replica \in Changes /\ executed \in Changes
    /\ reads \in [Queries -> Changes \cup {None}]
    /\ lists \in [Versions \X Stages -> Results \cup {None}]
    /\ affected \in Results \cup {None}
    /\ cooldown \in Changes \cup {None}
    /\ schema \in Versions \cup {None}
    /\ amendments \subseteq Edges
    /\ crossed \in BOOLEAN
    /\ left \in [ops : SUBSET Ops, requests : Nat, faults : Nat,
                 schema : Versions \cup {None}]

RequestTypes == task \in [Slots -> Requests] /\ \A t \in Slots : Proper(task[t])

TypeInv == CacheTypes /\ RequestTypes

\* No two requests are there that nothing keeps apart.
Apart ==
    \A t, u \in Slots : t # u /\ ~ At(t, "idle") /\ ~ At(u, "idle") =>
        ~ Crosses(task[t].op, task[u].op)

Current(result) == \A q \in Queries : result.saw[q] >= executed

\* A query result, a list and the cooldown know the last execution, a list each
\* amendment.
CachesCurrent ==
    /\ \A q \in Queries : reads[q] # None => reads[q] >= executed
    /\ \A l \in Versions \X Stages : lists[l] # None =>
          Current(lists[l]) /\ (l[2] \in {0, 2} => honoured \subseteq lists[l].amended)
    /\ affected # None => \A q \in Queries : affected.saw[q] >= affected.since
    /\ IF cooldown = None THEN replica >= executed ELSE cooldown >= executed

\* Once it is past the cooldown a reader sees the last execution, and Agent-C its
\* own.
ReadsCurrent(k) ==
    /\ k.op \in {"generate", "scoped"} /\ k.pc # "cooldown" => replica >= executed
    /\ k.op = "explore" => replica >= executed
    /\ k.op = "execute" /\ k.pc \in {"sleep", "schema", "lookup", "query", "fill", "store"} =>
          executed = k.change /\ (k.pc # "sleep" => replica >= executed)
    /\ k.pc = "fill" => k.saw >= executed
    /\ k.op \in Detecting => \A q \in Queries \ k.todo : k.got[q] >= executed
    /\ k.pc \in {"find", "commit"} => \A saw \in k.basis, q \in Queries : saw[q] >= executed

\* What an execution has invalidated stays empty until its cooldown is set.
Emptied(k) ==
    k.op \in Mutators /\ k.pc = "invalidate" =>
        /\ Head(k.plan) = "cooldown" \/ (Len(k.plan) > 1 /\ k.plan[2] = "cooldown") =>
              \A q \in Queries : reads[q] = None
        /\ Head(k.plan) = "cooldown" => \A l \in Versions \X Stages : lists[l] = None

\* What has been read of the registry is still so.
RegistryKnown(k) ==
    /\ k.op = "approve" /\ k.pc = "lock" => schema = None
    /\ k.op = "amend" /\ k.pc \in {"amendments", "append"} =>
          schema = k.schema /\ k.edge \notin Base[k.schema]
    /\ k.op = "amend" /\ k.pc = "append" => k.amended = amendments
    /\ k.op = "amend" /\ k.pc = "invalidate" => k.edge \in amendments
    /\ k.op = "generate" /\ k.pc = "store" /\ k.stage \in {0, 2} => honoured \subseteq k.amended

Informed(k) == k.pc # "idle" => ReadsCurrent(k) /\ Emptied(k) /\ RegistryKnown(k)

RegistrySound ==
    /\ honoured \subseteq amendments
    /\ amendments # {} => schema # None /\ amendments \cap Base[schema] = {}

Uncrossed ==
    /\ Apart
    /\ CachesCurrent
    /\ RegistrySound
    /\ \A t \in Slots : Informed(task[t])

IInv == TypeInv /\ (~ crossed => Uncrossed)
=============================================================================
