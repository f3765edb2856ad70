------------------------ MODULE CandidateCacheProofs ------------------------
(* Theorems about CandidateCache, for every number of handlers, queries,      *)
(* stages, schemas, edge types and requests.                                 *)
EXTENDS CandidateCache, TLAPS

(***************************************************************************)
(* What is left to invalidate.                                             *)
(***************************************************************************)
Targets == {"reads", "lists", "cooldown"}

\* A rest is not empty, and what follows its first entry is a rest again.
LEMMA RestGoesOn ==
    ASSUME NEW op \in Ops, NEW plan \in Rests(op)
    PROVE  /\ plan \in Seq(Targets) /\ plan # <<>> /\ Head(plan) \in Targets
           /\ Len(plan) # 1 => Tail(plan) \in Rests(op)
<1>1. CASE op = "execute"
  <2>1. Rests(op) = {<<"reads", "lists", "cooldown">>, <<"lists", "cooldown">>, <<"cooldown">>}
    BY <1>1 DEF Rests
  <2>2. CASE plan = <<"reads", "lists", "cooldown">>
    BY <2>1, <2>2 DEF Targets
  <2>3. CASE plan = <<"lists", "cooldown">>
    BY <2>1, <2>3 DEF Targets
  <2>4. CASE plan = <<"cooldown">>
    BY <2>4 DEF Targets
  <2>5. QED BY <2>1, <2>2, <2>3, <2>4
<1>2. CASE op = "orphans"
  <2>1. Rests(op) = {<<"reads", "lists", "cooldown", "lists", "reads">>,
                     <<"lists", "cooldown", "lists", "reads">>,
                     <<"cooldown", "lists", "reads">>, <<"lists", "reads">>, <<"reads">>}
    BY <1>2 DEF Rests
  <2>2. CASE plan = <<"reads", "lists", "cooldown", "lists", "reads">>
    BY <2>1, <2>2 DEF Targets
  <2>3. CASE plan = <<"lists", "cooldown", "lists", "reads">>
    BY <2>1, <2>3 DEF Targets
  <2>4. CASE plan = <<"cooldown", "lists", "reads">>
    BY <2>1, <2>4 DEF Targets
  <2>5. CASE plan = <<"lists", "reads">>
    BY <2>1, <2>5 DEF Targets
  <2>6. CASE plan = <<"reads">>
    BY <2>6 DEF Targets
  <2>7. QED BY <2>1, <2>2, <2>3, <2>4, <2>5, <2>6
<1>3. CASE op = "clear"
  <2>1. Rests(op) = {<<"lists", "reads">>, <<"reads">>}
    BY <1>3 DEF Rests
  <2>2. CASE plan = <<"lists", "reads">>
    BY <2>1, <2>2 DEF Targets
  <2>3. CASE plan = <<"reads">>
    BY <2>3 DEF Targets
  <2>4. QED BY <2>1, <2>2, <2>3
<1>4. CASE op \notin {"execute", "orphans", "clear"}
  <2>1. Rests(op) = {<<"lists">>}
    BY <1>4 DEF Rests
  <2>2. plan = <<"lists">>
    BY <2>1
  <2>3. QED BY <2>2 DEF Targets
<1>5. QED BY <1>1, <1>2, <1>3, <1>4

\* Until its cooldown is set an execution has the rest of this order before it.
LEMMA RestOrder ==
    ASSUME NEW op \in Mutators, NEW plan \in Rests(op)
    PROVE  /\ Head(plan) = "cooldown" => ~ (Len(plan) > 1 /\ plan[2] = "cooldown")
           /\ Len(plan) # 1 /\ (Head(Tail(plan)) = "cooldown" \/ (Len(Tail(plan)) > 1 /\ Tail(plan)[2] = "cooldown"))
                => Head(plan) \in {"reads", "lists"}
           /\ Len(plan) # 1 /\ Head(Tail(plan)) = "cooldown" => Head(plan) = "lists" /\ plan[2] = "cooldown"
           /\ Len(plan) # 1 /\ Len(Tail(plan)) > 1 /\ Tail(plan)[2] = "cooldown" => Head(plan) = "reads"
<1>1. CASE op = "execute"
  BY <1>1 DEF Rests, Targets
<1>2. CASE op = "orphans"
  BY <1>2 DEF Rests, Targets
<1>3. QED BY <1>1, <1>2 DEF Mutators

LEMMA RestLength ==
    ASSUME NEW op \in Mutators, NEW plan \in Rests(op), Len(plan) # 1
    PROVE  Len(plan) > 1
<1>1. CASE op = "execute"
  BY <1>1 DEF Rests
<1>2. CASE op = "orphans"
  BY <1>2 DEF Rests
<1>3. QED BY <1>1, <1>2 DEF Mutators


(***************************************************************************)
(* One handler moves.                                                      *)
(***************************************************************************)
LEMMA CallCounted ==
    ASSUME TypeInv, Works \/ Fails
    PROVE  /\ left' \in [ops : SUBSET Ops, requests : Nat, faults : Nat,
                         schema : Versions \cup {None}]
           /\ crossed' \in BOOLEAN
           /\ ~ crossed' => Works /\ ~ crossed
<1>1. left' \in [ops : SUBSET Ops, requests : Nat, faults : Nat,
                  schema : Versions \cup {None}]
  <2>1. CASE Works
    BY <2>1 DEF TypeInv, CacheTypes, Works
  <2>2. CASE left.faults > 0 /\ left' = [left EXCEPT !.faults = @ - 1]
    BY <2>2 DEF TypeInv, CacheTypes
  <2>3. QED BY <2>1, <2>2 DEF Fails
<1>2. crossed' \in BOOLEAN
  BY DEF TypeInv, CacheTypes, Works, Fails
<1>3. ~ crossed' => Works /\ ~ crossed
  BY DEF Works, Fails
<1>4. QED BY <1>1, <1>2, <1>3

\* What was there before is still there.
LEMMA ChangesGrow ==
    ASSUME graph \in Nat, graph' \in Nat, graph <= graph'
    PROVE  /\ Changes \subseteq Changes'
           /\ \A k \in Requests : k \in Requests' /\ (Proper(k) => Proper(k)')
           /\ Results \subseteq Results'
<1>1. Changes \subseteq Changes'
  BY DEF Changes
<1>2. ASSUME NEW k \in Requests PROVE k \in Requests'
  <2>1. k.basis \in SUBSET [Queries -> Changes']
    BY <1>1 DEF Requests
  <2>2. k.got \in [Queries -> Changes' \cup {None}]
    BY <1>1 DEF Requests
  <2>3. k.saw \in Changes' /\ k.change \in Changes'
    BY <1>1 DEF Requests
  <2>4. QED BY <2>1, <2>2, <2>3 DEF Requests
<1>3. ASSUME NEW k \in Requests, Proper(k) PROVE Proper(k)'
  BY <1>1, <1>3 DEF Proper
<1>4. ASSUME NEW r \in Results PROVE r \in Results'
  <2>1. r.saw \in [Queries -> Changes'] /\ r.since \in Changes'
    BY <1>1 DEF Results
  <2>2. QED BY <2>1 DEF Results
<1>5. QED BY <1>1, <1>2, <1>3, <1>4

LEMMA RequestMoves ==
    ASSUME TypeInv, NEW t \in Slots, NEW k, Becomes(t, k), k \in Requests', Proper(k)',
           graph' \in Nat, graph <= graph'
    PROVE  RequestTypes'
<1>1. ASSUME NEW u \in Slots PROVE task'[u] \in Requests' /\ Proper(task[u])'
  <2>1. CASE u = t
    BY <2>1 DEF Becomes, TypeInv, RequestTypes
  <2>2. CASE u # t
    <3>1. PICK m \in Requests : m = task[u] /\ m = task'[u] /\ Proper(m)
      BY <2>2 DEF Becomes, TypeInv, RequestTypes
    <3>2. m \in Requests' /\ Proper(m)'
      BY <3>1, ChangesGrow DEF TypeInv, CacheTypes
    <3>3. QED BY <3>1, <3>2 DEF Proper
  <2>3. QED BY <2>1, <2>2
<1>2. QED BY <1>1 DEF Becomes, TypeInv, RequestTypes

\* A step that leaves the caches and the registry alone.
LEMMA QuietTypes ==
    ASSUME TypeInv, NEW t \in Slots, NEW k, Becomes(t, k), k \in Requests, Proper(k),
           Works \/ Fails, UNCHANGED <<graph, replica, caches, registry, executed>>
    PROVE  TypeInv'
<1>1. k \in Requests' /\ Proper(k)' /\ graph' \in Nat /\ graph <= graph'
  BY ChangesGrow DEF TypeInv, CacheTypes
<1>2. RequestTypes'
  BY <1>1, RequestMoves
<1>3. CacheTypes'
  BY CallCounted DEF TypeInv, CacheTypes, caches, registry, Changes, Results
<1>4. QED BY <1>2, <1>3 DEF TypeInv

\* What a request is told by a step of another one.
Stable(k) ==
    /\ replica' \in Nat /\ replica <= replica'
    /\ k.op \in Readers \cup Mutators => executed' = executed
    /\ k.op \in Mutators =>
          /\ \A q \in Queries : reads[q] = None => reads'[q] = None
          /\ \A l \in Versions \X Stages : lists[l] = None => lists'[l] = None
    /\ schema # None \/ k.op = "approve" => schema' = schema
    /\ k.op = "amend" => amendments' = amendments
    /\ k.op = "generate" => honoured' = honoured

\* The places of each kind of request.
LEMMA PlaceOf ==
    ASSUME NEW k, Proper(k), k.pc # "idle"
    PROVE  /\ k.op \in Ops
           /\ k.pc \in {"fill", "query", "lookup", "store", "list", "cooldown"} =>
                 k.op \in Readers \cup Mutators
           /\ k.pc \in {"list", "cooldown"} => k.op \in {"generate", "scoped"}
           /\ k.pc = "list" => k.op = "generate"
           /\ k.pc = "store" => k.op \in {"generate", "execute"}
           /\ k.pc = "find" => k.op = "orphans"
           /\ k.pc = "commit" => k.op \in {"execute", "orphans", "extract"}
           /\ k.pc = "verify" => k.op \in Mutators
           /\ k.pc = "sleep" => k.op = "execute"
           /\ k.pc = "lock" => k.op = "approve"
           /\ k.pc = "append" => k.op = "amend"
           /\ k.pc = "amendments" => k.op \in {"generate", "scoped", "amend"}
           /\ k.pc = "schema" =>
                 k.op \in {"generate", "scoped", "execute", "orphans", "approve", "amend"}
           /\ k.pc = "invalidate" => k.op \in {"execute", "orphans", "clear", "exclude", "amend"}
           /\ k.pc = "cooldown" => k.op # "execute"
<1>1. k.op \in Ops /\ k.pc \in Places(k.op)
  BY DEF Proper
<1>2. QED BY <1>1 DEF Ops, Places, Readers, Mutators

LEMMA StaysInformed ==
    ASSUME NEW k \in Requests, Proper(k), k.pc # "idle", Informed(k), Stable(k), TypeInv
    PROVE  Informed(k)'
<1>1. ReadsCurrent(k) /\ Emptied(k) /\ RegistryKnown(k) /\ k.op \in Ops
  BY PlaceOf DEF Informed
<1>2. replica \in Nat /\ replica' \in Nat /\ executed \in Nat /\ replica <= replica'
  BY DEF Stable, TypeInv, CacheTypes, Changes
<1>3. Emptied(k)'
  BY <1>1 DEF Emptied, Stable
<1>4. RegistryKnown(k)'
  <2>1. k.op = "amend" /\ k.pc \in {"amendments", "append"} => schema # None
    BY <1>1, CacheAssumption DEF RegistryKnown, Proper
  <2>2. QED BY <1>1, <2>1 DEF RegistryKnown, Stable
<1>5. ReadsCurrent(k)'
  <2>1. k.pc = "fill" \/ k.op \in Detecting \/ k.op = "explore" => k.op \in Readers \cup Mutators
    BY PlaceOf DEF Detecting, Readers, Mutators
  <2>2. k.pc \in {"find", "commit"} => k.op \in Readers \cup Mutators \/ k.basis = {}
    BY PlaceOf DEF Proper, Mutators
  <2>3. k.op \in Readers \cup Mutators => executed' = executed
    BY DEF Stable
  <2>4. QED BY <1>1, <1>2, <2>1, <2>2, <2>3 DEF ReadsCurrent, Detecting, Readers, Mutators
<1>6. QED BY <1>3, <1>4, <1>5 DEF Informed

\* Who may be there at the same time.
LEMMA Company ==
    ASSUME TypeInv, Apart, NEW t \in Slots, NEW u \in Slots, t # u, ~ At(t, "idle"), ~ At(u, "idle")
    PROVE  /\ task[t].op \in Mutators => task[u].op \notin Readers \cup Mutators
           /\ task[t].op \in Readers => task[u].op \notin Mutators
           /\ task[t].op = "amend" => task[u].op \notin {"generate", "amend"}
           /\ task[t].op = "generate" => task[u].op # "amend"
           /\ task[t].op = "approve" => task[u].op # "approve"
<1>1. ~ Crosses(task[t].op, task[u].op) /\ ~ Crosses(task[u].op, task[t].op)
  BY DEF Apart
<1>2. QED BY <1>1 DEF Crosses

\* One request moves on, and the others learn nothing that concerns them.
LEMMA Move ==
    ASSUME TypeInv, Uncrossed, NEW t \in Slots, NEW k, Becomes(t, k), ~ At(t, "idle"),
           k.pc # "idle" => k.op = task[t].op /\ Informed(k)',
           \A u \in Slots \ {t} : ~ At(u, "idle") => Stable(task[u]),
           CachesCurrent', RegistrySound'
    PROVE  Uncrossed'
<1>1. /\ task \in [Slots -> Requests] /\ task'[t] = k
      /\ \A u \in Slots \ {t} : task'[u] = task[u]
  BY DEF Becomes, TypeInv, RequestTypes
<1>2. Apart'
  BY <1>1 DEF Uncrossed, Apart, At
<1>3. ASSUME NEW u \in Slots PROVE Informed(task[u])'
  <2>1. CASE u = t
    BY <1>1, <2>1 DEF Informed
  <2>2. CASE u # t
    <3>1. PICK m \in Requests : m = task[u] /\ m = task'[u] /\ Proper(m) /\ Informed(m)
      BY <1>1, <2>2 DEF Uncrossed, TypeInv, RequestTypes
    <3>2. CASE m.pc = "idle"
      BY <3>1, <3>2 DEF Informed
    <3>3. CASE m.pc # "idle"
      <4>1. Stable(m)
        BY <2>2, <3>1, <3>3 DEF At
      <4>2. Informed(m)'
        BY <3>1, <3>3, <4>1, StaysInformed
      <4>3. QED BY <3>1, <4>2 DEF Informed
    <3>4. QED BY <3>2, <3>3
  <2>3. QED BY <2>1, <2>2
<1>4. QED BY <1>2, <1>3 DEF Uncrossed

LEMMA QuietMove ==
    ASSUME TypeInv, Uncrossed, NEW t \in Slots, NEW k, Becomes(t, k), ~ At(t, "idle"),
           k.pc # "idle" => k.op = task[t].op /\ Informed(k),
           UNCHANGED <<replica, caches, registry, history>>, graph' \in Nat, graph <= graph'
    PROVE  Uncrossed'
<1>1. CachesCurrent' /\ RegistrySound'
  BY DEF Uncrossed, CachesCurrent, RegistrySound, caches, registry, history, Current
<1>2. \A u \in Slots : Stable(task[u])
  BY DEF Stable, TypeInv, CacheTypes, Changes, caches, registry, history
<1>3. Informed(k) => Informed(k)'
  BY DEF Informed, ReadsCurrent, Emptied, RegistryKnown, caches, registry, history
<1>4. QED BY <1>1, <1>2, <1>3, Move

LEMMA IdleSound ==
    ASSUME TypeInv
    PROVE  Idle \in Requests /\ Idle.pc = "idle" /\ Proper(Idle) /\ Informed(Idle)
<1>1. Idle \in Requests /\ Idle.pc = "idle"
  BY DEF Idle, Requests, Pcs, TypeInv, CacheTypes, Changes
<1>2. QED BY <1>1 DEF Proper, Informed

\* A request as it was, at another place.
LEMMA Relabel ==
    ASSUME NEW m \in Requests, NEW pc \in Pcs, NEW k, k = [m EXCEPT !.pc = pc]
    PROVE  /\ k \in Requests
           /\ k.op = m.op /\ k.pc = pc /\ k.stage = m.stage /\ k.edge = m.edge
           /\ k.schema = m.schema /\ k.todo = m.todo /\ k.stages = m.stages /\ k.basis = m.basis
           /\ k.query = m.query /\ k.saw = m.saw /\ k.got = m.got /\ k.amended = m.amended
           /\ k.plan = m.plan /\ k.change = m.change
BY DEF Requests

\* A step that ends the request.
LEMMA ReplyKeeps ==
    ASSUME IInv, NEW t \in Slots, ~ At(t, "idle"), Replies(t), Works \/ Fails,
           UNCHANGED <<graph, replica, caches, registry, history>>
    PROVE  IInv'
<1>1. TypeInv' 
  BY IdleSound, QuietTypes DEF IInv, Replies, history
<1>2. ASSUME ~ crossed' PROVE Uncrossed'
  <2>1. Uncrossed
    BY <1>2, CallCounted DEF IInv
  <2>2. QED BY <2>1, IdleSound, QuietMove DEF IInv, Replies, TypeInv, CacheTypes
<1>3. QED BY <1>1, <1>2 DEF IInv

\* A step that moves a request on and leaves the caches and the registry alone.
LEMMA QuietKeeps ==
    ASSUME IInv, NEW t \in Slots, ~ At(t, "idle"), NEW k, Becomes(t, k), Works \/ Fails,
           k \in Requests, Proper(k), k.pc # "idle" => k.op = task[t].op,
           ~ crossed' => Informed(k),
           UNCHANGED <<graph, replica, caches, registry, history>>
    PROVE  IInv'
<1>1. TypeInv'
  BY QuietTypes DEF IInv, history
<1>2. ASSUME ~ crossed' PROVE Uncrossed'
  <2>1. Uncrossed
    BY <1>2, CallCounted DEF IInv
  <2>2. QED BY <1>2, <2>1, QuietMove DEF IInv, TypeInv, CacheTypes
<1>3. QED BY <1>1, <1>2 DEF IInv

(***************************************************************************)
(* The actions.                                                            *)
(***************************************************************************)
LEMMA BeginKeeps ==
    ASSUME IInv, NEW t \in Slots, Begin(t)
    PROVE  IInv'
<1>0. TypeInv /\ ~ crossed /\ Uncrossed /\ At(t, "idle")
  BY DEF IInv, Begin
<1>1. PICK op \in left.ops, stage \in Stages, edge \in Edges, version \in Versions :
        /\ \E asked \in Asked(op) :
              Becomes(t, [Idle EXCEPT !.op = op, !.pc = Entry(op), !.stage = stage, !.edge = edge,
                                      !.schema = version, !.plan = Plan(op), !.todo = asked,
                                      !.stages = Stages])
        /\ crossed' = \/ crossed
                      \/ \E u \in Slots \ {t} : /\ ~ At(u, "idle")
                                                /\ \/ Crosses(op, task[u].op)
                                                   \/ Crosses(task[u].op, op)
                      \/ op = "explore" /\ cooldown # None
  BY Zenon DEF Begin
<1>2. PICK asked \in Asked(op) :
        Becomes(t, [Idle EXCEPT !.op = op, !.pc = Entry(op), !.stage = stage, !.edge = edge,
                                !.schema = version, !.plan = Plan(op), !.todo = asked,
                                !.stages = Stages])
  BY <1>1
<1>3. PICK k : k = [Idle EXCEPT !.op = op, !.pc = Entry(op), !.stage = stage, !.edge = edge,
                                !.schema = version, !.plan = Plan(op), !.todo = asked,
                                !.stages = Stages]
  OBVIOUS
<1>4. op \in Ops
  BY <1>0 DEF TypeInv, CacheTypes
<1>5. /\ asked \in (SUBSET Queries) \ {{}}
      /\ op # "explore" => asked = Queries
  BY CacheAssumption DEF Asked
<1>6. Plan(op) \in Seq({"reads", "lists", "cooldown"})
  <2>1. /\ <<"reads", "lists", "cooldown">> \in Seq({"reads", "lists", "cooldown"})
        /\ <<"reads", "lists", "cooldown", "lists", "reads">> \in Seq({"reads", "lists", "cooldown"})
        /\ <<"lists", "reads">> \in Seq({"reads", "lists", "cooldown"})
        /\ <<"lists">> \in Seq({"reads", "lists", "cooldown"})
        /\ <<>> \in Seq({"reads", "lists", "cooldown"})
    OBVIOUS
  <2>2. QED BY <2>1, <1>4 DEF Ops, Plan
<1>7. Entry(op) \in Pcs \ {"idle"} /\ Entry(op) \in Places(op)
  BY <1>4 DEF Ops, Entry, Places, Pcs
<1>8. /\ k.op = op /\ k.pc = Entry(op) /\ k.stage = stage /\ k.edge = edge /\ k.schema = version
      /\ k.plan = Plan(op) /\ k.todo = asked /\ k.stages = Stages /\ k.basis = {}
  BY <1>3 DEF Idle
<1>9. k \in Requests
  BY <1>0, <1>3, <1>4, <1>5, <1>6, <1>7, IdleSound DEF Requests
<1>10. Proper(k)
  <2>1. Entry(op) \notin {"find", "query", "fill", "store", "verify"}
    BY <1>4 DEF Ops, Entry
  <2>2. Entry(op) = "invalidate" => Plan(op) \in Rests(op)
    BY <1>4 DEF Ops, Entry, Plan, Rests
  <2>3. /\ op \in Detecting => asked = Queries
        /\ Entry(op) # "amendments"
    BY <1>4, <1>5 DEF Detecting, Ops, Entry
  <2>4. QED BY <1>4, <1>5, <1>7, <1>8, <2>1, <2>2, <2>3 DEF Proper
<1>11. Becomes(t, k) /\ UNCHANGED <<graph, replica, caches, registry, history>>
  BY <1>2, <1>3 DEF Begin
<1>12. TypeInv'
  <2>1. left' \in [ops : SUBSET Ops, requests : Nat, faults : Nat,
                   schema : Versions \cup {None}]
    BY <1>0 DEF Begin, TypeInv, CacheTypes
  <2>2. crossed' \in BOOLEAN
    BY <1>1
  <2>3. CacheTypes'
    BY <1>0, <1>11, <2>1, <2>2 DEF TypeInv, CacheTypes, caches, registry, history, Changes, Results
  <2>4. k \in Requests' /\ Proper(k)' /\ graph' \in Nat /\ graph <= graph'
    BY <1>0, <1>9, <1>10, <1>11, ChangesGrow DEF TypeInv, CacheTypes
  <2>5. QED BY <1>0, <1>11, <2>3, <2>4, RequestMoves DEF TypeInv
<1>13. ASSUME ~ crossed' PROVE Uncrossed'
  <2>1. \A u \in Slots \ {t} : ~ At(u, "idle") =>
            ~ Crosses(op, task[u].op) /\ ~ Crosses(task[u].op, op)
    BY <1>1, <1>13
  <2>2. op = "explore" => cooldown = None
    BY <1>1, <1>13
  <2>3. /\ task \in [Slots -> Requests] /\ task'[t] = k
        /\ \A u \in Slots \ {t} : task'[u] = task[u]
    BY <1>0, <1>11 DEF Becomes, TypeInv, RequestTypes
  <2>4. Apart'
    BY <1>0, <1>8, <2>1, <2>3 DEF Uncrossed, Apart, At
  <2>5. CachesCurrent' /\ RegistrySound'
    BY <1>0, <1>11 DEF Uncrossed, CachesCurrent, RegistrySound, caches, registry, history, Current
  <2>6. Informed(k)'
    <3>1. op = "explore" => replica >= executed
      BY <1>0, <2>2 DEF Uncrossed, CachesCurrent
    <3>2. Entry(op) \notin {"fill", "find", "lock", "amendments", "append", "store"}
          /\ (op \in {"generate", "scoped"} => Entry(op) = "cooldown")
          /\ (op = "execute" => Entry(op) = "commit")
          /\ (op \in Mutators \cup {"amend"} => Entry(op) # "invalidate")
      BY <1>4 DEF Ops, Entry, Mutators
    <3>3. ReadsCurrent(k)
      BY <1>5, <1>8, <3>1, <3>2 DEF ReadsCurrent, Detecting
    <3>4. Emptied(k) /\ RegistryKnown(k)
      BY <1>8, <3>2 DEF Emptied, RegistryKnown
    <3>5. QED BY <1>11, <3>3, <3>4
              DEF Informed, ReadsCurrent, Emptied, RegistryKnown, caches, registry, history
  <2>7. ASSUME NEW u \in Slots PROVE Informed(task[u])'
    <3>1. CASE u = t
      BY <2>3, <2>6, <3>1 DEF Informed, ReadsCurrent, Emptied, RegistryKnown
    <3>2. CASE u # t
      <4>1. task'[u] = task[u] /\ Informed(task[u])
        BY <1>0, <2>3, <3>2 DEF Uncrossed
      <4>2. QED BY <1>11, <4>1
               DEF Informed, ReadsCurrent, Emptied, RegistryKnown, caches, registry, history
    <3>3. QED BY <3>1, <3>2
  <2>8. QED BY <2>4, <2>5, <2>7 DEF Uncrossed
<1>14. QED BY <1>12, <1>13 DEF IInv

LEMMA Task ==
    ASSUME IInv, NEW t \in Slots
    PROVE  /\ task[t] \in Requests /\ Proper(task[t]) /\ TypeInv
           /\ ~ crossed => Uncrossed /\ Informed(task[t])
BY DEF IInv, TypeInv, RequestTypes, Uncrossed

LEMMA CheckCooldownKeeps ==
    ASSUME IInv, NEW t \in Slots, CheckCooldown(t)
    PROVE  IInv'
<1>1. /\ ~ At(t, "idle")
      /\ Works \/ Fails
      /\ UNCHANGED <<graph, replica, caches, registry, history>>
  BY DEF CheckCooldown, At
<1>2. CASE Replies(t)
  BY <1>1, <1>2, ReplyKeeps
<1>3. CASE Goes(t, "schema") /\ (~ crossed' => cooldown = None)
  <2>1. PICK m \in Requests : m = task[t] /\ Proper(m) /\ m.pc = "cooldown"
    BY Task DEF CheckCooldown, At
  <2>2. PICK k : k = [m EXCEPT !.pc = "schema"] /\ Becomes(t, k)
    BY <1>3, <2>1 DEF Goes
  <2>3. /\ k \in Requests
        /\ k.op = m.op /\ k.pc = "schema" /\ k.stage = m.stage /\ k.edge = m.edge
        /\ k.schema = m.schema /\ k.todo = m.todo /\ k.basis = m.basis /\ k.got = m.got
    BY <2>2, Relabel DEF Pcs
  <2>4. m.op \in {"generate", "scoped"}
    BY <2>1, PlaceOf
  <2>5. Proper(k)
    BY <2>1, <2>3, <2>4 DEF Proper, Places, Unread
  <2>6. ASSUME ~ crossed' PROVE Informed(k)
    <3>1. Uncrossed /\ Informed(m) /\ cooldown = None
      BY <1>1, <1>3, <2>1, <2>6, CallCounted, Task
    <3>2. replica >= executed
      BY <3>1 DEF Uncrossed, CachesCurrent
    <3>3. QED BY <2>1, <2>3, <2>4, <3>1, <3>2
              DEF Informed, ReadsCurrent, Emptied, RegistryKnown, Mutators
  <2>7. QED BY <1>1, <2>1, <2>2, <2>3, <2>5, <2>6, QuietKeeps
<1>4. QED BY <1>2, <1>3 DEF CheckCooldown, Fails

LEMMA ReadSchemaKeeps ==
    ASSUME IInv, NEW t \in Slots, ReadSchema(t)
    PROVE  IInv'
<1>1. /\ ~ At(t, "idle")
      /\ Works \/ Fails
      /\ UNCHANGED <<graph, replica, caches, registry, history>>
  BY DEF ReadSchema, At
<1>2. PICK m \in Requests : m = task[t] /\ Proper(m) /\ m.pc = "schema"
  BY Task DEF ReadSchema, At
<1>3. PICK found \in {schema, None} :
        /\ ~ crossed' => found = schema
        /\ IF ~ GoesOn(t, found) THEN Replies(t)
           ELSE Becomes(t, [m EXCEPT !.pc = AfterSchema(m.op),
                                     !.schema = IF m.op = "approve" THEN @ ELSE found])
  BY <1>2 DEF ReadSchema, Fails
<1>4. CASE ~ GoesOn(t, found)
  BY <1>1, <1>3, <1>4, ReplyKeeps
<1>5. CASE GoesOn(t, found)
  <2>1. PICK k : /\ k = [m EXCEPT !.pc = AfterSchema(m.op),
                                  !.schema = IF m.op = "approve" THEN @ ELSE found]
                 /\ Becomes(t, k)
    BY <1>3, <1>5
  <2>2. m.op \in {"generate", "scoped", "execute", "orphans", "approve", "amend"}
    BY <1>2, PlaceOf
  <2>3. /\ m.op # "approve" => found \in Versions
        /\ m.op = "amend" => m.edge \notin Base[found]
        /\ m.op = "approve" => found = None
    BY <1>2, <1>3, <1>5, <2>2, Task DEF GoesOn, TypeInv, CacheTypes
  <2>4. AfterSchema(m.op) \in Pcs /\ AfterSchema(m.op) \in Places(m.op)
    BY <2>2 DEF AfterSchema, Pcs, Places
  <2>5. /\ k.op = m.op /\ k.pc = AfterSchema(m.op) /\ k.stage = m.stage /\ k.edge = m.edge
        /\ k.todo = m.todo /\ k.stages = m.stages /\ k.basis = m.basis
        /\ k.got = m.got /\ k.plan = m.plan /\ k.change = m.change
        /\ k.schema = IF m.op = "approve" THEN m.schema ELSE found
    BY <2>1 DEF Requests
  <2>6. k \in Requests
    BY <2>1, <2>3, <2>4 DEF Requests
  <2>7. /\ AfterSchema(m.op) \notin {"query", "fill", "store", "commit", "verify", "invalidate"}
        /\ AfterSchema(m.op) = "find" <=> m.op = "orphans"
        /\ AfterSchema(m.op) = "amendments" <=> m.op \in {"scoped", "amend"}
        /\ AfterSchema(m.op) = "lock" <=> m.op = "approve"
        /\ AfterSchema(m.op) # "append"
    BY <2>2 DEF AfterSchema
  <2>8. Proper(k)
    <3>1. m.op \in Detecting => m.todo = Queries
      BY <1>2 DEF Proper, Unread
    <3>2. /\ m.op = "orphans" => m.stages # {} /\ m.plan = Plan(m.op)
          /\ m.op = "amend" => m.plan = Plan(m.op)
      BY <1>2 DEF Proper
    <3>3. m.stage \in Stages /\ m.edge \in Edges /\ m.schema \in Versions /\ m.basis = {}
      BY <1>2 DEF Proper
    <3>4. k.op \in Ops /\ k.pc \in Places(k.op) /\ k.schema \in Versions
      BY <2>2, <2>3, <2>4, <2>5, <3>3 DEF Ops
    <3>5. k.op \in Detecting => k.todo = Queries /\ k.pc # "store" /\ (k.op = "generate" => k.pc # "amendments")
      BY <2>5, <2>7, <3>1
    <3>6. /\ k.op = "orphans" => k.stages # {} /\ k.plan = Plan(k.op)
          /\ k.op = "amend" => k.plan = Plan(k.op)
      BY <2>5, <3>2
    <3>7. k.pc \notin {"query", "fill", "commit", "verify", "invalidate"}
      BY <2>5, <2>7
    <3>8. k.pc = "lookup" => k.todo # {}
      BY <2>2, <2>5, <2>7, <3>4, <3>5, CacheAssumption DEF Places, Detecting
    <3>9. QED BY <2>5, <3>3, <3>4, <3>5, <3>6, <3>7, <3>8 DEF Proper
  <2>9. ASSUME ~ crossed' PROVE Informed(k)
    <3>1. Uncrossed /\ Informed(m) /\ found = schema
      BY <1>1, <1>2, <1>3, <2>9, CallCounted, Task
    <3>2. ReadsCurrent(k)
      <4>1. m.basis = {} /\ ReadsCurrent(m)
        BY <1>2, <3>1 DEF Proper, Informed
      <4>2. QED BY <1>2, <2>5, <2>7, <4>1 DEF ReadsCurrent
    <3>3. Emptied(k) /\ RegistryKnown(k)
      BY <2>3, <2>5, <2>7, <3>1 DEF Emptied, RegistryKnown
    <3>4. QED BY <3>2, <3>3 DEF Informed
  <2>10. QED BY <1>1, <1>2, <2>1, <2>5, <2>6, <2>8, <2>9, QuietKeeps
<1>6. QED BY <1>4, <1>5

LEMMA LookUpListKeeps ==
    ASSUME IInv, NEW t \in Slots, LookUpList(t)
    PROVE  IInv'
<1>1. /\ ~ At(t, "idle")
      /\ Works \/ Fails
      /\ UNCHANGED <<graph, replica, caches, registry, history>>
  BY DEF LookUpList, At
<1>2. CASE Replies(t)
  BY <1>1, <1>2, ReplyKeeps
<1>3. CASE Goes(t, "lookup")
  <2>1. PICK m \in Requests : m = task[t] /\ Proper(m) /\ m.pc = "list"
    BY Task DEF LookUpList, At
  <2>2. PICK k : k = [m EXCEPT !.pc = "lookup"] /\ Becomes(t, k)
    BY <1>3, <2>1 DEF Goes
  <2>3. /\ k \in Requests
        /\ k.op = m.op /\ k.pc = "lookup" /\ k.stage = m.stage /\ k.edge = m.edge
        /\ k.schema = m.schema /\ k.todo = m.todo /\ k.basis = m.basis /\ k.got = m.got
    BY <2>2, Relabel DEF Pcs
  <2>4. m.op = "generate"
    BY <2>1, PlaceOf
  <2>5. Proper(k)
    BY <2>1, <2>3, <2>4, CacheAssumption DEF Proper, Places, Unread, Detecting
  <2>6. ASSUME ~ crossed' PROVE Informed(k)
    <3>1. Informed(m)
      BY <1>1, <2>1, <2>6, CallCounted, Task
    <3>2. QED BY <2>1, <2>3, <2>4, <3>1
              DEF Informed, ReadsCurrent, Emptied, RegistryKnown, Mutators
  <2>7. QED BY <1>1, <2>1, <2>2, <2>3, <2>5, <2>6, QuietKeeps
<1>4. QED BY <1>2, <1>3 DEF LookUpList

LEMMA FindOrphansKeeps ==
    ASSUME IInv, NEW t \in Slots, FindOrphans(t)
    PROVE  IInv'
<1>1. /\ ~ At(t, "idle")
      /\ Works \/ Fails
      /\ UNCHANGED <<graph, replica, caches, registry, history>>
  BY DEF FindOrphans, At
<1>2. PICK m \in Requests : m = task[t] /\ Proper(m) /\ m.pc = "find" /\ TypeInv
  BY Task DEF FindOrphans, At
<1>3. PICK stage \in m.stages : stage = CHOOSE s \in m.stages : TRUE
  BY <1>2, PlaceOf DEF Proper
<1>4. PICK basis :
        /\ \/ basis = m.basis
           \/ /\ lists[<<m.schema, stage>>] # None
              /\ basis = m.basis \cup {lists[<<m.schema, stage>>].saw}
        /\ IF m.stages \ {stage} = {} /\ basis = {} THEN Replies(t)
           ELSE Becomes(t, [m EXCEPT !.stages = m.stages \ {stage}, !.basis = basis,
                                     !.pc = IF m.stages \ {stage} = {} THEN "commit" ELSE "find"])
  BY <1>2, <1>3 DEF FindOrphans
<1>5. m.op = "orphans" /\ m.schema \in Versions /\ m.stages \subseteq Stages
  BY <1>2, PlaceOf DEF Proper, Requests
<1>6. lists[<<m.schema, stage>>] # None => lists[<<m.schema, stage>>] \in Results
  BY <1>2, <1>5 DEF TypeInv, CacheTypes
<1>7. CASE Replies(t)
  BY <1>1, <1>7, ReplyKeeps
<1>8. CASE ~ (m.stages \ {stage} = {} /\ basis = {})
  <2>1. PICK k : /\ k = [m EXCEPT !.stages = m.stages \ {stage}, !.basis = basis,
                                  !.pc = IF m.stages \ {stage} = {} THEN "commit" ELSE "find"]
                 /\ Becomes(t, k)
    BY <1>4, <1>8
  <2>2. basis \subseteq [Queries -> Changes]
    BY <1>4, <1>6 DEF Results, Requests
  <2>3. /\ k.op = m.op /\ k.stage = m.stage /\ k.edge = m.edge
        /\ k.schema = m.schema /\ k.todo = m.todo /\ k.stages = m.stages \ {stage}
        /\ k.basis = basis /\ k.plan = m.plan
        /\ k.pc \in {"commit", "find"} /\ (k.pc = "find" => m.stages \ {stage} # {})
    BY <2>1 DEF Requests
  <2>4. k \in Requests
    BY <2>1, <2>2 DEF Requests, Pcs
  <2>5. Proper(k)
    BY <1>2, <1>5, <2>3 DEF Proper, Places, Detecting
  <2>6. ASSUME ~ crossed' PROVE Informed(k)
    <3>1. Informed(m) /\ Uncrossed
      BY <1>1, <1>2, <2>6, CallCounted, Task
    <3>2. \A saw \in basis, q \in Queries : saw[q] >= executed
      BY <1>2, <1>3, <1>4, <1>5, <3>1
      DEF Uncrossed, CachesCurrent, Current, Informed, ReadsCurrent
    <3>3. ReadsCurrent(k) /\ Emptied(k) /\ RegistryKnown(k)
      BY <1>5, <2>3, <3>2 DEF ReadsCurrent, Emptied, RegistryKnown, Detecting
    <3>4. QED BY <3>3 DEF Informed
  <2>7. QED BY <1>1, <1>2, <2>1, <2>3, <2>4, <2>5, <2>6, QuietKeeps
<1>9. QED BY <1>4, <1>7, <1>8

\* A query result has come in.
LEMMA HasSound ==
    ASSUME TypeInv, NEW m \in Requests, Proper(m), m.pc \in {"lookup", "fill"},
           NEW q \in m.todo, NEW change \in Changes, NEW h, h = Has(m, q, change)
    PROVE  /\ h \in Requests /\ Proper(h) /\ (h.pc # "idle" => h.op = m.op)
           /\ h.pc # "invalidate"
           /\ ReadsCurrent(m) /\ change >= executed => Informed(h)
<1>0. /\ m.op \in {"generate", "scoped", "explore", "execute"} /\ q \in Queries
      /\ m.todo \subseteq Queries /\ m.basis = {}
  <2>1. m.op \in Ops /\ m.pc \in Places(m.op)
    BY DEF Proper
  <2>2. m.op \in {"generate", "scoped", "explore", "execute"}
    BY <2>1 DEF Ops, Places
  <2>3. QED BY <2>2 DEF Requests, Proper
<1>1. CASE m.todo \ {q} # {} \/ AfterReads(m) # "idle"
  <2>1. PICK pc : /\ h = [m EXCEPT !.got[q] = change, !.todo = m.todo \ {q}, !.pc = pc]
                  /\ m.todo \ {q} # {} => pc = "lookup"
                  /\ m.todo \ {q} = {} => pc = AfterReads(m) /\ pc # "idle"
    BY <1>1 DEF Has
  <2>2. /\ pc \in {"lookup", "amendments", "store"}
        /\ pc = "amendments" => m.op = "generate"
        /\ pc = "store" => m.op \in {"generate", "execute"}
        /\ pc = "store" /\ m.op = "generate" => m.stage \notin {0, 2}
        /\ pc # "lookup" <=> m.todo \ {q} = {}
    BY <1>0, <2>1 DEF AfterReads
  <2>3. /\ h.op = m.op /\ h.pc = pc /\ h.stage = m.stage /\ h.edge = m.edge
        /\ h.schema = m.schema /\ h.todo = m.todo \ {q} /\ h.basis = m.basis
        /\ h.plan = m.plan /\ h.change = m.change
        /\ h.got = [m.got EXCEPT ![q] = change]
    BY <2>1 DEF Requests
  <2>4. h \in Requests
    <3>1. h.got \in [Queries -> Changes \cup {None}]
      BY <2>3 DEF Requests
    <3>2. h.todo \in SUBSET Queries /\ pc \in Pcs
      BY <1>0, <2>2, <2>3 DEF Pcs
    <3>3. QED BY <2>1, <2>3, <3>1, <3>2 DEF Requests
  <2>5. \A r \in Queries \ h.todo : h.got[r] = change \/ (r \notin m.todo /\ h.got[r] = m.got[r])
    BY <1>0, <2>3 DEF Requests
  <2>6. Proper(h)
    <3>1. h.op \in Ops /\ h.pc \in Places(h.op)
      BY <1>0, <2>2, <2>3 DEF Ops, Places
    <3>2. h.op \in Detecting => \A r \in Queries \ h.todo : h.got[r] \in Changes
      BY <2>3, <2>5 DEF Proper
    <3>3. h.pc \notin Unread \cup {"find", "query", "fill", "commit", "verify", "invalidate", "schema"}
          /\ (h.pc = "lookup" => h.todo # {}) /\ (h.pc # "lookup" => h.todo = {})
          /\ ~ (h.pc = "amendments" /\ h.op = "scoped")
      BY <1>0, <2>1, <2>2, <2>3 DEF Unread
    <3>4. QED BY <1>0, <2>3, <3>1, <3>2, <3>3 DEF Proper
  <2>7. ASSUME ReadsCurrent(m), change >= executed PROVE Informed(h)
    <3>1. ReadsCurrent(h)
      <4>1. h.op \in Detecting => \A r \in Queries \ h.todo : h.got[r] >= executed
        BY <2>3, <2>5, <2>7 DEF ReadsCurrent
      <4>2. QED BY <1>0, <2>2, <2>3, <2>7, <4>1 DEF ReadsCurrent
    <3>2. Emptied(h) /\ RegistryKnown(h)
      BY <1>0, <2>2, <2>3 DEF Emptied, RegistryKnown
    <3>3. QED BY <3>1, <3>2 DEF Informed
  <2>8. QED BY <2>2, <2>3, <2>4, <2>6, <2>7
<1>2. CASE m.todo \ {q} = {} /\ AfterReads(m) = "idle"
  BY <1>2, IdleSound DEF Has
<1>3. QED BY <1>1, <1>2

LEMMA LookUpReadKeeps ==
    ASSUME IInv, NEW t \in Slots, LookUpRead(t)
    PROVE  IInv'
<1>1. /\ ~ At(t, "idle")
      /\ Works \/ Fails
      /\ UNCHANGED <<graph, replica, caches, registry, history>>
  BY DEF LookUpRead, At
<1>2. PICK m \in Requests : m = task[t] /\ Proper(m) /\ m.pc = "lookup" /\ TypeInv
  BY Task DEF LookUpRead, At
<1>3. PICK q \in m.todo : q = NextQuery(m)
  BY <1>2 DEF NextQuery, Proper
<1>4. \/ reads[q] # None /\ Becomes(t, Has(m, q, reads[q]))
      \/ Becomes(t, [m EXCEPT !.pc = "query", !.query = q])
  BY <1>2, <1>3 DEF LookUpRead
<1>5. q \in Queries /\ m.op \in {"generate", "scoped", "explore", "execute"} /\ m.basis = {}
  <2>1. m.op \in Ops /\ m.pc \in Places(m.op)
    BY <1>2 DEF Proper
  <2>2. m.op \in {"generate", "scoped", "explore", "execute"}
    BY <1>2, <2>1 DEF Ops, Places
  <2>3. QED BY <1>2, <2>2 DEF Requests, Proper
<1>6. CASE reads[q] # None /\ Becomes(t, Has(m, q, reads[q]))
  <2>1. PICK h : h = Has(m, q, reads[q]) /\ Becomes(t, h)
    BY <1>6
  <2>2. PICK change \in Changes : change = reads[q]
    BY <1>2, <1>5, <1>6 DEF TypeInv, CacheTypes
  <2>3. /\ h \in Requests /\ Proper(h) /\ (h.pc # "idle" => h.op = m.op)
        /\ ReadsCurrent(m) /\ change >= executed => Informed(h)
    BY <1>2, <2>1, <2>2, HasSound
  <2>4. ASSUME ~ crossed' PROVE Informed(h)
    <3>1. Informed(m) /\ Uncrossed
      BY <1>1, <1>2, <2>4, CallCounted, Task
    <3>2. ReadsCurrent(m) /\ change >= executed
      BY <1>2, <1>5, <1>6, <2>2, <3>1 DEF Informed, Uncrossed, CachesCurrent
    <3>3. QED BY <2>3, <3>2
  <2>5. QED BY <1>1, <1>2, <2>1, <2>3, <2>4, QuietKeeps
<1>7. CASE Becomes(t, [m EXCEPT !.pc = "query", !.query = q])
  <2>1. PICK k : k = [m EXCEPT !.pc = "query", !.query = q] /\ Becomes(t, k)
    BY <1>7
  <2>2. /\ k.op = m.op /\ k.pc = "query" /\ k.stage = m.stage /\ k.edge = m.edge
        /\ k.schema = m.schema /\ k.todo = m.todo /\ k.basis = m.basis /\ k.query = q
        /\ k.got = m.got /\ k.change = m.change
    BY <2>1 DEF Requests
  <2>3. k \in Requests
    BY <1>5, <2>1 DEF Requests, Pcs
  <2>4. Proper(k)
    BY <1>2, <1>5, <2>2 DEF Proper, Places, Unread
  <2>5. ASSUME ~ crossed' PROVE Informed(k)
    <3>1. ReadsCurrent(m)
      BY <1>1, <1>2, <2>5, CallCounted, Task DEF Informed
    <3>2. ReadsCurrent(k)
      BY <1>2, <1>5, <2>2, <3>1 DEF ReadsCurrent
    <3>3. QED BY <2>2, <3>2 DEF Informed, Emptied, RegistryKnown
  <2>6. QED BY <1>1, <1>2, <2>1, <2>2, <2>3, <2>4, <2>5, QuietKeeps
<1>8. QED BY <1>4, <1>6, <1>7

LEMMA QueryGraphKeeps ==
    ASSUME IInv, NEW t \in Slots, QueryGraph(t)
    PROVE  IInv'
<1>1. /\ ~ At(t, "idle")
      /\ Works \/ Fails
      /\ UNCHANGED <<graph, replica, caches, registry, history>>
  BY DEF QueryGraph, At
<1>2. PICK m \in Requests : m = task[t] /\ Proper(m) /\ m.pc = "query" /\ TypeInv
  BY Task DEF QueryGraph, At
<1>3. CASE Replies(t)
  BY <1>1, <1>3, ReplyKeeps
<1>4. ASSUME NEW v \in replica .. graph, Becomes(t, [m EXCEPT !.pc = "fill", !.saw = v])
      PROVE  IInv'
  <2>1. PICK k : k = [m EXCEPT !.pc = "fill", !.saw = v] /\ Becomes(t, k)
    BY <1>4
  <2>2. /\ k.op = m.op /\ k.pc = "fill" /\ k.stage = m.stage /\ k.edge = m.edge
        /\ k.schema = m.schema /\ k.todo = m.todo /\ k.basis = m.basis /\ k.query = m.query
        /\ k.got = m.got /\ k.change = m.change /\ k.saw = v
    BY <2>1 DEF Requests
  <2>3. v \in Changes /\ v >= replica
    BY <1>2 DEF TypeInv, CacheTypes, Changes
  <2>4. k \in Requests
    BY <2>1, <2>3 DEF Requests, Pcs
  <2>5. m.op \in {"generate", "scoped", "explore", "execute"} /\ m.basis = {}
    <3>1. m.op \in Ops /\ m.pc \in Places(m.op)
      BY <1>2 DEF Proper
    <3>2. m.op \in {"generate", "scoped", "explore", "execute"}
      BY <1>2, <3>1 DEF Ops, Places
    <3>3. QED BY <1>2, <3>2 DEF Proper
  <2>6. Proper(k)
    BY <1>2, <2>2, <2>5 DEF Proper, Places, Unread
  <2>7. ASSUME ~ crossed' PROVE Informed(k)
    <3>1. ReadsCurrent(m)
      BY <1>1, <1>2, <2>7, CallCounted, Task DEF Informed
    <3>2. replica >= executed
      BY <1>2, <2>5, <3>1 DEF ReadsCurrent
    <3>3. v >= executed
      BY <1>2, <2>3, <3>2 DEF TypeInv, CacheTypes, Changes
    <3>4. ReadsCurrent(k)
      BY <1>2, <2>2, <2>5, <3>1, <3>3 DEF ReadsCurrent
    <3>5. QED BY <2>2, <3>4 DEF Informed, Emptied, RegistryKnown
  <2>8. QED BY <1>1, <1>2, <2>1, <2>2, <2>4, <2>6, <2>7, QuietKeeps
<1>5. QED BY <1>2, <1>3, <1>4 DEF QueryGraph

\* A request that invalidates nothing now is told by the registry, the history and
\* the replicas alone.
LEMMA InformedStays ==
    ASSUME NEW k, Informed(k), k.pc # "invalidate", UNCHANGED <<replica, registry, history>>
    PROVE  Informed(k)'
BY DEF Informed, ReadsCurrent, Emptied, RegistryKnown, registry, history

\* What a detection or an execution writes does not concern the others.
LEMMA OthersStable ==
    ASSUME TypeInv, Apart, NEW t \in Slots, task[t].op \in Readers \cup Mutators, ~ At(t, "idle"),
           UNCHANGED <<replica, registry, history>>,
           NEW u \in Slots \ {t}, ~ At(u, "idle")
    PROVE  Stable(task[u])
<1>1. task[u].op \notin Mutators
  BY Company
<1>2. QED BY <1>1 DEF Stable, TypeInv, CacheTypes, Changes, registry, history

LEMMA FillReadKeeps ==
    ASSUME IInv, NEW t \in Slots, FillRead(t)
    PROVE  IInv'
<1>1. /\ ~ At(t, "idle")
      /\ Works \/ Fails
      /\ UNCHANGED <<graph, replica, lists, affected, cooldown, registry, history>>
  BY DEF FillRead, At
<1>2. PICK m \in Requests : m = task[t] /\ Proper(m) /\ m.pc = "fill" /\ TypeInv
  BY Task DEF FillRead, At
<1>3. PICK h : h = Has(m, m.query, m.saw) /\ Becomes(t, h)
  BY <1>2 DEF FillRead
<1>4. /\ m.query \in m.todo /\ m.query \in Queries /\ m.saw \in Changes
      /\ m.op \in Readers \cup Mutators
  BY <1>2, PlaceOf DEF Proper, Requests
<1>5. /\ h \in Requests /\ Proper(h) /\ (h.pc # "idle" => h.op = m.op)
      /\ h.pc # "invalidate"
      /\ ReadsCurrent(m) /\ m.saw >= executed => Informed(h)
  BY <1>2, <1>3, <1>4, HasSound
<1>6. reads' = reads \/ (reads' = [reads EXCEPT ![m.query] = m.saw])
  BY <1>2 DEF FillRead
<1>7. TypeInv'
  <2>1. graph' \in Nat /\ graph <= graph' /\ h \in Requests' /\ Proper(h)'
    BY <1>1, <1>2, <1>5, ChangesGrow DEF TypeInv, CacheTypes
  <2>2. reads' \in [Queries -> Changes \cup {None}]
    BY <1>2, <1>4, <1>6 DEF TypeInv, CacheTypes
  <2>3. CacheTypes'
    BY <1>1, <1>2, <2>2, CallCounted
    DEF TypeInv, CacheTypes, registry, history, Changes, Results
  <2>4. QED BY <1>2, <1>3, <2>1, <2>3, RequestMoves DEF TypeInv
<1>8. ASSUME ~ crossed' PROVE Uncrossed'
  <2>1. Uncrossed /\ Informed(m)
    BY <1>1, <1>2, <1>8, CallCounted, Task
  <2>2. ReadsCurrent(m) /\ m.saw >= executed
    BY <1>2, <2>1 DEF Informed, ReadsCurrent
  <2>3. Informed(h)'
    BY <1>1, <1>5, <2>2, InformedStays
  <2>4. CachesCurrent'
    <3>1. \A q \in Queries : reads'[q] # None => reads'[q] >= executed
      BY <1>2, <1>4, <1>6, <2>1, <2>2 DEF Uncrossed, CachesCurrent, TypeInv, CacheTypes
    <3>2. QED BY <1>1, <2>1, <3>1 DEF Uncrossed, CachesCurrent, Current, history
  <2>5. RegistrySound'
    BY <1>1, <2>1 DEF Uncrossed, RegistrySound, registry, history
  <2>6. \A u \in Slots \ {t} : ~ At(u, "idle") => Stable(task[u])
    BY <1>1, <1>2, <1>4, <2>1, OthersStable DEF Uncrossed
  <2>7. QED BY <1>1, <1>2, <1>3, <1>5, <2>1, <2>3, <2>4, <2>5, <2>6, Move
<1>9. QED BY <1>7, <1>8 DEF IInv

LEMMA ReadAmendmentsKeeps ==
    ASSUME IInv, NEW t \in Slots, ReadAmendments(t)
    PROVE  IInv'
<1>1. /\ ~ At(t, "idle")
      /\ Works \/ Fails
      /\ UNCHANGED <<graph, replica, caches, registry, history>>
  BY DEF ReadAmendments, At
<1>2. PICK m \in Requests : m = task[t] /\ Proper(m) /\ m.pc = "amendments" /\ TypeInv
  BY Task DEF ReadAmendments, At
<1>3. PICK found \in {amendments, {}} :
        /\ ~ crossed' => found = amendments
        /\ LET k == [m EXCEPT !.amended = found]
           IN  IF AfterAmendments(k) = "idle" THEN Replies(t)
               ELSE Becomes(t, [k EXCEPT !.pc = AfterAmendments(k)])
  BY <1>2 DEF ReadAmendments, Fails
<1>4. PICK a : a = [m EXCEPT !.amended = found]
  OBVIOUS
<1>5. CASE AfterAmendments(a) = "idle"
  <2>1. Replies(t)
    BY <1>3, <1>4, <1>5
  <2>2. QED BY <1>1, <2>1, ReplyKeeps
<1>6. CASE AfterAmendments(a) # "idle"
  <2>1. PICK k : k = [a EXCEPT !.pc = AfterAmendments(a)] /\ Becomes(t, k)
    BY <1>3, <1>4, <1>6
  <2>2. m.op \in {"generate", "scoped", "amend"}
    BY <1>2, PlaceOf
  <2>3. /\ AfterAmendments(a) \in {"store", "lookup", "append"}
        /\ AfterAmendments(a) = "store" <=> m.op = "generate"
        /\ AfterAmendments(a) = "lookup" <=> m.op = "scoped"
        /\ AfterAmendments(a) = "append" <=> m.op = "amend"
    BY <1>4, <1>6, <2>2 DEF AfterAmendments, Requests
  <2>4. /\ k.op = m.op /\ k.pc = AfterAmendments(a) /\ k.stage = m.stage /\ k.edge = m.edge
        /\ k.schema = m.schema /\ k.todo = m.todo /\ k.basis = m.basis /\ k.plan = m.plan
        /\ k.got = m.got /\ k.change = m.change /\ k.amended = found
    BY <1>4, <2>1 DEF Requests
  <2>5. k \in Requests
    <3>1. found \in SUBSET Edges /\ AfterAmendments(a) \in Pcs
      BY <1>2, <2>3 DEF TypeInv, CacheTypes, Pcs
    <3>2. QED BY <1>4, <2>1, <3>1 DEF Requests
  <2>6. Proper(k)
    <3>1. k.op \in Ops /\ k.pc \in Places(k.op)
      BY <2>2, <2>3, <2>4 DEF Ops, Places
    <3>2. /\ m.op = "scoped" => m.todo = Queries
          /\ m.op = "generate" => m.todo = {}
          /\ m.basis = {} /\ (m.op = "amend" => m.plan = Plan(m.op))
          /\ m.op \in Detecting => \A q \in Queries \ m.todo : m.got[q] \in Changes
          /\ m.stage \in Stages /\ m.edge \in Edges /\ m.schema \in Versions
      BY <1>2, <2>2 DEF Proper, Detecting
    <3>3. k.pc \notin Unread \cup {"find", "query", "fill", "amendments"}
      BY <2>3, <2>4 DEF Unread
    <3>4. k.pc = "lookup" => k.todo # {}
      BY <2>3, <2>4, <3>2, CacheAssumption
    <3>5. QED BY <2>2, <2>3, <2>4, <3>1, <3>2, <3>3, <3>4 DEF Proper, Unread
  <2>7. ASSUME ~ crossed' PROVE Informed(k)
    <3>1. Informed(m) /\ Uncrossed /\ found = amendments
      BY <1>1, <1>2, <1>3, <2>7, CallCounted, Task
    <3>2. ReadsCurrent(k)
      BY <1>2, <2>2, <2>3, <2>4, <3>1 DEF Informed, ReadsCurrent
    <3>3. Emptied(k)
      BY <2>3, <2>4 DEF Emptied
    <3>4. RegistryKnown(k)
      BY <1>2, <2>2, <2>3, <2>4, <3>1
      DEF Informed, RegistryKnown, Uncrossed, RegistrySound
    <3>5. QED BY <3>2, <3>3, <3>4 DEF Informed
  <2>8. QED BY <1>1, <1>2, <2>1, <2>4, <2>5, <2>6, <2>7, QuietKeeps
<1>7. QED BY <1>5, <1>6

LEMMA StoreKeeps ==
    ASSUME IInv, NEW t \in Slots, Store(t)
    PROVE  IInv'
<1>1. /\ ~ At(t, "idle")
      /\ Works \/ Fails
      /\ UNCHANGED <<graph, replica, reads, cooldown, registry, history>>
      /\ Becomes(t, Idle)
  BY DEF Store, At, Replies
<1>2. PICK m \in Requests : m = task[t] /\ Proper(m) /\ m.pc = "store" /\ TypeInv
  BY Task DEF Store, At
<1>3. PICK result : result = [saw |-> m.got, amended |-> m.amended, since |-> m.change]
  OBVIOUS
<1>4. m.op \in {"generate", "execute"} /\ m.schema \in Versions /\ m.stage \in Stages
  BY <1>2, PlaceOf DEF Proper
<1>5. result \in Results
  <2>1. m.got \in [Queries -> Changes]
    <3>1. m.got \in [Queries -> Changes \cup {None}] /\ \A q \in Queries : m.got[q] \in Changes
      BY <1>2, <1>4 DEF Proper, Requests, Detecting
    <3>2. QED BY <3>1
  <2>2. QED BY <1>2, <1>3, <2>1 DEF Results, Requests
<1>6. \/ m.op = "generate" /\ lists' = [lists EXCEPT ![<<m.schema, m.stage>>] = result] /\ affected' = affected
      \/ m.op = "execute" /\ affected' = result /\ lists' = lists
      \/ lists' = lists /\ affected' = affected
  BY <1>2, <1>3 DEF Store
<1>7. TypeInv'
  <2>1. /\ lists' \in [Versions \X Stages -> Results \cup {None}]
        /\ affected' \in Results \cup {None}
    BY <1>2, <1>4, <1>5, <1>6 DEF TypeInv, CacheTypes
  <2>2. CacheTypes'
    BY <1>1, <1>2, <2>1, CallCounted
    DEF TypeInv, CacheTypes, registry, history, Changes, Results
  <2>3. graph' \in Nat /\ graph <= graph' /\ Idle \in Requests' /\ Proper(Idle)'
    BY <1>1, <1>2, IdleSound, ChangesGrow DEF TypeInv, CacheTypes
  <2>4. QED BY <1>1, <1>2, <2>2, <2>3, RequestMoves DEF TypeInv
<1>8. ASSUME ~ crossed' PROVE Uncrossed'
  <2>1. Uncrossed /\ Informed(m)
    BY <1>1, <1>2, <1>8, CallCounted, Task
  <2>2. /\ \A q \in Queries : m.got[q] >= executed
        /\ m.op = "execute" => executed = m.change
        /\ m.op = "generate" /\ m.stage \in {0, 2} => honoured \subseteq m.amended
    BY <1>2, <1>4, <2>1 DEF Informed, ReadsCurrent, RegistryKnown, Proper, Detecting
  <2>3. CachesCurrent'
    <3>1. ASSUME NEW l \in Versions \X Stages, lists'[l] # None
          PROVE  Current(lists'[l]) /\ (l[2] \in {0, 2} => honoured \subseteq lists'[l].amended)
      <4>1. CASE lists'[l] = lists[l]
        BY <2>1, <3>1, <4>1 DEF Uncrossed, CachesCurrent
      <4>2. CASE l = <<m.schema, m.stage>> /\ lists'[l] = result /\ m.op = "generate"
        BY <1>3, <2>2, <4>2 DEF Current
      <4>3. QED BY <1>2, <1>6, <4>1, <4>2 DEF TypeInv, CacheTypes
    <3>2. affected' # None => \A q \in Queries : affected'.saw[q] >= affected'.since
      BY <1>3, <1>6, <2>1, <2>2 DEF Uncrossed, CachesCurrent
    <3>3. QED BY <1>1, <2>1, <3>1, <3>2 DEF Uncrossed, CachesCurrent, Current, history
  <2>4. RegistrySound'
    BY <1>1, <2>1 DEF Uncrossed, RegistrySound, registry, history
  <2>5. \A u \in Slots \ {t} : ~ At(u, "idle") => Stable(task[u])
    BY <1>1, <1>2, <1>4, <2>1, OthersStable DEF Uncrossed, Readers, Mutators
  <2>6. QED BY <1>1, <1>2, <2>1, <2>3, <2>4, <2>5, IdleSound, Move
<1>9. QED BY <1>7, <1>8 DEF IInv

\* What is left of a bulk deletion after an error.
LEMMA AfterOrphansSound ==
    ASSUME NEW m \in Requests, Proper(m), m.op = "orphans", m.pc \in {"commit", "verify"},
           NEW k, k = [m EXCEPT !.pc = "invalidate", !.plan = AfterOrphans]
    PROVE  k \in Requests /\ Proper(k)
<1>1. /\ k.op = m.op /\ k.pc = "invalidate" /\ k.stage = m.stage /\ k.edge = m.edge
      /\ k.schema = m.schema /\ k.plan = <<"lists", "reads">>
  BY DEF Requests, AfterOrphans
<1>2. <<"lists", "reads">> \in Seq({"reads", "lists", "cooldown"})
  OBVIOUS
<1>3. k \in Requests
  BY <1>2 DEF Requests, AfterOrphans, Pcs
<1>4. k.plan \in Rests(k.op)
  BY <1>1 DEF Rests
<1>5. Proper(k)
  BY <1>1, <1>4 DEF Proper, Places, Detecting
<1>6. QED BY <1>3, <1>5

LEMMA LockSchemaKeeps ==
    ASSUME IInv, NEW t \in Slots, LockSchema(t)
    PROVE  IInv'
<1>1. /\ ~ At(t, "idle")
      /\ Works \/ Fails
      /\ UNCHANGED <<graph, replica, caches, amendments, history>>
      /\ Becomes(t, Idle)
  BY DEF LockSchema, At, Replies
<1>2. PICK m \in Requests : m = task[t] /\ Proper(m) /\ m.pc = "lock" /\ TypeInv
  BY Task DEF LockSchema, At
<1>3. m.op = "approve" /\ m.schema \in Versions
  BY <1>2, PlaceOf DEF Proper
<1>4. schema' = m.schema \/ schema' = schema
  BY <1>2 DEF LockSchema
<1>5. TypeInv'
  <2>1. schema' \in Versions \cup {None}
    BY <1>2, <1>3, <1>4 DEF TypeInv, CacheTypes
  <2>2. CacheTypes'
    BY <1>1, <1>2, <2>1, CallCounted DEF TypeInv, CacheTypes, caches, history, Changes, Results
  <2>3. graph' \in Nat /\ graph <= graph' /\ Idle \in Requests' /\ Proper(Idle)'
    BY <1>1, <1>2, IdleSound, ChangesGrow DEF TypeInv, CacheTypes
  <2>4. QED BY <1>1, <1>2, <2>2, <2>3, RequestMoves DEF TypeInv
<1>6. ASSUME ~ crossed' PROVE Uncrossed'
  <2>1. Uncrossed /\ Informed(m)
    BY <1>1, <1>2, <1>6, CallCounted, Task
  <2>2. schema = None
    BY <1>2, <1>3, <2>1 DEF Informed, RegistryKnown
  <2>3. amendments = {} /\ honoured = {}
    BY <2>1, <2>2 DEF Uncrossed, RegistrySound
  <2>4. CachesCurrent'
    BY <1>1, <2>1 DEF Uncrossed, CachesCurrent, Current, caches, history
  <2>5. RegistrySound'
    BY <1>1, <2>3 DEF RegistrySound, history
  <2>6. \A u \in Slots \ {t} : ~ At(u, "idle") => Stable(task[u])
    <3>1. \A u \in Slots \ {t} : ~ At(u, "idle") => task[u].op # "approve"
      BY <1>1, <1>2, <1>3, <2>1, Company DEF Uncrossed
    <3>2. QED BY <1>1, <1>2, <2>2, <3>1 DEF Stable, TypeInv, CacheTypes, Changes, caches, history
  <2>7. QED BY <1>1, <1>2, <2>1, <2>4, <2>5, <2>6, IdleSound, Move
<1>7. QED BY <1>5, <1>6 DEF IInv

LEMMA AppendAmendmentKeeps ==
    ASSUME IInv, NEW t \in Slots, AppendAmendment(t)
    PROVE  IInv'
<1>1. /\ ~ At(t, "idle")
      /\ Works \/ Fails
      /\ UNCHANGED <<graph, replica, caches, schema, history>>
  BY DEF AppendAmendment, At
<1>2. PICK m \in Requests : m = task[t] /\ Proper(m) /\ m.pc = "append" /\ TypeInv
  BY Task DEF AppendAmendment, At
<1>3. /\ m.op = "amend" /\ m.schema \in Versions /\ m.edge \in Edges /\ m.plan = Plan("amend")
      /\ m.basis = {}
  BY <1>2, PlaceOf DEF Proper
<1>4. PICK k : k = [m EXCEPT !.pc = "invalidate"] /\ Becomes(t, k)
  BY <1>2 DEF AppendAmendment, Goes
<1>5. /\ k \in Requests
      /\ k.op = m.op /\ k.pc = "invalidate" /\ k.stage = m.stage /\ k.edge = m.edge
      /\ k.schema = m.schema /\ k.basis = m.basis /\ k.plan = m.plan
  BY <1>2, <1>4, Relabel DEF Pcs
<1>6. Proper(k)
  <2>1. k.plan \in Rests("amend")
    BY <1>3, <1>5 DEF Plan, Rests
  <2>2. QED BY <1>2, <1>3, <1>5, <2>1 DEF Proper, Places, Detecting
<1>7. TypeInv'
  <2>1. amendments' \subseteq Edges
    <3>1. amendments' = m.amended \cup {m.edge} \/ amendments' = amendments
      BY <1>2 DEF AppendAmendment, Registry
    <3>2. QED BY <1>2, <1>3, <3>1 DEF TypeInv, CacheTypes, Requests
  <2>2. CacheTypes'
    BY <1>1, <1>2, <2>1, CallCounted DEF TypeInv, CacheTypes, caches, history, Changes, Results
  <2>3. graph' \in Nat /\ graph <= graph' /\ k \in Requests' /\ Proper(k)'
    BY <1>1, <1>2, <1>5, <1>6, ChangesGrow DEF TypeInv, CacheTypes
  <2>4. QED BY <1>2, <1>4, <2>2, <2>3, RequestMoves DEF TypeInv
<1>8. ASSUME ~ crossed' PROVE Uncrossed'
  <2>1. Uncrossed /\ Informed(m)
    BY <1>1, <1>2, <1>8, CallCounted, Task
  <2>2. amendments' = amendments \cup {m.edge}
    <3>1. amendments' = m.amended \cup {m.edge}
      BY <1>2, <1>8 DEF AppendAmendment, Registry, Fails
    <3>2. m.amended = amendments
      BY <1>2, <1>3, <2>1 DEF Informed, RegistryKnown
    <3>3. QED BY <3>1, <3>2
  <2>3. schema = m.schema /\ schema # None /\ m.edge \notin Base[schema]
    BY <1>2, <1>3, <2>1, CacheAssumption DEF Informed, RegistryKnown
  <2>4. CachesCurrent'
    BY <1>1, <2>1 DEF Uncrossed, CachesCurrent, Current, caches, history
  <2>5. RegistrySound'
    BY <1>1, <2>1, <2>2, <2>3 DEF Uncrossed, RegistrySound, history
  <2>6. \A u \in Slots \ {t} : ~ At(u, "idle") => Stable(task[u])
    <3>1. \A u \in Slots \ {t} : ~ At(u, "idle") => task[u].op # "amend"
      BY <1>1, <1>2, <1>3, <2>1, Company DEF Uncrossed
    <3>2. QED BY <1>1, <1>2, <3>1 DEF Stable, TypeInv, CacheTypes, Changes, caches, history
  <2>7. Informed(k)'
    <3>1. ReadsCurrent(k)'
      BY <1>3, <1>5 DEF ReadsCurrent, Detecting
    <3>2. Emptied(k)' /\ RegistryKnown(k)'
      BY <1>3, <1>5, <2>2 DEF Emptied, RegistryKnown, Mutators
    <3>3. QED BY <3>1, <3>2 DEF Informed
  <2>8. QED BY <1>1, <1>2, <1>4, <1>5, <2>1, <2>4, <2>5, <2>6, <2>7, Move
<1>9. QED BY <1>7, <1>8 DEF IInv

LEMMA CommitKeeps ==
    ASSUME IInv, NEW t \in Slots, Commit(t)
    PROVE  IInv'
<1>1. /\ ~ At(t, "idle")
      /\ Works
      /\ UNCHANGED <<replica, caches, registry, history>>
  BY DEF Commit, At
<1>2. PICK m \in Requests : m = task[t] /\ Proper(m) /\ m.pc = "commit" /\ TypeInv
  BY Task DEF Commit, At
<1>3. graph \in Nat /\ graph' \in {graph, graph + 1} /\ graph' \in Nat /\ graph <= graph'
  BY <1>2 DEF Commit, TypeInv, CacheTypes
<1>4. m.op \in {"execute", "orphans", "extract"} /\ m.plan = Plan(m.op)
  BY <1>2, PlaceOf DEF Proper
<1>5. ASSUME NEW k, Becomes(t, k), k \in Requests', Proper(k)', k.pc # "idle" => k.op = m.op,
             ~ crossed' => Informed(k)
      PROVE  IInv'
  <2>1. TypeInv'
    <3>1. RequestTypes'
      BY <1>2, <1>3, <1>5, RequestMoves
    <3>2. CacheTypes'
      <4>1. Changes \subseteq Changes' /\ Results \subseteq Results'
        BY <1>3, ChangesGrow
      <4>2. /\ reads' \in [Queries -> Changes' \cup {None}]
            /\ lists' \in [Versions \X Stages -> Results' \cup {None}]
        BY <1>1, <1>2, <4>1 DEF TypeInv, CacheTypes, caches
      <4>3. QED BY <1>1, <1>2, <1>3, <4>1, <4>2
                DEF TypeInv, CacheTypes, caches, registry, history, Works
    <3>3. QED BY <3>1, <3>2 DEF TypeInv
  <2>2. ASSUME ~ crossed' PROVE Uncrossed'
    <3>1. Uncrossed
      BY <1>1, <2>2 DEF IInv, Works
    <3>2. QED BY <1>1, <1>2, <1>3, <1>5, <2>2, <3>1, QuietMove
  <2>3. QED BY <2>1, <2>2 DEF IInv
<1>6. CASE Becomes(t, Idle)
  <2>1. Idle \in Requests' /\ Proper(Idle)' /\ Idle.pc = "idle" /\ Informed(Idle)
    BY <1>2, <1>3, IdleSound, ChangesGrow
  <2>2. QED BY <1>5, <1>6, <2>1
<1>7. CASE /\ graph' = graph + 1 /\ m.op # "extract"
           /\ Becomes(t, [m EXCEPT !.pc = "verify", !.change = graph + 1])
  <2>1. PICK k : k = [m EXCEPT !.pc = "verify", !.change = graph + 1] /\ Becomes(t, k)
    BY <1>7
  <2>2. /\ k.op = m.op /\ k.pc = "verify" /\ k.stage = m.stage /\ k.edge = m.edge
        /\ k.schema = m.schema /\ k.todo = m.todo /\ k.basis = m.basis /\ k.plan = m.plan
        /\ k.got = m.got
    BY <2>1 DEF Requests
  <2>3. k \in Requests'
    <3>1. m \in Requests' /\ graph + 1 \in Changes'
      BY <1>2, <1>3, <1>7, ChangesGrow DEF Changes
    <3>2. QED BY <2>1, <3>1 DEF Requests, Pcs
  <2>4. Proper(k)'
    <3>1. Proper(m)'
      BY <1>2, <1>3, ChangesGrow
    <3>2. QED BY <1>2, <1>4, <1>7, <2>2, <3>1 DEF Proper, Places, Unread
  <2>5. ASSUME ~ crossed' PROVE Informed(k)
    <3>1. Informed(m) /\ (m.op \in Detecting => m.todo = Queries)
      BY <1>1, <1>2, <2>5, Task DEF Works, Proper, Unread
    <3>2. QED BY <1>2, <1>4, <2>2, <3>1 DEF Informed, ReadsCurrent, Emptied, RegistryKnown
  <2>6. QED BY <1>5, <2>1, <2>2, <2>3, <2>4, <2>5
<1>8. CASE m.op = "orphans" /\ Becomes(t, [m EXCEPT !.pc = "invalidate", !.plan = AfterOrphans])
  <2>1. PICK k : k = [m EXCEPT !.pc = "invalidate", !.plan = AfterOrphans] /\ Becomes(t, k)
    BY <1>8
  <2>2. /\ k.op = m.op /\ k.pc = "invalidate" /\ k.stage = m.stage /\ k.edge = m.edge
        /\ k.schema = m.schema /\ k.todo = m.todo /\ k.basis = m.basis
        /\ k.plan = <<"lists", "reads">> /\ k.got = m.got
    BY <2>1 DEF Requests, AfterOrphans
  <2>3. k \in Requests /\ Proper(k)
    BY <1>2, <1>8, <2>1, <2>2, AfterOrphansSound
  <2>4. k \in Requests' /\ Proper(k)'
    BY <1>3, <2>3, ChangesGrow
  <2>5. Informed(k)
    BY <1>8, <2>2 DEF Informed, ReadsCurrent, Emptied, RegistryKnown, Detecting
  <2>6. QED BY <1>5, <2>1, <2>2, <2>4, <2>5
<1>9. QED BY <1>2, <1>6, <1>7, <1>8 DEF Commit, Replies

LEMMA VerifyKeeps ==
    ASSUME IInv, NEW t \in Slots, Verify(t)
    PROVE  IInv'
<1>1. /\ ~ At(t, "idle")
      /\ Works
      /\ UNCHANGED <<graph, replica, caches, registry, history>>
  BY DEF Verify, At
<1>2. PICK m \in Requests : m = task[t] /\ Proper(m) /\ m.pc = "verify" /\ TypeInv
  BY Task DEF Verify, At
<1>3. m.op \in Mutators /\ m.plan = Plan(m.op)
  BY <1>2, PlaceOf DEF Proper
<1>4. CASE Replies(t)
  BY <1>1, <1>4, ReplyKeeps
<1>5. CASE Goes(t, "invalidate")
  <2>1. PICK k : k = [m EXCEPT !.pc = "invalidate"] /\ Becomes(t, k)
    BY <1>2, <1>5 DEF Goes
  <2>2. /\ k \in Requests
        /\ k.op = m.op /\ k.pc = "invalidate" /\ k.stage = m.stage /\ k.edge = m.edge
        /\ k.schema = m.schema /\ k.todo = m.todo /\ k.basis = m.basis /\ k.plan = m.plan
        /\ k.got = m.got
    BY <1>2, <2>1, Relabel DEF Pcs
  <2>3. k.plan \in Rests(k.op)
    BY <1>3, <2>2 DEF Mutators, Plan, Rests
  <2>4. Proper(k)
    BY <1>2, <1>3, <2>2, <2>3 DEF Proper, Places, Unread, Mutators
  <2>5. Informed(k)
    <3>1. k.op \in Detecting => k.todo = Queries
      BY <1>2, <2>2 DEF Proper, Unread
    <3>2. Head(k.plan) # "cooldown" /\ k.plan[2] # "cooldown"
      BY <1>3, <2>2 DEF Mutators, Plan
    <3>3. QED BY <1>3, <2>2, <3>1, <3>2
              DEF Informed, ReadsCurrent, Emptied, RegistryKnown, Mutators
  <2>6. QED BY <1>1, <1>2, <2>1, <2>2, <2>4, <2>5, QuietKeeps
<1>6. CASE m.op = "orphans" /\ Becomes(t, [m EXCEPT !.pc = "invalidate", !.plan = AfterOrphans])
  <2>1. PICK k : k = [m EXCEPT !.pc = "invalidate", !.plan = AfterOrphans] /\ Becomes(t, k)
    BY <1>6
  <2>2. k.op = m.op /\ k.pc = "invalidate" /\ k.plan = <<"lists", "reads">>
    BY <2>1 DEF Requests, AfterOrphans
  <2>3. k \in Requests /\ Proper(k)
    BY <1>2, <1>6, <2>1, AfterOrphansSound
  <2>4. Informed(k)
    BY <1>6, <2>2 DEF Informed, ReadsCurrent, Emptied, RegistryKnown, Detecting
  <2>5. QED BY <1>1, <1>2, <2>1, <2>2, <2>3, <2>4, QuietKeeps
<1>7. QED BY <1>2, <1>4, <1>5, <1>6 DEF Verify

LEMMA WakeUpKeeps ==
    ASSUME IInv, NEW t \in Slots, WakeUp(t)
    PROVE  IInv'
<1>1. /\ ~ At(t, "idle")
      /\ Works
      /\ UNCHANGED <<graph, replica, caches, registry, history>>
  BY DEF WakeUp, At
<1>2. PICK m \in Requests : m = task[t] /\ Proper(m) /\ m.pc = "sleep" /\ TypeInv
  BY Task DEF WakeUp, At
<1>3. m.op = "execute" /\ m.todo = Queries /\ replica >= m.change
  BY <1>2, PlaceOf DEF Proper, Unread, Detecting, WakeUp
<1>4. PICK k : k = [m EXCEPT !.pc = "schema"] /\ Becomes(t, k)
  BY <1>2 DEF WakeUp, Goes
<1>5. /\ k \in Requests
      /\ k.op = m.op /\ k.pc = "schema" /\ k.stage = m.stage /\ k.edge = m.edge
      /\ k.schema = m.schema /\ k.todo = m.todo /\ k.basis = m.basis /\ k.got = m.got
      /\ k.change = m.change
  BY <1>2, <1>4, Relabel DEF Pcs
<1>6. Proper(k)
  BY <1>2, <1>3, <1>5 DEF Proper, Places, Unread
<1>7. ASSUME ~ crossed' PROVE Informed(k)
  <2>1. Informed(m)
    BY <1>1, <1>2, <1>7, Task DEF Works
  <2>2. replica >= executed /\ executed = m.change
    BY <1>2, <1>3, <2>1 DEF Informed, ReadsCurrent
  <2>3. QED BY <1>3, <1>5, <2>2
            DEF Informed, ReadsCurrent, Emptied, RegistryKnown
<1>8. QED BY <1>1, <1>2, <1>4, <1>5, <1>6, <1>7, QuietKeeps

\* Where an invalidation leaves the request.
LEMMA AfterInvalidation ==
    ASSUME TypeInv, NEW m \in Requests, Proper(m), m.pc = "invalidate",
           NEW k,
           \/ k = Idle
           \/ Len(m.plan) = 1 /\ m.op = "execute" /\ k = [m EXCEPT !.pc = "sleep", !.plan = <<>>]
           \/ Len(m.plan) # 1 /\ k = [m EXCEPT !.plan = Tail(@)]
    PROVE  /\ k \in Requests /\ Proper(k) /\ (k.pc # "idle" => k.op = m.op)
           /\ k.pc \in {"idle", "sleep", "invalidate"} /\ (k.pc = "sleep" => Head(m.plan) = "cooldown")
           /\ k.pc # "idle" => k.op \in Mutators \cup {"clear"} /\ k.change = m.change
           /\ k.pc # "idle" /\ k.op \in Detecting => k.todo = Queries
           /\ k.pc = "sleep" => k.op = "execute"
           /\ k.pc = "invalidate" => Len(m.plan) # 1 /\ k.plan = Tail(m.plan)
<1>1. /\ m.op \in Ops /\ m.plan \in Rests(m.op) /\ m.stage \in Stages /\ m.edge \in Edges
      /\ m.schema \in Versions /\ m.op \in {"execute", "orphans", "clear", "exclude", "amend"}
      /\ m.op # "orphans" => m.basis = {}
      /\ m.op \in Detecting => m.todo = Queries
  BY PlaceOf DEF Proper, Unread
<1>2. CASE k = Idle
  BY <1>2, IdleSound
<1>3. CASE Len(m.plan) = 1 /\ m.op = "execute" /\ k = [m EXCEPT !.pc = "sleep", !.plan = <<>>]
  <2>1. m.plan = <<"cooldown">>
    BY <1>1, <1>3 DEF Rests
  <2>2. /\ k.op = m.op /\ k.pc = "sleep" /\ k.stage = m.stage /\ k.edge = m.edge
        /\ k.schema = m.schema /\ k.todo = m.todo /\ k.basis = m.basis /\ k.change = m.change
        /\ k.got = m.got
    BY <1>3 DEF Requests
  <2>3. k \in Requests
    <3>1. <<>> \in Seq({"reads", "lists", "cooldown"})
      OBVIOUS
    <3>2. QED BY <1>3, <3>1 DEF Requests, Pcs
  <2>4. Proper(k)
    BY <1>1, <1>3, <2>2 DEF Proper, Places, Detecting
  <2>5. m.todo = Queries /\ Head(m.plan) = "cooldown" /\ m.op \in Mutators
    BY <1>1, <1>3, <2>1 DEF Detecting, Mutators
  <2>6. QED BY <1>3, <2>2, <2>3, <2>4, <2>5
<1>4. CASE Len(m.plan) # 1 /\ k = [m EXCEPT !.plan = Tail(@)]
  <2>1. m.op \in Mutators \cup {"clear"}
    <3>1. m.op \in {"exclude", "amend"} => m.plan = <<"lists">>
      BY <1>1 DEF Rests
    <3>2. Len(<<"lists">>) = 1
      OBVIOUS
    <3>3. QED BY <1>1, <1>4, <3>1, <3>2 DEF Mutators
  <2>2. /\ k.op = m.op /\ k.pc = "invalidate" /\ k.stage = m.stage /\ k.edge = m.edge
        /\ k.schema = m.schema /\ k.todo = m.todo /\ k.basis = m.basis /\ k.change = m.change
        /\ k.got = m.got /\ k.plan = Tail(m.plan)
    BY <1>4 DEF Requests
  <2>3. Tail(m.plan) \in Rests(m.op)
    BY <1>1, <1>4, RestGoesOn
  <2>4. k \in Requests
    <3>1. Tail(m.plan) \in Seq({"reads", "lists", "cooldown"})
      BY <1>1, <2>3, RestGoesOn DEF Targets
    <3>2. QED BY <1>4, <3>1 DEF Requests
  <2>5. Proper(k)
    BY <1>1, <2>1, <2>2, <2>3 DEF Proper, Places, Mutators, Detecting
  <2>6. QED BY <1>1, <1>4, <2>1, <2>2, <2>4, <2>5
<1>5. QED BY <1>2, <1>3, <1>4

LEMMA InvalidateKeeps ==
    ASSUME IInv, NEW t \in Slots, Invalidate(t)
    PROVE  IInv'
<1>1. /\ ~ At(t, "idle")
      /\ Works \/ Fails
      /\ UNCHANGED <<graph, replica, affected, registry>>
  BY DEF Invalidate, At
<1>2. PICK m \in Requests : m = task[t] /\ Proper(m) /\ m.pc = "invalidate" /\ TypeInv
  BY Task DEF Invalidate, At
<1>3. PICK what : what = Head(m.plan)
  OBVIOUS
<1>4. /\ m.op \in {"execute", "orphans", "clear", "exclude", "amend"}
      /\ m.plan \in Rests(m.op) /\ m.change \in Changes /\ what \in Targets
  <2>1. m.plan \in Rests(m.op) /\ m.op \in Ops
    BY <1>2 DEF Proper
  <2>2. what \in Targets
    BY <1>3, <2>1, RestGoesOn
  <2>3. QED BY <1>2, <2>1, <2>2, PlaceOf DEF Requests
<1>5. PICK k :
        /\ Becomes(t, k)
        /\ \/ k = Idle
           \/ Len(m.plan) = 1 /\ m.op = "execute" /\ k = [m EXCEPT !.pc = "sleep", !.plan = <<>>]
           \/ Len(m.plan) # 1 /\ k = [m EXCEPT !.plan = Tail(@)]
  BY <1>2 DEF Invalidate, Done, Replies
<1>6. /\ k \in Requests /\ Proper(k) /\ (k.pc # "idle" => k.op = m.op)
      /\ k.pc \in {"idle", "sleep", "invalidate"} /\ (k.pc = "sleep" => what = "cooldown")
      /\ k.pc # "idle" => k.op \in Mutators \cup {"clear"} /\ k.change = m.change
      /\ k.pc # "idle" /\ k.op \in Detecting => k.todo = Queries
      /\ k.pc = "sleep" => k.op = "execute"
      /\ k.pc = "invalidate" => Len(m.plan) # 1 /\ k.plan = Tail(m.plan)
  BY <1>2, <1>3, <1>5, AfterInvalidation
<1>7. /\ executed' = IF what = "cooldown" THEN m.change ELSE executed
      /\ honoured' = IF m.op = "amend" THEN honoured \cup {m.edge} ELSE honoured
      /\ \/ /\ reads' = IF what = "reads" THEN [q \in Queries |-> None] ELSE reads
            /\ lists' = IF what = "lists" THEN [l \in Versions \X Stages |-> None] ELSE lists
            /\ cooldown' = IF what = "cooldown" THEN graph ELSE cooldown
         \/ Fails /\ UNCHANGED <<reads, lists, cooldown>>
  BY <1>2, <1>3 DEF Invalidate
<1>8. TypeInv'
  <2>1. executed' \in Changes
    BY <1>2, <1>4, <1>7 DEF TypeInv, CacheTypes
  <2>2. reads' \in [Queries -> Changes \cup {None}]
    BY <1>2, <1>7 DEF TypeInv, CacheTypes
  <2>3. lists' \in [Versions \X Stages -> Results \cup {None}]
    BY <1>2, <1>7 DEF TypeInv, CacheTypes
  <2>4. cooldown' \in Changes \cup {None}
    BY <1>2, <1>7 DEF TypeInv, CacheTypes, Changes
  <2>5. Changes' = Changes /\ Results' = Results
    BY <1>1 DEF Changes, Results
  <2>6. CacheTypes'
    BY <1>1, <1>2, <2>1, <2>2, <2>3, <2>4, <2>5, CallCounted DEF TypeInv, CacheTypes, registry
  <2>7. graph' \in Nat /\ graph <= graph' /\ k \in Requests' /\ Proper(k)'
    BY <1>1, <1>2, <1>6, ChangesGrow DEF TypeInv, CacheTypes
  <2>8. QED BY <1>2, <1>5, <2>6, <2>7, RequestMoves DEF TypeInv
<1>9. ASSUME ~ crossed' PROVE Uncrossed'
  <2>1. Uncrossed /\ Informed(m)
    BY <1>1, <1>2, <1>9, CallCounted, Task
  <2>2. /\ reads' = IF what = "reads" THEN [q \in Queries |-> None] ELSE reads
        /\ lists' = IF what = "lists" THEN [l \in Versions \X Stages |-> None] ELSE lists
        /\ cooldown' = IF what = "cooldown" THEN graph ELSE cooldown
    BY <1>7, <1>9 DEF Fails
  <2>3. m.op = "amend" => what = "lists" /\ m.edge \in amendments
    BY <1>2, <1>3, <1>4, <2>1 DEF Rests, Informed, RegistryKnown
  <2>4. what = "cooldown" =>
            /\ m.op \in Mutators
            /\ \A q \in Queries : reads[q] = None
            /\ \A l \in Versions \X Stages : lists[l] = None
    <3>1. what = "cooldown" => m.op \in Mutators
      BY <1>3, <1>4 DEF Rests, Mutators
    <3>2. QED BY <1>2, <1>3, <2>1, <3>1 DEF Informed, Emptied
  <2>5. CachesCurrent'
    <3>1. CASE what = "cooldown"
      <4>1. /\ \A q \in Queries : reads'[q] = None
            /\ \A l \in Versions \X Stages : lists'[l] = None
            /\ cooldown' = graph /\ executed' = m.change /\ graph # None /\ graph >= m.change
        <5>1. graph \in Nat /\ m.change \in Nat /\ graph >= m.change
          BY <1>2, <1>4 DEF TypeInv, CacheTypes, Changes
        <5>2. QED BY <1>7, <2>2, <2>4, <3>1, <5>1, CacheAssumption
      <4>2. QED BY <1>1, <2>1, <4>1 DEF Uncrossed, CachesCurrent
    <3>2. CASE what # "cooldown"
      <4>1. executed' = executed /\ cooldown' = cooldown
        BY <1>7, <2>2, <3>2
      <4>2. \A q \in Queries : reads'[q] # None => reads'[q] >= executed
        BY <2>1, <2>2 DEF Uncrossed, CachesCurrent
      <4>3. \A l \in Versions \X Stages : lists'[l] # None =>
                lists'[l] = lists[l] /\ honoured' = honoured
        BY <1>7, <2>2, <2>3
      <4>4. QED BY <1>1, <2>1, <4>1, <4>2, <4>3 DEF Uncrossed, CachesCurrent, Current
    <3>3. QED BY <3>1, <3>2
  <2>6. RegistrySound'
    BY <1>1, <1>7, <2>1, <2>3 DEF Uncrossed, RegistrySound, registry
  <2>7. ASSUME NEW u \in Slots \ {t}, ~ At(u, "idle") PROVE Stable(task[u])
    <3>1. /\ m.op \in Mutators => task[u].op \notin Readers \cup Mutators
          /\ m.op = "amend" => task[u].op # "generate"
      BY <1>1, <1>2, <2>1, <2>7, Company DEF Uncrossed
    <3>2. what # "cooldown" => executed' = executed
      BY <1>7
    <3>3. /\ \A q \in Queries : reads[q] = None => reads'[q] = None
          /\ \A l \in Versions \X Stages : lists[l] = None => lists'[l] = None
      BY <2>2
    <3>4. m.op # "amend" => honoured' = honoured
      BY <1>7
    <3>5. UNCHANGED <<replica, schema, amendments>> /\ replica \in Nat
      BY <1>1, <1>2 DEF registry, TypeInv, CacheTypes, Changes
    <3>6. QED BY <2>4, <3>1, <3>2, <3>3, <3>4, <3>5 DEF Stable
  <2>8. ASSUME k.pc # "idle" PROVE Informed(k)'
    <3>1. k.op \in Mutators \cup {"clear"}
      BY <1>6, <2>8
    <3>2. ReadsCurrent(k)'
      <4>1. k.op = "execute" /\ k.pc = "sleep" => executed' = k.change
        BY <1>6, <1>7
      <4>2. QED BY <1>6, <2>8, <3>1, <4>1 DEF ReadsCurrent, Mutators
    <3>3. Emptied(k)'
      <4>1. ASSUME k.op \in Mutators, k.pc = "invalidate"
            PROVE  /\ Head(k.plan) = "cooldown" => what = "lists" /\ m.plan[2] = "cooldown"
                   /\ Len(k.plan) > 1 /\ k.plan[2] = "cooldown" => what = "reads"
                   /\ Len(m.plan) > 1 /\ m.op \in Mutators
        <5>1. Len(m.plan) # 1 /\ k.plan = Tail(m.plan) /\ m.op \in Mutators
          BY <1>6, <4>1
        <5>2. Len(m.plan) > 1
          BY <1>4, <5>1, RestLength
        <5>3. QED BY <1>3, <1>4, <5>1, <5>2, RestOrder
      <4>2. ASSUME k.op \in Mutators, k.pc = "invalidate", Head(k.plan) = "cooldown"
            PROVE  /\ \A q \in Queries : reads'[q] = None
                   /\ \A l \in Versions \X Stages : lists'[l] = None
        <5>1. what = "lists" /\ m.plan[2] = "cooldown" /\ Len(m.plan) > 1 /\ m.op \in Mutators
          BY <4>1, <4>2
        <5>2. \A q \in Queries : reads[q] = None
          BY <1>2, <2>1, <5>1 DEF Informed, Emptied
        <5>3. QED BY <2>2, <5>1, <5>2
      <4>3. ASSUME k.op \in Mutators, k.pc = "invalidate", Len(k.plan) > 1, k.plan[2] = "cooldown"
            PROVE  \A q \in Queries : reads'[q] = None
        BY <2>2, <4>1, <4>3
      <4>4. QED BY <4>2, <4>3 DEF Emptied
    <3>4. RegistryKnown(k)'
      BY <3>1 DEF RegistryKnown, Mutators
    <3>5. QED BY <3>2, <3>3, <3>4 DEF Informed
  <2>9. QED BY <1>1, <1>2, <1>5, <1>6, <2>1, <2>5, <2>6, <2>7, <2>8, Move
<1>10. QED BY <1>8, <1>9 DEF IInv

(***************************************************************************)
(* The environment.                                                        *)
(***************************************************************************)
\* A step no request takes.
LEMMA Aside ==
    ASSUME IInv, UNCHANGED <<graph, task, crossed>>, CacheTypes',
           ~ crossed => /\ \A u \in Slots : ~ At(u, "idle") => Stable(task[u])
                        /\ CachesCurrent' /\ RegistrySound'
    PROVE  IInv'
<1>1. TypeInv /\ Changes' = Changes
  BY DEF IInv, Changes
<1>2. RequestTypes'
  BY <1>1 DEF TypeInv, RequestTypes, Requests, Proper
<1>3. ASSUME ~ crossed' PROVE Uncrossed'
  <2>1. Uncrossed
    BY <1>3 DEF IInv
  <2>2. Apart'
    BY <2>1 DEF Uncrossed, Apart, At
  <2>3. ASSUME NEW u \in Slots PROVE Informed(task[u])'
    <3>1. PICK m \in Requests : m = task[u] /\ m = task'[u] /\ Proper(m) /\ Informed(m)
      BY <1>1, <2>1 DEF Uncrossed, TypeInv, RequestTypes
    <3>2. CASE m.pc = "idle"
      BY <3>1, <3>2 DEF Informed
    <3>3. CASE m.pc # "idle"
      <4>1. Stable(m)
        BY <1>3, <3>1, <3>3 DEF At
      <4>2. Informed(m)'
        BY <1>1, <3>1, <3>3, <4>1, StaysInformed
      <4>3. QED BY <3>1, <4>2 DEF Informed
    <3>4. QED BY <3>2, <3>3
  <2>4. QED BY <1>3, <2>2, <2>3 DEF Uncrossed
<1>4. QED BY <1>1, <1>2, <1>3 DEF IInv, TypeInv

LEMMA PropagateKeeps ==
    ASSUME IInv, Propagate
    PROVE  IInv'
<1>1. /\ TypeInv /\ graph \in Nat /\ replica \in Nat /\ executed \in Nat
      /\ replica <= graph /\ replica' = graph /\ executed <= graph
      /\ UNCHANGED <<graph, caches, registry, task, crossed, history, left>>
  BY DEF Propagate, IInv, TypeInv, CacheTypes, Changes
<1>2. CacheTypes'
  BY <1>1 DEF TypeInv, CacheTypes, caches, registry, history, Changes, Results
<1>3. \A u \in Slots : Stable(task[u])
  BY <1>1 DEF Stable, caches, registry, history
<1>4. ~ crossed => CachesCurrent' /\ RegistrySound'
  BY <1>1 DEF IInv, Uncrossed, CachesCurrent, RegistrySound, Current, caches, registry, history
<1>5. QED BY <1>1, <1>2, <1>3, <1>4, Aside

LEMMA CooldownEndsKeeps ==
    ASSUME IInv, CooldownEnds
    PROVE  IInv'
<1>1. /\ TypeInv /\ replica \in Nat /\ executed \in Nat
      /\ cooldown # None /\ cooldown \in Nat /\ replica >= cooldown /\ cooldown' = None
      /\ UNCHANGED <<graph, replica, reads, lists, affected, registry, task, crossed, history, left>>
  BY DEF CooldownEnds, IInv, TypeInv, CacheTypes, Changes
<1>2. CacheTypes'
  BY <1>1 DEF TypeInv, CacheTypes, registry, history, Changes, Results
<1>3. \A u \in Slots : Stable(task[u])
  BY <1>1 DEF Stable, registry, history
<1>4. ~ crossed => CachesCurrent' /\ RegistrySound'
  BY <1>1 DEF IInv, Uncrossed, CachesCurrent, RegistrySound, Current, registry, history
<1>5. QED BY <1>1, <1>2, <1>3, <1>4, Aside

LEMMA ExpireKeeps ==
    ASSUME IInv, Expire
    PROVE  IInv'
<1>1. /\ TypeInv
      /\ UNCHANGED <<graph, replica, affected, cooldown, registry, task, crossed, history, left>>
  BY DEF Expire, IInv
<1>2. /\ reads' \in [Queries -> Changes \cup {None}]
      /\ \A q \in Queries : reads'[q] = None \/ reads'[q] = reads[q]
  BY <1>1 DEF Expire, TypeInv, CacheTypes
<1>3. /\ lists' \in [Versions \X Stages -> Results \cup {None}]
      /\ \A l \in Versions \X Stages : lists'[l] = None \/ lists'[l] = lists[l]
  BY <1>1 DEF Expire, TypeInv, CacheTypes
<1>4. CacheTypes'
  BY <1>1, <1>2, <1>3 DEF TypeInv, CacheTypes, registry, history, Changes, Results
<1>5. \A u \in Slots : Stable(task[u])
  BY <1>1, <1>2, <1>3 DEF Stable, TypeInv, CacheTypes, Changes, registry, history
<1>6. ~ crossed => CachesCurrent' /\ RegistrySound'
  <2>1. ~ crossed => RegistrySound'
    BY <1>1 DEF IInv, Uncrossed, RegistrySound, registry, history
  <2>2. ~ crossed => CachesCurrent'
    BY <1>1, <1>2, <1>3 DEF IInv, Uncrossed, CachesCurrent, Current, history
  <2>3. QED BY <2>1, <2>2
<1>7. QED BY <1>1, <1>4, <1>5, <1>6, Aside

LEMMA CrashKeeps ==
    ASSUME IInv, Crash
    PROVE  IInv'
<1>1. /\ TypeInv
      /\ task' = [t \in Slots |-> Idle]
      /\ UNCHANGED <<graph, replica, caches, registry, crossed, history>>
  BY DEF Crash, IInv
<1>2. CacheTypes'
  <2>1. left' \in [ops : SUBSET Ops, requests : Nat, faults : Nat, schema : Versions \cup {None}]
    BY <1>1 DEF Crash, TypeInv, CacheTypes
  <2>2. QED BY <1>1, <2>1 DEF TypeInv, CacheTypes, caches, registry, history, Changes, Results
<1>3. Idle \in Requests /\ Idle.pc = "idle"
  BY <1>1, IdleSound
<1>4. RequestTypes'
  <2>1. Idle \in Requests' /\ Proper(Idle)'
    BY <1>1, IdleSound, ChangesGrow DEF TypeInv, CacheTypes
  <2>2. QED BY <1>1, <2>1 DEF RequestTypes, Proper
<1>5. ~ crossed' => Uncrossed'
  <2>1. Apart' /\ \A t \in Slots : Informed(task[t])'
    BY <1>1, <1>3 DEF Apart, At, Informed
  <2>2. ~ crossed => CachesCurrent' /\ RegistrySound'
    BY <1>1 DEF IInv, Uncrossed, CachesCurrent, RegistrySound, Current, caches, registry, history
  <2>3. QED BY <1>1, <2>1, <2>2 DEF Uncrossed
<1>6. QED BY <1>2, <1>4, <1>5 DEF IInv, TypeInv

(***************************************************************************)
(* The specification.                                                      *)
(***************************************************************************)
LEMMA Initially == Init => IInv
<1> SUFFICES ASSUME Init PROVE IInv
  OBVIOUS
<1>1. /\ graph = 0 /\ replica = 0 /\ executed = 0 /\ crossed = FALSE
      /\ reads = [q \in Queries |-> None] /\ lists = [l \in Versions \X Stages |-> None]
      /\ affected = None /\ cooldown = None /\ amendments = {} /\ honoured = {}
      /\ task = [t \in Slots |-> Idle]
  BY DEF Init
<1>2. PICK s \in Scenarios : left = s /\ schema = s.schema
  BY DEF Init
<1>3. CacheTypes
  <2>1. s \in [ops : SUBSET Ops, requests : Nat, faults : Nat, schema : Versions \cup {None}]
    BY CacheAssumption
  <2>2. /\ left \in [ops : SUBSET Ops, requests : Nat, faults : Nat, schema : Versions \cup {None}]
        /\ schema \in Versions \cup {None}
    BY <1>2, <2>1
  <2>3. Changes = {0}
    BY <1>1 DEF Changes
  <2>4. QED BY <1>1, <2>2, <2>3 DEF CacheTypes
<1>4. Idle \in Requests /\ Idle.pc = "idle"
  BY <1>1 DEF Idle, Requests, Pcs, Changes
<1>5. RequestTypes
  BY <1>1, <1>4 DEF RequestTypes, Proper
<1>6. Uncrossed
  <2>1. Apart /\ \A t \in Slots : Informed(task[t])
    BY <1>1, <1>4 DEF Apart, At, Informed
  <2>2. CachesCurrent /\ RegistrySound
    BY <1>1 DEF CachesCurrent, RegistrySound
  <2>3. QED BY <2>1, <2>2 DEF Uncrossed
<1>7. QED BY <1>3, <1>5, <1>6 DEF IInv, TypeInv

LEMMA StutterKeeps ==
    ASSUME IInv, UNCHANGED vars
    PROVE  IInv'
<1>1. CacheTypes'
  BY DEF vars, caches, registry, history, IInv, TypeInv, CacheTypes, Changes, Results
<1>2. \A u \in Slots : Stable(task[u])
  BY DEF vars, caches, registry, history, Stable, IInv, TypeInv, CacheTypes, Changes
<1>3. ~ crossed => CachesCurrent' /\ RegistrySound'
  BY DEF vars, caches, registry, history, IInv, Uncrossed, CachesCurrent, RegistrySound, Current
<1>4. QED BY <1>1, <1>2, <1>3, Aside DEF vars

LEMMA StepKeeps == IInv /\ [Next]_vars => IInv'
<1> SUFFICES ASSUME IInv, [Next]_vars PROVE IInv'
  OBVIOUS
<1>1. ASSUME NEW t \in Slots, Step(t) PROVE IInv'
  <2>1. CASE Begin(t)
    BY <2>1, BeginKeeps
  <2>2. CASE CheckCooldown(t)
    BY <2>2, CheckCooldownKeeps
  <2>3. CASE ReadSchema(t)
    BY <2>3, ReadSchemaKeeps
  <2>4. CASE LookUpList(t)
    BY <2>4, LookUpListKeeps
  <2>5. CASE LookUpRead(t)
    BY <2>5, LookUpReadKeeps
  <2>6. CASE QueryGraph(t)
    BY <2>6, QueryGraphKeeps
  <2>7. CASE FillRead(t)
    BY <2>7, FillReadKeeps
  <2>8. CASE FindOrphans(t)
    BY <2>8, FindOrphansKeeps
  <2>9. CASE ReadAmendments(t)
    BY <2>9, ReadAmendmentsKeeps
  <2>10. CASE Store(t)
    BY <2>10, StoreKeeps
  <2>11. CASE LockSchema(t)
    BY <2>11, LockSchemaKeeps
  <2>12. CASE AppendAmendment(t)
    BY <2>12, AppendAmendmentKeeps
  <2>13. CASE Commit(t)
    BY <2>13, CommitKeeps
  <2>14. CASE Verify(t)
    BY <2>14, VerifyKeeps
  <2>15. CASE Invalidate(t)
    BY <2>15, InvalidateKeeps
  <2>16. CASE WakeUp(t)
    BY <2>16, WakeUpKeeps
  <2>17. QED BY <1>1, <2>1, <2>2, <2>3, <2>4, <2>5, <2>6, <2>7, <2>8, <2>9, <2>10, <2>11,
                <2>12, <2>13, <2>14, <2>15, <2>16 DEF Step
<1>2. CASE Propagate \/ CooldownEnds \/ Expire \/ Crash
  BY <1>2, PropagateKeeps, CooldownEndsKeeps, ExpireKeeps, CrashKeeps
<1>3. CASE UNCHANGED vars
  BY <1>3, StutterKeeps
<1>4. QED BY <1>1, <1>2, <1>3 DEF Next

\* What the handlers know of the caches, the registry and each other is so in every
\* reachable state.
THEOREM Invariance == Spec => []IInv
<1>1. Init => IInv
  BY Initially
<1>2. IInv /\ [Next]_vars => IInv'
  BY StepKeeps
<1>3. QED BY <1>1, <1>2, PTL DEF Spec

\* Caches, registry and requests hold what they are there for, and nothing was seen
\* that had not been written.
THEOREM TypeCorrect == Spec => []TypeOK
<1>1. IInv => TypeOK
  <2> SUFFICES ASSUME IInv PROVE TypeOK
    OBVIOUS
  <2>1. TypeInv /\ \A c : c \in Changes \cup {None} => Known(c)
    BY DEF IInv, Changes, Known
  <2>2. /\ replica \in 0 .. graph /\ executed \in 0 .. graph
        /\ \A q \in Queries : Known(reads[q])
        /\ Known(cooldown) /\ schema \in Versions \cup {None} /\ amendments \subseteq Edges
    BY <2>1 DEF TypeInv, CacheTypes, Changes
  <2>3. /\ \A l \in Versions \X Stages : lists[l] # None =>
              (\A q \in Queries : lists[l].saw[q] \in 0 .. graph) /\ lists[l].amended \subseteq Edges
        /\ affected # None => \A q \in Queries : affected.saw[q] \in 0 .. graph
    BY <2>1 DEF TypeInv, CacheTypes, Results, Changes
  <2>4. ASSUME NEW t \in Slots
        PROVE  /\ At(t, "lookup") => task[t].todo # {}
               /\ At(t, "invalidate") => task[t].plan # <<>>
               /\ \A q \in Queries : Known(task[t].got[q])
    <3>1. PICK m \in Requests : m = task[t] /\ Proper(m)
      BY <2>1 DEF TypeInv, RequestTypes
    <3>2. m.pc = "lookup" => m.todo # {}
      BY <3>1 DEF Proper
    <3>3. m.pc = "invalidate" => m.plan # <<>>
      <4>1. m.pc = "invalidate" => m.op \in Ops /\ m.plan \in Rests(m.op)
        BY <3>1 DEF Proper
      <4>2. QED BY <4>1, RestGoesOn
    <3>4. \A q \in Queries : Known(m.got[q])
      BY <2>1, <3>1 DEF Requests
    <3>5. QED BY <3>1, <3>2, <3>3, <3>4 DEF At
  <2>5. QED BY <2>2, <2>3, <2>4 DEF TypeOK
<1>2. QED BY <1>1, Invariance, PTL

\* As long as no call was lost and nothing crossed that is not kept apart, a cached
\* list saw the last execution and every amendment, whoever filled which query
\* result and whenever it was invalidated.
THEOREM ListsStayCurrent == Spec => []ListsAreCurrent
<1>1. IInv => ListsAreCurrent
  <2> SUFFICES ASSUME IInv PROVE ListsAreCurrent
    OBVIOUS
  <2>1. ~ crossed => Uncrossed
    BY DEF IInv
  <2>2. QED BY <2>1 DEF ListsAreCurrent, Uncrossed, CachesCurrent, Current, Informed,
                        ReadsCurrent, At
<1>2. QED BY <1>1, Invariance, PTL

\* Every step leaves an approved schema and the amendments there are.
THEOREM RegistryOnlyGrows == Spec => RegistryGrows
<1>1. IInv /\ IInv' /\ [Next]_vars =>
        (~ crossed' =>
           /\ schema # None => schema' = schema
           /\ amendments \subseteq amendments'
           /\ amendments' # {} => schema' # None /\ amendments' \cap Base[schema'] = {})
  <2> SUFFICES ASSUME IInv, IInv', [Next]_vars, ~ crossed'
               PROVE  /\ schema # None => schema' = schema
                      /\ amendments \subseteq amendments'
                      /\ amendments' # {} => schema' # None /\ amendments' \cap Base[schema'] = {}
    OBVIOUS
  <2>1. amendments' # {} => schema' # None /\ amendments' \cap Base[schema'] = {}
    BY DEF IInv, Uncrossed, RegistrySound
  <2>2. ASSUME NEW t \in Slots, LockSchema(t)
        PROVE  (schema # None => schema' = schema) /\ amendments' = amendments
    <3>1. Works \/ Fails
      BY <2>2 DEF LockSchema
    <3>2. PICK m \in Requests : m = task[t] /\ Proper(m) /\ m.pc = "lock" /\ Informed(m)
      BY <2>2, <3>1, Task, CallCounted DEF LockSchema, At
    <3>3. m.op = "approve"
      BY <3>2, PlaceOf
    <3>4. schema = None
      BY <3>2, <3>3 DEF Informed, RegistryKnown
    <3>5. QED BY <2>2, <3>4 DEF LockSchema
  <2>3. ASSUME NEW t \in Slots, AppendAmendment(t)
        PROVE  schema' = schema /\ amendments \subseteq amendments'
    <3>1. Works \/ Fails
      BY <2>3 DEF AppendAmendment
    <3>2. PICK m \in Requests : m = task[t] /\ Proper(m) /\ m.pc = "append" /\ Informed(m)
      BY <2>3, <3>1, Task, CallCounted DEF AppendAmendment, At
    <3>3. m.op = "amend"
      BY <3>2, PlaceOf
    <3>4. m.amended = amendments
      BY <3>2, <3>3 DEF Informed, RegistryKnown
    <3>5. QED BY <2>3, <3>2, <3>4 DEF AppendAmendment, Registry
  <2>4. ASSUME NEW t \in Slots, Step(t), ~ LockSchema(t), ~ AppendAmendment(t)
        PROVE  UNCHANGED registry
    BY <2>4 DEF Step, Begin, CheckCooldown, ReadSchema, LookUpList, LookUpRead, QueryGraph,
                FillRead, FindOrphans, ReadAmendments, Store, Commit, Verify, Invalidate, WakeUp
  <2>5. CASE Propagate \/ CooldownEnds \/ Expire \/ Crash \/ UNCHANGED vars
    BY <2>1, <2>5 DEF Propagate, CooldownEnds, Expire, Crash, vars, registry
  <2>6. QED BY <2>1, <2>2, <2>3, <2>4, <2>5 DEF Next, registry
<1>2. QED BY <1>1, Invariance, PTL DEF Spec, RegistryGrows
=============================================================================
