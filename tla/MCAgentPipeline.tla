-------------------------- MODULE MCAgentPipeline --------------------------
(* Instances of AgentPipeline for TLC: two candidates that share a node, and  *)
(* a third one that a chain group stands for.                                *)
EXTENDS AgentPipeline, TLC

CONSTANTS c1, c2, c3, n1, n2, n3

CachedList == <<c1, c3, c2>>
NodesOf == (c1 :> {n1, n2}) @@ (c2 :> {n2, n3}) @@ (c3 :> {n1, n3})

Bound(runs, cancels, reviews, faults, kinds, ids, retrieval) ==
    [runs |-> runs, cancels |-> cancels, reviews |-> reviews, faults |-> faults,
     kinds |-> kinds, ids |-> ids, retrieval |-> retrieval]

AllCandidates == {{}}
OneCandidate == {{c1}}
Handled == {"enqueue", "agent", "worker"}

\* A run over the pair with a fault, and without Agent-B a worker that stops, or
\* with a cancel; two runs of one candidate with a cancel or a review across them; one
\* run with each kind of fault, or two stops of the worker, after which ARQ gives up.
AllScenarios ==
    {Bound(1, 0, 0, 1, {"enqueue", "agent"}, AllCandidates, BOOLEAN),
     Bound(1, 0, 0, 1, {"worker"}, AllCandidates, {FALSE}),
     Bound(1, 1, 0, 0, {}, AllCandidates, BOOLEAN),
     Bound(2, 1, 0, 0, {}, OneCandidate, BOOLEAN),
     Bound(2, 0, 1, 0, {}, OneCandidate, BOOLEAN),
     Bound(1, 1, 0, 1, Handled \cup {"api"}, OneCandidate, BOOLEAN),
     Bound(1, 1, 0, 1, {"redis", "timeout"}, OneCandidate, BOOLEAN),
     Bound(1, 0, 0, 2, {"worker"}, OneCandidate, BOOLEAN)}
=============================================================================
