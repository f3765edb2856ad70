-------------------------- MODULE MCCandidateCache --------------------------
(* Instances of CandidateCache for TLC.                                      *)
EXTENDS CandidateCache, TLC

CONSTANTS s1, s2, e1, e2, e3, t1, t2

Alike == Permutations(Slots)

MCBase == (s1 :> {e1}) @@ (s2 :> {e2})

Bound(ops, requests, faults, locked) ==
    [ops |-> ops, requests |-> requests, faults |-> faults, schema |-> locked]

\* Lists across executions; amendments across lists; the schema; every request.
MCScenarios ==
    {Bound({"generate", "execute", "explore"}, 4, 0, s1),
     Bound({"generate", "amend"}, 4, 1, s1),
     Bound({"approve", "amend"}, 3, 1, None),
     Bound({"generate", "execute", "extract"}, 3, 1, s1),
     Bound({"generate", "orphans", "exclude", "clear", "scoped"}, 3, 0, s1)}
=============================================================================
