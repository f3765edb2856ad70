------------------------- MODULE MCGovernedMutation -------------------------
(* Small instances of GovernedMutation for TLC.                              *)
EXTENDS GovernedMutation

CONSTANTS low, high

\* One candidate per proposal.
MCCandidateOf == [p \in Proposals |-> p]

MCReviewOps == {"create", "approve", "confirm", "reject", "defer", "exclude", "restore"}
MCSerialOps == MCReviewOps \cup {"execute", "archive", "orphan"}
MCGateOps == {"approve", "confirm", "execute", "reject", "crash"}
MCStormOps == (MCSerialOps \ {"defer"}) \cup {"clear", "clear_candidates", "crash"}
MCFaultlessOps == {"approve", "confirm", "reject", "execute", "orphan"}
=============================================================================
