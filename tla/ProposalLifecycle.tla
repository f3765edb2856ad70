-------------------------- MODULE ProposalLifecycle --------------------------
(* What the governed pipeline promises about proposals, with no stores, no   *)
(* requests and no failures: a proposal moves along the state machine of     *)
(* api/proposals/models.py one step at a time, its diff is applied to the    *)
(* graph only while it is approved and at most once, it is marked executed   *)
(* only after that, and an archive never takes an executed proposal.         *)
EXTENDS ProposalStates

CONSTANT Proposals

VARIABLES
    state,      \* lifecycle state of each proposal, "absent" if there is none
    applied     \* proposals whose diff has reached the graph

vars == <<state, applied>>

Move(p, from, to) == state[p] = from /\ state' = [state EXCEPT ![p] = to]

Create(p) == Move(p, "absent", "pending") /\ UNCHANGED applied

Review(p, to) ==
    /\ to # "executed"
    /\ CanTransition(state[p], to)
    /\ Move(p, state[p], to)
    /\ UNCHANGED applied

Apply(p) ==
    /\ state[p] = "approved"
    /\ p \notin applied
    /\ applied' = applied \cup {p}
    /\ UNCHANGED state

MarkExecuted(p) ==
    /\ p \in applied
    /\ Move(p, "approved", "executed")
    /\ UNCHANGED applied

Archive(p) ==
    /\ state[p] \notin {"absent", "executed"}
    /\ p \notin applied
    /\ Move(p, state[p], "absent")
    /\ UNCHANGED applied

Init ==
    /\ state \in [Proposals -> {"absent", "pending"}]
    /\ applied = {}

Next == \E p \in Proposals :
    \/ Create(p) \/ Apply(p) \/ MarkExecuted(p) \/ Archive(p)
    \/ \E to \in States : Review(p, to)

Spec == Init /\ [][Next]_vars
=============================================================================
