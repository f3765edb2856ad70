--------------------------- MODULE ProposalStates ---------------------------
(* The lifecycle vocabulary of a Proposal Packet (api/proposals/models.py):  *)
(* the states, and which state may follow which.                             *)

States == {"pending", "approved", "executed", "rejected", "deferred", "excluded"}

Transitions ==
    ({"pending"} \X {"approved", "rejected", "deferred", "excluded"})
        \cup {<<"approved", "executed">>,
              <<"deferred", "pending">>,
              <<"excluded", "pending">>}

CanTransition(from, to) == <<from, to>> \in Transitions
=============================================================================
