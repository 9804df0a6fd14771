---------------------------- MODULE MCProposalGate ----------------------------
(* Instance of ProposalGate for TLC. *)
EXTENDS ProposalGate

CONSTANTS p1, p2, h1, s1, s2, v1, v2

MCProposals == {p1, p2}
MCHandlers == {h1}
MCStrategies == {s1, s2}
MCVersions == {v1, v2}
\* Up to the names: p2 asks for the same playbook as p1, for another of the strategy or of
\* another strategy, or for nothing that can be applied.
MCPayloads ==
    LET asks(s, v, a) == [strategy |-> s, version |-> v, appliable |-> a]
        of(other) == [p \in MCProposals |-> IF p = p1 THEN asks(s1, v1, TRUE) ELSE other]
    IN {of(asks(s1, v1, TRUE)), of(asks(s1, v2, TRUE)), of(asks(s2, v2, TRUE)), of(asks(s1, v2, FALSE))}
==============================================================================
