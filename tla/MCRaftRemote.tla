---------------------------- MODULE MCRaftRemote ----------------------------
(* Model-checking instance of RaftRemote: three members, Self among them. *)
EXTENDS RaftRemote, TLC

CONSTANTS s, a, b

MCPeers == {s, a, b}

\* Members other than Self are interchangeable.
MCSymmetry == Permutations({a, b})

\* m_won_term as a zero-filled allocation leaves it.
MCWonTermZero == {0}

\* m_won_term as any allocation may leave it (a read of an uninitialised
\* value): any term of the model, or one above them all.
MCWonTermAny == 0..(MaxTerm + 1)

=============================================================================
