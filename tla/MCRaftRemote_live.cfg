\* Liveness of the vote handler: a pending m_vote_state settles, even when
\* resolvers destroyed by reset() or replaced by ensure_connection still
\* call back (their continuations replay on the current slots).
CONSTANTS
    s = s
    a = a
    b = b
    None = None
    Peers <- MCPeers
    Self = s
    MaxTerm = 2
    MaxLog = 0
    MessageSize = 1
    MaxFaults = 1
    ReplacedResolver = "orphaned"
    WonTermInit <- MCWonTermZero
SPECIFICATION Spec
PROPERTY
    VoteSettles
CHECK_DEADLOCK FALSE
