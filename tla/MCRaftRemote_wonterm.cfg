\* m_won_term is never initialised: a value the allocation left behind
\* counts as a vote won in the current term.
CONSTANTS
    s = s
    a = a
    b = b
    None = None
    Peers <- MCPeers
    Self = s
    MaxTerm = 2
    MaxLog = 2
    MessageSize = 1
    MaxFaults = 1
    ReplacedResolver = "cancelled"
    WonTermInit <- MCWonTermAny
INIT Init
NEXT Next
INVARIANTS
    LeaderHasQuorum
SYMMETRY MCSymmetry
CHECK_DEADLOCK FALSE
