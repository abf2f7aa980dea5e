\* A replayed replicate continuation re-sends on the in-flight append handler
\* and overwrites its m_last_index.
CONSTANTS
    s = s
    a = a
    b = b
    None = None
    Peers <- MCPeers
    Self = s
    MaxTerm = 2
    MaxLog = 2
    MessageSize = 1
    MaxFaults = 1
    ReplacedResolver = "orphaned"
    WonTermInit <- MCWonTermZero
INIT Init
NEXT Next
INVARIANTS
    MatchSound
SYMMETRY MCSymmetry
CHECK_DEADLOCK FALSE
