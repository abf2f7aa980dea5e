\* A vote granted in an earlier term is counted in the current one.
CONSTANTS
    s = s
    a = a
    b = b
    None = None
    Peers <- MCPeers
    Self = s
    MaxTerm = 2
    MaxLog = 2
    MessageSize = 1
    MaxFaults = 1
    ReplacedResolver = "cancelled"
    WonTermInit <- MCWonTermZero
INIT Init
NEXT Next
INVARIANTS
    LeaderHasQuorum
SYMMETRY MCSymmetry
CHECK_DEADLOCK FALSE
