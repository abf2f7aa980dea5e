\* Safety of the replicator when a destroyed resolver never calls back.
CONSTANTS
    s = s
    a = a
    b = b
    None = None
    Peers <- MCPeers
    Self = s
    MaxTerm = 2
    MaxLog = 2
    MessageSize = 1
    MaxFaults = 1
    ReplacedResolver = "cancelled"
    WonTermInit <- MCWonTermZero
INIT Init
NEXT Next
INVARIANTS
    TypeOK
    NoNullHandler
    MatchSound
    CommitSafe
    
SYMMETRY MCSymmetry
CHECK_DEADLOCK FALSE
