\* A heartbeat replaces the pending replicate resolver: the append never completes.
CONSTANTS
    s = s
    a = a
    b = b
    None = None
    Peers <- MCPeers
    Self = s
    MaxTerm = 2
    MaxLog = 1
    MessageSize = 1
    MaxFaults = 1
    ReplacedResolver = "cancelled"
    WonTermInit <- MCWonTermZero
SPECIFICATION Spec
PROPERTY
    AppendSettles
CHECK_DEADLOCK FALSE
