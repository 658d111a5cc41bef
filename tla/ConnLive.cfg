SPECIFICATION LiveSpec
CONSTANTS
    pool = pool
    relay = relay
    Ends = {pool, relay}
    Peer <- MCPeer
    Pinger = {pool}
    Script <- MCScript
    RecvCap = 1
    SendCap = 1
    WireCap = 1
    MaxPings = 1
    MaxFaults = 1
CHECK_DEADLOCK FALSE
INVARIANTS
    Ordered
PROPERTIES
    DeliversOrEnds
