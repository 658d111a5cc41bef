SPECIFICATION Spec
CONSTANTS
    d1 = d1
    d2 = d2
    t1 = t1
    t2 = t2
    Dirs = {d1, d2}
    CfgDirs <- MCCfgDirs
    Disk <- MCDisk
    Found <- MCFound
    OldKeys = 2
    Wants <- MCWants
    SizeRequests = {7, 36}
    PathRequests <- MCPaths
    MaxKeys = 7
    MaxCalls = 3
    Txs = {t1, t2}
    None = None
    Ins <- MCIns
    Special <- MCSpecial
    Binding <- MCBinding
    CoinbaseMaturity = 3
    TxMaturity = 2
    Width = 4
    MaxBlocks = 5
    Base = 3
    Places = 2
    MaxMass = 4
    ByteBits = 2
    WordBits = 3
    MinUnits = 1
    MaxUnits = 2
    HashByte <- MCHashByte
    KByte = 4
    KeyLen = 2
    Order = 13
    Hardened = 2
    MaxDepth = 5
    Mac <- MCMac
    Half = 2
    HashLen = 2
    G1Len = 1
    G2Len = 3
    ProofSpaces = {1, 2, 3}
    RowByte = 4
    WordLen = 2
    MapByte = 32
    Uint64Len = 2
    LenMetaInfo = 20
    FileCode <- MCFileCode
    PubKeys <- MCPubKeys
    PubKeyHash <- MCPubKeyHash
    Tie <- MCTie
CHECK_DEADLOCK FALSE
INVARIANTS
    
    LedgerAnswers
    StreamSound
    RoundTrips
    FilesSound
    SpacesListed
