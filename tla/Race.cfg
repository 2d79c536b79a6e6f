SPECIFICATION Spec
CONSTANTS
    b0 = b0
    b1 = b1
    c1 = c1
    b2 = b2
    u1 = u1
    u2 = u2
    u3 = u3
    t1 = t1
    t2 = t2
    e1 = e1
    NoBlock = NoBlock
    Root = b0
    Number <- MCNumber
    Parent <- MCParent
    Entries = {e1}
    Takes <- AllCollections
    Blocks = {b0, b1, c1}
    Txs = {t1}
    TxsOf <- RaceTxsOf
    AccessList <- RaceAccessList
    LogCount <- RaceLogCount
    Unsupported = {}
    MaxInFlight = 0
    Indexers = {i1, i2}
INVARIANTS
    OneWriter
PROPERTIES
    ImplementsChainIndex
