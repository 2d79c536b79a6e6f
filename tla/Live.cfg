SPECIFICATION FairSpec
CONSTANTS
    b0 = b0
    b1 = b1
    c1 = c1
    b2 = b2
    u1 = u1
    u2 = u2
    u3 = u3
    t1 = t1
    t2 = t2
    e1 = e1
    NoBlock = NoBlock
    Root = b0
    Number <- MCNumber
    Parent <- MCParent
    Entries = {e1}
    Takes <- AllCollections
    Txs = {t1}
    TxsOf <- RaceTxsOf
    AccessList <- RaceAccessList
    LogCount <- RaceLogCount
    Blocks = {b0, b1, c1, u1}
    Unsupported = {u1}
    MaxInFlight = 1
    Indexers = {i1}
PROPERTIES
    AlwaysPollsAgain
    StableHeadIndexed
    CalmRunIndexesAll
