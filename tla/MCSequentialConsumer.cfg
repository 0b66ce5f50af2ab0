\* Two worker threads on the shared-output ledger (T1 pays A and B), with a
\* detach and redelivery, a failed batch, one pool update, a subscription
\* added or removed, and a restored key, checked against the sequential
\* consumer.
CONSTANTS
    A = A  B = B  C = C
    k1 = k1  k2 = k2  k3 = k3  k4 = k4  k5 = k5  k6 = k6  k7 = k7
    T1 = T1  T2 = T2  T3 = T3  T4 = T4  P1 = P1
    SpendKeys = {A, B}
    OutKeys = {k1, k2, k3}
    Txs = {T1, T2}
    NoOwner = NoOwner
    Unconfirmed = Unconfirmed
    NoKey = NoKey
    Absent = Absent
    TxData <- SharedTxData
    Underive <- SharedUnderive
    Chain <- TwoBlocks
    PoolTxs = {T1, T2}
    SubStart <- MainSubStart
    HardwareConcurrency = 2
    UInt64Max = 99
    MaxBatch = 2
    MaxDetach = 1
    MaxNodeErrors = 1
    MaxPoolEvents = 1
    RecoveredKeys <- SharedRecovered
    InitialSubs = {A, B}
    MaxSubChanges = 1
    NodeFaults = {"error"}
    ThreadStartMayFail = TRUE

SPECIFICATION SpecR

PROPERTY SequentialRefinement
