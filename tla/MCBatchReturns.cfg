\* Two worker threads on the main ledger with a node that answers every
\* global-index request: every onNewBlocks call returns, also when account B
\* subscribes between batches.
CONSTANTS
    A = A  B = B  C = C
    k1 = k1  k2 = k2  k3 = k3  k4 = k4  k5 = k5  k6 = k6  k7 = k7
    T1 = T1  T2 = T2  T3 = T3  T4 = T4  P1 = P1
    SpendKeys = {A, B}
    OutKeys = {k1, k2, k3, k4, k5, k6, k7}
    Txs = {T1, T2, T3, T4, P1}
    NoOwner = NoOwner
    Unconfirmed = Unconfirmed
    NoKey = NoKey
    Absent = Absent
    TxData <- MainTxData
    Underive <- MainUnderive
    Chain <- MainChain
    PoolTxs <- MainPool
    SubStart <- MainSubStart
    HardwareConcurrency = 2
    UInt64Max = 99
    MaxBatch = 2
    MaxDetach = 1
    MaxNodeErrors = 0
    MaxPoolEvents = 0
    RecoveredKeys <- MainRecovered
    InitialSubs = {A}
    MaxSubChanges = 1
    NodeFaults = {"error"}
    ThreadStartMayFail = FALSE

SPECIFICATION Spec

PROPERTY BatchReturns
