\* The consumer with two worker threads against the main ledger: pool
\* announcements, detach and redelivery, a failing or never answered
\* global-index request, subscriptions added and removed.  A batch hung on
\* a lost callback really stops, so deadlock is not checked here; that
\* every batch returns when the node answers is batch_returns.
CONSTANTS
    A = A  B = B  C = C
    k1 = k1  k2 = k2  k3 = k3  k4 = k4  k5 = k5  k6 = k6  k7 = k7
    T1 = T1  T2 = T2  T3 = T3  T4 = T4  P1 = P1
    SpendKeys = {A, B}
    OutKeys = {k1, k2, k3, k4, k5, k6, k7}
    Txs = {T1, T2, T3, T4, P1}
    NoOwner = NoOwner
    Unconfirmed = Unconfirmed
    NoKey = NoKey
    Absent = Absent
    TxData <- MainTxData
    Underive <- MainUnderive
    Chain <- MainChain
    PoolTxs <- MainPool
    SubStart <- MainSubStart
    HardwareConcurrency = 2
    UInt64Max = 99
    MaxBatch = 2
    MaxDetach = 1
    MaxNodeErrors = 1
    MaxPoolEvents = 1
    RecoveredKeys <- MainRecovered
    InitialSubs = {A, B}
    MaxSubChanges = 1
    NodeFaults = {"error", "lost"}
    ThreadStartMayFail = TRUE

SPECIFICATION Spec

INVARIANT TypeOK
INVARIANT SyncStartIsMin
INVARIANT OwnedTransfersRecorded
PROPERTY ChangesAnnounced
CHECK_DEADLOCK FALSE
