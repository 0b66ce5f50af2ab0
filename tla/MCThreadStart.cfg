\* One worker (hardware_concurrency() = 1, queue capacity 2), a block of
\* four transactions, a node that always answers, and std::async that may
\* throw when it starts the worker.  A stuck state is what this run shows,
\* so it is reported through BatchReturns rather than as a deadlock.
CONSTANTS
    A = A  B = B  C = C
    k1 = k1  k2 = k2  k3 = k3  k4 = k4  k5 = k5  k6 = k6  k7 = k7
    T1 = T1  T2 = T2  T3 = T3  T4 = T4  P1 = P1
    SpendKeys = {A, B}
    OutKeys = {k1, k2, k3, k4}
    Txs = {T1, T2, T3, T4}
    NoOwner = NoOwner
    Unconfirmed = Unconfirmed
    NoKey = NoKey
    Absent = Absent
    TxData <- WideTxData
    Underive <- WideUnderive
    Chain <- WideChain
    PoolTxs = {}
    SubStart <- ZeroStart
    HardwareConcurrency = 1
    UInt64Max = 99
    MaxBatch = 1
    MaxDetach = 0
    MaxNodeErrors = 0
    MaxPoolEvents = 0
    RecoveredKeys = {}
    InitialSubs = {A}
    MaxSubChanges = 0
    NodeFaults = {"error"}
    ThreadStartMayFail = TRUE

SPECIFICATION Spec

PROPERTY BatchReturns
CHECK_DEADLOCK FALSE
