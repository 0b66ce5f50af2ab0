\* Two consumers, one thread each: T1 pays A, watched by the first, and B,
\* watched by the second; T2 pays B.  Either consumer may see T1 first, in
\* a block or, for the second, announced in the pool; detach and
\* redelivery on either side.
CONSTANTS
    A = A  B = B  C = C
    k1 = k1  k2 = k2  k3 = k3  k4 = k4  k5 = k5  k6 = k6  k7 = k7
    T1 = T1  T2 = T2  T3 = T3  T4 = T4  P1 = P1
    SpendKeys = {A, B}
    Keys1 = {A}
    Keys2 = {B}
    OutKeys = {k1, k2, k3}
    Txs = {T1, T2}
    NoOwner = NoOwner
    Unconfirmed = Unconfirmed
    NoKey = NoKey
    Absent = Absent
    TxData <- SharedTxData
    Underive <- SharedUnderive
    Chain <- TwoBlocks
    PoolTxs = {T1}
    SubStart <- ZeroStart
    HardwareConcurrency = 1
    UInt64Max = 99
    MaxBatch = 1
    MaxDetach = 1
    MaxNodeErrors = 0
    MaxPoolEvents = 1
    RecoveredKeys = {}
    InitialSubs1 = {A}
    InitialSubs2 = {B}
    MaxSubChanges = 0
    NodeFaults = {"error"}
    ThreadStartMayFail = FALSE

SPECIFICATION Spec

INVARIANT OwnedTransfersRecordedBoth
VIEW PairView
