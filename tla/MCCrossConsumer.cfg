\* T1 pays A and B, watched by the first consumer, and C, watched by the
\* second; T2 repeats T1's keys k2 (B) and k3 (C).  Whichever of the three
\* createTransfers calls for T1 runs first marks T1's hash seen, and the
\* keys of the later ones, in the same consumer or the other one, are never
\* registered: T2 is then credited to B or to C a second time.
CONSTANTS
    A = A  B = B  C = C
    k1 = k1  k2 = k2  k3 = k3  k4 = k4  k5 = k5  k6 = k6  k7 = k7
    T1 = T1  T2 = T2  T3 = T3  T4 = T4  P1 = P1
    SpendKeys = {A, B, C}
    Keys1 = {A, B}
    Keys2 = {C}
    OutKeys = {k1, k2, k3}
    Txs = {T1, T2}
    NoOwner = NoOwner
    Unconfirmed = Unconfirmed
    NoKey = NoKey
    Absent = Absent
    TxData <- CrossTxData
    Underive <- CrossUnderive
    Chain <- TwoBlocks
    PoolTxs = {T1}
    SubStart <- ZeroStart
    HardwareConcurrency = 1
    UInt64Max = 99
    MaxBatch = 1
    MaxDetach = 0
    MaxNodeErrors = 0
    MaxPoolEvents = 0
    RecoveredKeys = {}
    InitialSubs1 = {A, B}
    InitialSubs2 = {C}
    MaxSubChanges = 0
    NodeFaults = {"error"}
    ThreadStartMayFail = FALSE

SPECIFICATION Spec

INVARIANT ProcessOutputKeyUnique
