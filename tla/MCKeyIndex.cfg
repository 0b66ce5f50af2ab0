\* A transaction whose Key output follows a two-key multisignature output:
\* the running key index and the output index of the Key output differ.
CONSTANTS
    A = A  B = B  C = C
    k1 = k1  k2 = k2  k3 = k3  k4 = k4  k5 = k5  k6 = k6  k7 = k7
    T1 = T1  T2 = T2  T3 = T3  T4 = T4  P1 = P1
    SpendKeys = {A, B}
    OutKeys = {k1, k2, k3}
    Txs = {T1}
    NoOwner = NoOwner
    Unconfirmed = Unconfirmed
    NoKey = NoKey
    Absent = Absent
    TxData <- MsigTxData
    Underive <- MsigUnderive
    Chain <- OneBlock
    PoolTxs = {}
    SubStart <- ZeroStart
    HardwareConcurrency = 1
    UInt64Max = 99
    MaxBatch = 1
    MaxDetach = 0
    MaxNodeErrors = 0
    MaxPoolEvents = 0
    RecoveredKeys = {}
    InitialSubs = {A}
    MaxSubChanges = 0
    NodeFaults = {"error"}
    ThreadStartMayFail = FALSE

SPECIFICATION Spec

INVARIANT CreditedKeysRederive
