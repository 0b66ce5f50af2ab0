\* findMyOutputs against the reference over 7^0 + ... + 7^3 output lists,
\* derivable or not, for every subset of {A, B}.
CONSTANTS
    A = A  B = B  k1 = k1  k2 = k2  k3 = k3
    SpendKeys = {A, B}
    OutKeys = {k1, k2, k3}
    NoOwner = NoOwner
    Txs <- ScanTxs
    TxData <- ScanTxData
    Underive <- ScanUnderive

SPECIFICATION Spec

INVARIANT ScannerMatchesReference
