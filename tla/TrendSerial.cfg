SPECIFICATION FairSpec
CONSTANTS
    Workers = {w1, w2}
    Decayers = {d1}
    Restaters = {}
    Activators = {}
    Renamers = {}
    Deltas <- MCDeltas
    Baseline = 0
    Scale = 8
    Left <- MCLeft
    MaxTime = 2
    MaxTx = 3
    MaxBatch = 2
    MaxLine = 1
INVARIANTS
    TypeOK
    DecayedOnce
PROPERTIES
    SerialSpec
    TransactionsEnd
