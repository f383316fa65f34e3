SPECIFICATION FairSpec
CONSTANTS
    Workers = {w1}
    Decayers = {}
    Restaters = {r1}
    Activators = {a1, a2}
    Renamers = {p1}
    Deltas <- MCDeltas
    Baseline = 0
    Scale = 8
    Left <- MCLeft
    MaxTime = 0
    MaxTx = 4
    MaxBatch = 1
    MaxLine = 3
INVARIANTS
    LineBooked
PROPERTIES
    TransactionsEnd
