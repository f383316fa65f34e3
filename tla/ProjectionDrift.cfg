SPECIFICATION Spec
CONSTANTS
    Workers = {w1}
    Decayers = {}
    Restaters = {}
    Activators = {}
    Renamers = {}
    Deltas <- MCDeltas
    Baseline = 0
    Scale = 8
    Left <- MCLeft
    MaxTime = 1
    MaxTx = 2
    MaxBatch = 1
    MaxLine = 1
INVARIANTS
    ProjectionMatches
ACTION_CONSTRAINT Prompt
