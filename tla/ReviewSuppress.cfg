SPECIFICATION Spec
CONSTANTS
    Workers = {w1}
    Replays = {}
    Noisers = {o1}
    Invalidators = {}
    Restaters = {o2}
    Deltas <- MCDeltas
INVARIANTS
    NoLateEvidence
