SPECIFICATION Spec
CONSTANTS
    Workers = {w1, w2}
    Replays = {p1}
    Noisers = {}
    Invalidators = {o1}
    Restaters = {}
    Deltas <- MCDeltas
SYMMETRY Alike
VIEW LiveState
INVARIANTS
    ReviewTypeOK
    NetZero
    CountsLinked
    NoLockCycle
