SPECIFICATION Spec
CONSTANTS
    Workers = {w1}
    Replays = {}
    Noisers = {o1}
    Invalidators = {}
    Restaters = {}
    Deltas <- MCDeltas
PROPERTIES
    NeverRevived
