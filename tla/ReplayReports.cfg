SPECIFICATION Spec
CONSTANTS
    e1 = e1
    e2 = e2
    w1 = w1
    w2 = w2
    None = None
    Event = {e1, e2}
    Worker = {w1, w2}
    Repairer = {r1}
    Holder = {}
    MaxAttempts = 2
    Cap = 1
    RunLimit = 1
    MaxFaults = 1
CHECK_DEADLOCK FALSE
SYMMETRY Alike
INVARIANTS
    ReplayTypeOK
    CompleteServed
    RepairedIsQueued
