SPECIFICATION FairSpec
CONSTANTS
    e1 = e1
    e2 = e2
    w1 = w1
    w2 = w2
    None = None
    Event = {e1, e2}
    Worker = {w1}
    Repairer = {r1}
    Holder = {h1}
    MaxAttempts = 2
    Cap = 1
    RunLimit = 2
    MaxFaults = 2
CHECK_DEADLOCK FALSE
PROPERTIES
    QueueDrains
