SPECIFICATION Spec
CONSTANTS
    Item = {1, 2}
    Run = {w1}
    None = None
    Story <- MCStory
    Content <- MCSame
    Backlog = {}
    Resumed = {}
    Limit = 2
    MaxDay = 1
    MaxFaults = 0
    w1 = w1
INVARIANTS
    OneCopyKept
CHECK_DEADLOCK FALSE
