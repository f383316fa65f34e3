SPECIFICATION FairSpec
CONSTANTS
    Item = {1, 2, 3}
    Run = {w1, w2}
    None = None
    Story <- MCStory
    Content <- MCContent
    Backlog = {1, 2}
    Resumed = {1}
    Limit = 2
    MaxDay = 2
    MaxFaults = 1
    w1 = w1
    w2 = w2
INVARIANTS
    ItemsTypeOK
    OneEvent
    
    BatchesDontDeadlock
PROPERTIES
    ItemsSettle
CHECK_DEADLOCK FALSE
