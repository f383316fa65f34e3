SPECIFICATION Spec
CONSTANTS
    Session = {s1, s2, s3}
    Tiers <- TwoTiers
    Costs <- OddCosts
    Grain = 2
    CallLimit = 2
    DailyLimit = 4
    MaxCalls = 2
SYMMETRY Alike
INVARIANTS
    BudgetTypeOK
    SpendWithinLimit
    NeverOvercounted
    NoWaitCycle
