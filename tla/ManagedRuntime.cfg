CONSTANTS
    c1 = c1
    c2 = c2
    p1 = p1
    p2 = p2
    NoPid = NoPid
    Callers <- TwoCallers
    PlansOf <- SomePlans
    Plans <- TwoPlans
    Pids <- TwoPids
    MaxOps = 2
    MaxLaunch = 2
    MaxForeign = 1
    MaxCrash = 1
    MaxPolls = 1
SPECIFICATION Spec
INVARIANTS
    ServersAccounted
    TimingIsOfItsProcess
PROPERTIES
    ForeignUntouched
    CommandEnds
CHECK_DEADLOCK FALSE
