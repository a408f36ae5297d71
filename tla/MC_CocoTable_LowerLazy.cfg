\* Slot s1 LowerIsBetter, slot s2 LazyApply; two priority levels.
CONSTANTS
    s1 = s1
    s2 = s2
    Slots <- MCSlots
    NumPriorities = 2
    Policy <- MCPolicyLowerLazy
    Low <- MCLow
    High <- MCHigh
    Default <- MCDefault
    MaxHandle = 3
    Values = {1, 3}

INIT MCInit
NEXT MCNext

INVARIANT AppliedIsHighestHead
PROPERTY CocoRefinement
