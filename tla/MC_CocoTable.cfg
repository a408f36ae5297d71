\* Slot s1 HigherIsBetter, slot s2 InstantApply; two priority levels.
CONSTANTS
    s1 = s1
    s2 = s2
    Slots <- MCSlots
    NumPriorities = 2
    Policy <- MCPolicyHigherInstant
    Low <- MCLow
    High <- MCHigh
    Default <- MCDefault
    MaxHandle = 3
    Values = {1, 3}

INIT MCInit
NEXT MCNext

INVARIANT TypeOK
INVARIANT AppliedIsHighestHead
INVARIANT NodesLinkedOnce
PROPERTY CocoRefinement
