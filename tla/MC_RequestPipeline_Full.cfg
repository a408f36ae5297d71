\* A queue of two places: every submission, the expiry timer's synthetic
\* Untune included, is refused while it is full.
CONSTANTS
    s1 = s1
    c1 = c1
    c2 = c2
    Slots <- MCSlots
    NumPriorities = 2
    Policy <- MCPolicy
    Low <- MCLow
    High <- MCHigh
    Default <- MCDefault
    Clients = {c1}
    Values = {1, 3}
    MaxHandle = 2
    MaxRetunes = 1
    QueueCapacity = 2

SPECIFICATION Spec
CHECK_DEADLOCK FALSE

INVARIANT NoImmortalRequest
