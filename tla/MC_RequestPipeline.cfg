\* Queue large enough for every message of the bounded run: no submission,
\* synthetic or not, is refused.  One client thread, two Tunes, one Retune;
\* the queue still holds messages of both priorities at once.
CONSTANTS
    s1 = s1
    c1 = c1
    c2 = c2
    Slots <- MCSlots
    NumPriorities = 2
    Policy <- MCPolicy
    Low <- MCLow
    High <- MCHigh
    Default <- MCDefault
    Clients = {c1}
    Values = {1, 3}
    MaxHandle = 2
    MaxRetunes = 1
    QueueCapacity = 7

SPECIFICATION Spec
CHECK_DEADLOCK FALSE

INVARIANT TypeOK
INVARIANT NoImmortalRequest
PROPERTY EventuallyRemoved
