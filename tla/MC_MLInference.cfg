\* One process holds the PID and may exit; the PID is never reused.
CONSTANTS
    TextCols <- MCTextCols
    Labels <- MCLabels
    MaxGen = 1

SPECIFICATION Spec
\* Once the process has exited and its event is handled, the classifier
\* thread blocks on its empty event queue.
CHECK_DEADLOCK FALSE

INVARIANT TypeOK
