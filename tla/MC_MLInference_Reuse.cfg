\* The process exits and the kernel gives its PID to a second process.
CONSTANTS
    TextCols <- MCTextCols
    Labels <- MCLabels
    MaxGen = 2

SPECIFICATION Spec
\* Once the process has exited and its event is handled, the classifier
\* thread blocks on its empty event queue.
CHECK_DEADLOCK FALSE

INVARIANT InferenceOnCheckedProcess
