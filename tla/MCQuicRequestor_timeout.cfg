CONSTANTS
    TimeoutMs = 3
SPECIFICATION Spec
INVARIANT ConnectedOnSuccess
CHECK_DEADLOCK FALSE
