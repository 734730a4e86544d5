SPECIFICATION Spec
CONSTANTS
    Handlers = {h1, h2}
    MaxStreams = 3
INVARIANTS
    LiveReachable
    UsedNotDestroyed
CHECK_DEADLOCK FALSE
