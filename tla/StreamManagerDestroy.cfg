SPECIFICATION FairSpec
CONSTANTS
    Handlers = {h1, h2}
    MaxStreams = 1
PROPERTY DroppedDestroyed
CHECK_DEADLOCK FALSE
