SPECIFICATION Spec
CONSTANTS
    Tasks = {t}
    Script <- MCScript
    BufferSize = 2
    FlushSize = 2
    LiveBuffer = 1
    MaxErrors = 2
INVARIANTS
    AppliedInOrder
PROPERTIES
    NoSilentLoss
CHECK_DEADLOCK FALSE
