SPECIFICATION Spec
CONSTANTS
    Bases = {0, 253, 65533, 16777209}
    MaxNumber = 7
INVARIANTS
    ComputesClear
    SenderHears
CHECK_DEADLOCK FALSE
