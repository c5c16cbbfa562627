CONSTANTS
    a = a
    b = b
    Ids = {a, b}
    MaxGap = 2
    ConfirmSeconds = 1
    RecoverySeconds = 1
    ClearSeconds = 2
    LostSeconds = 1
    CommandTimeout = 3
SYMMETRY Symmetry
SPECIFICATION Spec
INVARIANTS
    OpensOnlyWhenClear
    ReopenedUnlessOverlapped
PROPERTIES
    NoRepeatedCommand
    HazardsAreNotForgotten
