\* Six changes before and during walks through pages of one, two or three.
SPECIFICATION Spec
CONSTANTS
    Notes <- MCNotes
    DefaultLimit = 2
    MaxLimit = 3
    MaxChanges = 6
    NoParam = NoParam
INVARIANT WalkIsExact
CHECK_DEADLOCK FALSE
