CONSTANTS
    Values <- MCHostileValues
    MaxTail = 3
SPECIFICATION Spec
INVARIANTS
    LenEncStringCorrect
