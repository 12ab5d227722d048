CONSTANTS
    Values <- MCValues
    MaxTail = 3
SPECIFICATION Spec
INVARIANTS
    FixedWidthIntsMatch
    BitmapHelpersMatch
    LenEncIntRoundTrip
    LenEncStringCorrect
