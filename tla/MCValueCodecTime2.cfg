CONSTANTS
    Time2Metas = {1, 3, 5, 6}
    DecimalShapes <- MCDecimalShapes
SPECIFICATION Spec
INVARIANTS
    ValuesDecodeCorrect
