CONSTANTS
    Time2Metas = {0, 2, 4}
    DecimalShapes <- MCDecimalShapes
SPECIFICATION Spec
INVARIANTS
    ValuesDecodeCorrect
