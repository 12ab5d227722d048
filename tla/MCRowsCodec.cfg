CONSTANTS
    TableTypes <- MCTinyTable
    Vals <- MCVals
SPECIFICATION Spec
INVARIANTS
    RowsDecodeCorrect
