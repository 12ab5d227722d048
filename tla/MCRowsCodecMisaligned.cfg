CONSTANTS
    TableTypes <- MCGeometryTable
    Vals <- MCVals
SPECIFICATION Spec
INVARIANTS
    UpdateRowsPaired
