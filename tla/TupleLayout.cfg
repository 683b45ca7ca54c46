CONSTANTS
    NumCols = 3
    DataStart = 2
    Values <- SomeValues
    Null = Null
    Tids = {t0, t1}
    ZeroTid = t0
SPECIFICATION Spec
INVARIANTS TypeOK LayoutSound CopyInBlock
PROPERTIES ImplementsTupleSpec
