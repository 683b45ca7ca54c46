CONSTANTS
    RelTableDef = RelTableDef
    IndexTableDef = IndexTableDef
    Foo = Foo
    B = B
    fooIndex = fooIndex
    bIndex = bIndex
    t = t
    tIndex = tIndex
    iIndex = iIndex
    UserTables <- User
    IndexName <- IndexNames
    SizeOf <- Sizes
    PageSpan = 47
    WithColumn <- Columns
    MaxMisread = 3
    MaxDefs = 7
SPECIFICATION Spec
INVARIANTS TypeOK RowsNumbered MadeTablesOpen IndexHasTable IndexNamesItsParent IndexWithinTable
