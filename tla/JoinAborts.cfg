CONSTANTS
    a = a
    b = b
    c = c
    Null = Null
    None = None
    Tables <- ThreeTables
    Contents <- FewContents
    FromClauses <- SomeFromClauses
    Queries <- SomeQueries
SPECIFICATION Spec
INVARIANTS LeftTupleThere
CHECK_DEADLOCK FALSE
