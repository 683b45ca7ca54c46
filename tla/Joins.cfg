CONSTANTS
    a = a
    b = b
    c = c
    Null = Null
    None = None
    Tables <- ThreeTables
    Contents <- FewContents
    FromClauses <- SomeFromClauses
    Queries <- SomeQueries
SPECIFICATION Spec
INVARIANTS ResultsSound ResultsComplete SortedOutput AbortsExplained IndexHarmless
PROPERTY QueryEnds
CHECK_DEADLOCK FALSE
