CONSTANTS
    short = short
    long = long
    huge = huge
    Rows <- ThreeRows
    SizeOf <- ThreeSizes
    PageSpan = 31
    TidPages = 2
    MaxPages = 3
SPECIFICATION Spec
INVARIANTS TypeOK SelfTidIsHome PendingStillThere
PROPERTIES ImplementsRowStore StatementsEnd
