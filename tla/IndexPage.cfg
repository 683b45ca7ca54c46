CONSTANTS
    s = s
    m = m
    b = b
    NoItem = NoItem
    Items <- RowItems
    SizeOf <- RowSizes
    PageSize = 56
    Reserve = 8
SPECIFICATION Spec
INVARIANTS PageSound
PROPERTIES ImplementsPageSpec
