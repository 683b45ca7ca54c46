CONSTANTS
    s = s
    m = m
    b = b
    NoItem = NoItem
    Items <- SliverItems
    SizeOf <- SliverSizes
    PageSize = 48
    Reserve = 0
SPECIFICATION Spec
INVARIANTS TypeOK IntactUnlessWrapped
PROPERTIES TupleIdsStable
CHECK_DEADLOCK FALSE
