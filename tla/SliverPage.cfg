CONSTANTS
    s = s
    m = m
    b = b
    NoItem = NoItem
    Items <- SliverItems
    SizeOf <- SliverSizes
    PageSize = 48
    Reserve = 0
SPECIFICATION Spec
PROPERTIES AcceptsOnlyWhatFits
CHECK_DEADLOCK FALSE
