CONSTANTS
    Keys <- FewKeys
    SizeOf <- KeySizes
    LeafSpan = 63
    MaxRows = 6
SPECIFICATION Spec
INVARIANTS EveryRowIndexed
CHECK_DEADLOCK FALSE
