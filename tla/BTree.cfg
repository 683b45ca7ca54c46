CONSTANTS
    Keys <- FewKeys
    SizeOf <- KeySizes
    LeafSpan = 63
    MaxRows = 6
SPECIFICATION Spec
INVARIANTS TreeTypeOK EntriesSound ChainCoversFile ForwardScanComplete
INVARIANTS ScanSound CrashExplained
PROPERTIES InsertsOneEntry ScanEnds
CHECK_DEADLOCK FALSE
