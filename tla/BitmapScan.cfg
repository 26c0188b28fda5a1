CONSTANTS
    BytesLen = 3
    Width = 3
    Counts <- MCCounts
SPECIFICATION Spec
INVARIANTS TypeOK ScanIsFirstFit
PROPERTY ScanEnds
