SPECIFICATION LiveSpec
CONSTANTS
    Reads = {r1, r2}
    Writes = {w1, w2}
    ReadLimit = 1
    WriteLimit = 1
    MaxCompletions = 2
INVARIANT TypeOK
INVARIANT ReadsAreAccounted
PROPERTY WedgeEndsByOverflow
PROPERTY StarvationIsForever
PROPERTY ReadsSettle
PROPERTY IsLeakySemaphore
