SPECIFICATION LiveSpec
CONSTANTS
    MaxEntries = 5
    XREAD_COUNT = 2
    MAX_PUMP_ATTEMPTS = 3
INVARIANT TypeOK
PROPERTY IsStreamReader
PROPERTY CatchesUp
