SPECIFICATION FairSession
CONSTANTS
    Readers = {c1}
    N = 3
    MaxSeq = 2
    MaxStarts = 1
    MaxData = 1
PROPERTIES
    ErrorEndsReading
CHECK_DEADLOCK FALSE
