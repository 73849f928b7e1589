SPECIFICATION FairSession
CONSTANTS
    Readers = {c1, c2}
    N = 2
    MaxSeq = 2
    MaxStarts = 1
    MaxData = 1
PROPERTIES
    WriterStops
    WaitersWoken
CHECK_DEADLOCK FALSE
