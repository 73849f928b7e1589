SPECIFICATION SessionSpec
CONSTANTS
    Readers = {c1, c2}
    N = 2
    MaxSeq = 4
    MaxStarts = 2
    MaxData = 2
SYMMETRY ClientSymmetry
INVARIANTS
    SessionTypeOK
    SingleWriter
    CountExact
    ConcurrencyExact
    QuiescentClean
PROPERTIES
    ImplementsBuffer
CHECK_DEADLOCK FALSE
