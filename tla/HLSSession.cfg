SPECIFICATION Spec
CONSTANTS
    Clients = {c1, c2}
    MaxStarts = 2
    MaxResults = 2
    Segments = 2
INVARIANTS HLSConnectionExact BodiesReleased 
CHECK_DEADLOCK FALSE
