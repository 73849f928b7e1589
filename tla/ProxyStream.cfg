SPECIFICATION Spec
CONSTANTS
    Clients = {c1, c2}
    MaxResults = 2
    Chunks = 2
INVARIANTS BodiesOwned DirectInOrder
PROPERTY GoroutinesEnd
CHECK_DEADLOCK FALSE
