SPECIFICATION Spec
CONSTANTS
    r1 = r1
    r2 = r2
    i1 = i1
    i2 = i2
    u1 = u1
    u2 = u2
    Requests = {r1, r2}
    Indexes = {i1, i2}
    IndexOrder <- MCIndexOrder
    SubUrls <- MCSubUrls
    Max <- MCMax
    MaxRetries = 2
    MaxOthers = 2
INVARIANTS LBTypeOK CountBalanced LimitUnlessRaced LapCoversIntact
PROPERTIES AskedOnce BalanceEnds
CHECK_DEADLOCK FALSE
