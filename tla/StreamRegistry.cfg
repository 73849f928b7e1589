SPECIFICATION Spec
CONSTANTS
    s1 = s1
    s2 = s2
    u1 = u1
    u2 = u2
    v1 = v1
    Streams = {s1, s2}
    Requests = {c1, c2}
    UrlsOf <- MCUrlsOf
    MaxCoords = 2
    MaxResults = 3
INVARIANTS OwnStream CountsWatchers
PROPERTIES DeadStaysDead
SYMMETRY MCSymmetry
CHECK_DEADLOCK FALSE
