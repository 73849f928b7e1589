SPECIFICATION Spec
CONSTANTS
    Sources = {s1}
    Contents = {c1, c2}
    Times = {1, 2}
    MaxWaiting = 1
INVARIANT BootSurvives
