SPECIFICATION Spec
CONSTANTS
    Cores = {c1, c2}
    Durations = {1, 7}
    Shortest = 1
    Longest = 7
    Limit = 2
    IntMax = 5
    MaxRuns = 3
INVARIANTS WindowExact
PROPERTY AverageInRange
CHECK_DEADLOCK FALSE
