CONSTANTS
    p1 = p1  p2 = p2  p3 = p3  p4 = p4  p5 = p5  p6 = p6
    Posts = {p1, p2, p3, p4, p5, p6}
    Timestamp <- SixTimes
SPECIFICATION TimelineSpec
INVARIANTS PositionIsSearch PageFromStart
PROPERTIES SortedUnlessLate
CHECK_DEADLOCK FALSE
