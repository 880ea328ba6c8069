SPECIFICATION Spec
CONSTANTS
    None = None
    MaxPushes = 2
    MaxPosts = 2
    Parts = {"wire"}
INVARIANTS UnitsDeclared
CHECK_DEADLOCK FALSE
