SPECIFICATION Spec
CONSTANTS
    None = None
    MaxPushes = 2
    MaxPosts = 2
    Parts = {"fields", "json", "wire", "lines", "ais"}
INVARIANTS TypeOK FramingHolds FieldsComeBack
CHECK_DEADLOCK FALSE
