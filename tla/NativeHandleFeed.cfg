\* The live feed of the Java binding, whose next ends with its native call, and a
\* caller that drops the feed during its last one.
SPECIFICATION WrapperSpec
CONSTANTS
    Objects = {a, b}
    Kinds = {"java_feed"}
    Careful = {}
INVARIANT NotFreedInUse
CHECK_DEADLOCK FALSE
