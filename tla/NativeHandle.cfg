\* Two wrappers of any kind; the caller of a Java feed keeps it while next runs.
SPECIFICATION WrapperFairSpec
CONSTANTS
    Objects = {a, b}
    Kinds = {"go", "java", "java_feed", "csharp"}
    Careful = {"java_feed"}
INVARIANTS
    NotFreedInUse
    FreedOnce
PROPERTY FreedInTheEnd
CHECK_DEADLOCK FALSE
