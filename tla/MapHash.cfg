SPECIFICATION Spec
CONSTANTS
    Keys = {"a", "A", "1", "1.0"}
    Same <- MCSame
    Alike <- MCAlike
    Hash <- MCHash
    Values = {v}
    Null = Null
    PrimeSizes = {7, 13, 31}
INVARIANTS
    KeyFound
    RehashHasLive
PROPERTY
    ImplementsMap
