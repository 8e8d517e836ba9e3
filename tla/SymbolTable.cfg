SPECIFICATION Spec
CONSTANTS
    Spellings = {"a", "A", "aA", "b", "yo", "YO", "d", "e"}
    Classes <- MCClasses
    Fold <- MCFold
    Hash <- MCHash
    Words = {"b", "d"}
    PrimeSizes = {7, 13}
    StartSlots = 1
    MaxCopies = 2
    NoSpelling = NoSpelling
    Null = Null
    Deleted = Deleted
CHECK_DEADLOCK FALSE
INVARIANTS
    CanonFound
    RingIsClass
    SlotsCounted
    VacancyLeft
PROPERTY
    ImplementsInterning
