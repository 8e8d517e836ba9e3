SPECIFICATION Spec
CONSTANTS
    Arrays = {a1, a2}
    NoArray = NoArray
    MaxDepth = 6
    MaxItems = 2
SYMMETRY ArraySymmetry
INVARIANTS
    TypeOK
    OneTaker
PROPERTIES
    HoldOutlivesReaders
    HoldsLeakOnlyByDrop
