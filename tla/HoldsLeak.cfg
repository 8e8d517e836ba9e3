SPECIFICATION Spec
CONSTANTS
    Arrays = {a1, a2}
    NoArray = NoArray
    MaxDepth = 5
    MaxItems = 2
SYMMETRY ArraySymmetry
INVARIANT
    HoldsAreReleased
