SPECIFICATION FairSpec
CONSTANTS
    Nodes = {n1, n2}
    UsedRoots = {"natives", "symbols", "stack", "guarded", "frames", "devices"}
    MaxRefs = 3
CHECK_DEADLOCK FALSE
INVARIANTS
    TypeOK
    NoDangling
    NoPanic
PROPERTIES
    SweepExact
    CollectionEnds
